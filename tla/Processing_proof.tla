--------------------------- MODULE Processing_proof ---------------------------
(***************************************************************************)
(* Events and decisions, for any values of the constants: what becomes of  *)
(* events in a StreamProcessor, and what the parts of MCDecisions, which   *)
(* decide on them, keep by themselves and together.                        *)
(*                                                                         *)
(* Of StreamProcessor the argument is: a listener that holds an event is   *)
(* in control or asleep, and only a high-priority one sleeps (Reading), so *)
(* that below high priority what the handlers were offered is in the       *)
(* queue, in process() or counted; and an event is in one place on its way *)
(* from the wire through the one listener and the queue to process(),      *)
(* behind those before it (Ordered).                                       *)
(*                                                                         *)
(* The parts of MCDecisions share no state: each has its inductive         *)
(* invariant (...Inv), with lemmas that it holds at the start (...Begins), *)
(* that a step keeps it (...Steps) and what it implies (...Says); the      *)
(* theorems about the run of all parts are at the end.                     *)
(***************************************************************************)
EXTENDS MCDecisions, StreamProcessor, FiniteNumbers

ReadRecord == [ev : Events \cup {0}, done : 0 .. MaxListeners, asleep : BOOLEAN]

\* The listeners and what they hold.
Reading ==
  /\ config \in Deployments
  /\ subscribers \in 0 .. MaxListeners /\ active \in 0 .. subscribers
  /\ dead \in SUBSET (1 .. subscribers)
  /\ reading \in [1 .. MaxListeners -> ReadRecord]
  /\ \A l \in 1 .. MaxListeners :
       /\ l \notin Listeners => reading[l] = Unread
       /\ reading[l].ev = 0 => reading[l] = Unread
       /\ reading[l].ev # 0 =>
            reading[l].done < subscribers /\ (active = l <=> ~ reading[l].asleep)
       /\ reading[l].asleep => config.high
       /\ active = l => reading[l].ev # 0
  /\ stage = "starting" => subscribers < MaxListeners

\* The wire, the queue and the loop.
Working ==
  /\ sent \in [Events -> 0 .. config.copies] /\ wire \in Seq(Events)
  /\ queue \in Seq(Events) /\ Len(queue) <= QueueLimit
  /\ stage \in {"off", "starting", "poll", "process", "publish"}
  /\ IF stage \in {"process", "publish"} THEN current \in Events ELSE current = 0
  /\ processedIds \in SUBSET Events
  /\ metrics \in [{"processed", "produced", "failed", "dropped"} -> Nat]
  /\ tried \in [Events -> Nat] /\ handled \in [Events -> Nat]
  /\ offered \in Nat /\ cancelled \in Nat

Typed == Reading /\ Working

-----------------------------------------------------------------------------
\* The numbers of a deployment.
LEMMA DeploymentNumbers ==
  ASSUME config \in Deployments
  PROVE  /\ DeploymentOK(config) /\ MaxListeners \in Nat /\ config.copies \in Nat \ {0}
         /\ config.types \in Nat \ {0} /\ config.starts \in Nat
<1>1. DeploymentOK(config)
  BY ConstantsAssumption
<1>2. QED
  BY <1>1 DEF DeploymentOK, MaxListeners

\* A multiple that is not below the last one is the last.
LEMMA LastMultiple ==
  ASSUME NEW a \in Nat \ {0}, NEW b \in Nat, NEW n \in 0 .. a * b, n % a # 0 PROVE n < a * b
<1>1. (a * b) % a = 0
  OBVIOUS
<1>2. QED
  BY <1>1

\* What Append and Tail make of a sequence.
LEMMA Appended ==
  ASSUME NEW S, NEW q \in Seq(S), NEW e \in S
  PROVE  /\ Append(q, e) \in Seq(S) /\ Len(Append(q, e)) = Len(q) + 1 /\ Len(q) \in Nat
         /\ \A i \in 1 .. Len(q) : Append(q, e)[i] = q[i]
         /\ Append(q, e)[Len(q) + 1] = e
OBVIOUS

LEMMA Shortened ==
  ASSUME NEW S, NEW q \in Seq(S), q # <<>>
  PROVE  /\ Tail(q) \in Seq(S) /\ Len(Tail(q)) = Len(q) - 1 /\ Len(q) \in Nat \ {0}
         /\ \A i \in 1 .. Len(Tail(q)) : Tail(q)[i] = q[i + 1]
         /\ Head(q) = q[1] /\ Head(q) \in S
OBVIOUS

\* What _mark_processed leaves.
LEMMA MarkedIsKnown ==
  ASSUME NEW ids, NEW e, NEW kept \in Marked(ids, e) PROVE kept \subseteq ids \cup {e}
BY DEF Marked

\* The listeners after one of them got another record.
LEMMA ReadingStep ==
  ASSUME Reading, NEW l \in Listeners, NEW r \in ReadRecord,
         reading' = [reading EXCEPT ![l] = r],
         UNCHANGED <<config, subscribers, stage>>,
         active \in {0, l}, active' \in {0, l}, dead' \in SUBSET (1 .. subscribers),
         \A k \in 1 .. subscribers : k # l => (k \in dead' <=> k \in dead),
         l \in dead' => r = Unread,
         r.ev = 0 => r = Unread,
         r.ev # 0 => r.done < subscribers /\ (active' = l <=> ~ r.asleep),
         r.asleep => config.high,
         active' = l => r.ev # 0
  PROVE  Reading'
<1>1. /\ l \in 1 .. subscribers /\ l \in 1 .. MaxListeners /\ MaxListeners \in Nat /\ subscribers \in Nat
      /\ l # 0 /\ MaxListeners' = MaxListeners
  BY DeploymentNumbers DEF Reading, Listeners, MaxListeners
<1>2. /\ reading' \in [1 .. MaxListeners -> ReadRecord]
      /\ reading'[l] = r /\ \A k \in 1 .. MaxListeners : k # l => reading'[k] = reading[k]
  BY <1>1 DEF Reading
<1>3. active' \in 0 .. subscribers
  BY <1>1 DEF Reading
<1>4. \A k \in 1 .. MaxListeners : k # l => (k \in Listeners <=> k \in Listeners')
  BY <1>1 DEF Listeners
<1>5. ASSUME NEW k \in 1 .. MaxListeners
      PROVE  /\ k \notin Listeners' => reading'[k] = Unread
             /\ reading'[k].ev = 0 => reading'[k] = Unread
             /\ reading'[k].ev # 0 =>
                  reading'[k].done < subscribers' /\ (active' = k <=> ~ reading'[k].asleep)
             /\ reading'[k].asleep => config'.high
             /\ active' = k => reading'[k].ev # 0
  <2>1. CASE k = l
    BY <2>1, <1>1, <1>2 DEF Listeners
  <2>2. CASE k # l
    BY <2>2, <1>1, <1>2, <1>4 DEF Reading
  <2>3. QED
    BY <2>1, <2>2
<1>6. QED
  BY <1>1, <1>2, <1>3, <1>5 DEF Reading, MaxListeners, ReadRecord

\* What a handler call leaves of its listener.
LEMMA ReturnEffect ==
  ASSUME Reading, NEW l \in Listeners, reading[l].ev # 0, active \in {0, l}, Return(l),
         UNCHANGED <<config, subscribers, stage>>
  PROVE  /\ Reading'
         /\ \/ reading' = [reading EXCEPT ![l] = Unread] /\ active' = 0
            \/ /\ subscribers > 1 /\ active' = l
               /\ reading' = [reading EXCEPT ![l] = [reading[l] EXCEPT !.done = reading[l].done + 1,
                                                                      !.asleep = FALSE]]
<1>1. /\ l \in 1 .. subscribers /\ l \in 1 .. MaxListeners /\ MaxListeners \in Nat
      /\ subscribers \in Nat /\ subscribers <= MaxListeners
  BY DeploymentNumbers DEF Reading, Listeners
<1>2. reading[l] \in ReadRecord /\ reading[l].done < subscribers
  BY <1>1 DEF Reading
<1>3. Unread \in ReadRecord /\ Unread.ev = 0 /\ Unread.asleep = FALSE
  BY <1>1 DEF Unread, ReadRecord
<1>4. CASE reading[l].done + 1 = subscribers
  <2>1. /\ reading' = [reading EXCEPT ![l] = Unread] /\ active' = 0
        /\ dead' = dead \/ dead' = dead \cup {l}
    BY <1>4 DEF Return, Listen
  <2> DEFINE r == Unread
  <2>2. r \in ReadRecord /\ r.ev = 0 /\ r.asleep = FALSE /\ reading' = [reading EXCEPT ![l] = r]
    BY <2>1, <1>3
  <2>3. l \in dead' => r = Unread
    OBVIOUS
  <2>4. r.ev = 0 => r = Unread
    OBVIOUS
  <2>5. /\ dead' \in SUBSET (1 .. subscribers)
        /\ \A k \in 1 .. subscribers : k # l => (k \in dead' <=> k \in dead)
    BY <2>1, <1>1 DEF Reading
  <2> HIDE DEF r
  <2>6. /\ active' \in {0, l} /\ (active' = l => r.ev # 0) /\ (r.asleep => config.high)
        /\ (r.ev # 0 => r.done < subscribers /\ (active' = l <=> ~ r.asleep))
    BY <2>1, <2>2, <1>1
  <2>7. Reading'
    BY <2>2, <2>3, <2>4, <2>5, <2>6, ReadingStep
  <2>8. QED
    BY <2>1, <2>7
<1>5. CASE reading[l].done + 1 # subscribers
  <2> DEFINE r == [reading[l] EXCEPT !.done = reading[l].done + 1, !.asleep = FALSE]
  <2>1. reading' = [reading EXCEPT ![l] = r] /\ active' = l /\ dead' = dead
    BY <1>5 DEF Return
  <2>2. /\ r \in ReadRecord /\ r.ev = reading[l].ev /\ r.done = reading[l].done + 1
        /\ r.asleep = FALSE
    <3>1. reading[l].done + 1 \in 0 .. MaxListeners
      BY <1>1, <1>2 DEF ReadRecord
    <3>2. QED
      BY <1>2, <3>1 DEF ReadRecord
  <2>3. r.done < subscribers /\ subscribers > 1
    BY <1>1, <1>2, <1>5, <2>2 DEF ReadRecord
  <2> HIDE DEF r
  <2>4. /\ dead' \in SUBSET (1 .. subscribers) /\ l \notin dead'
        /\ \A k \in 1 .. subscribers : k # l => (k \in dead' <=> k \in dead)
    BY <2>1, <1>1 DEF Reading, Listeners
  <2>5. r.ev # 0 /\ (r.ev = 0 => r = Unread)
    BY <2>2
  <2>6. Reading'
    BY <2>1, <2>2, <2>3, <2>4, <2>5, <1>1, ReadingStep
  <2>7. QED
    BY <2>1, <2>3, <2>6 DEF r
<1>6. QED
  BY <1>4, <1>5

\* What a full queue and one that is not become with another event.
LEMMA Queued ==
  ASSUME Working, QueueLimit \in Nat \ {0}, NEW e \in Events
  PROVE  /\ ~ Full => /\ Append(queue, e) \in Seq(Events) /\ Len(Append(queue, e)) <= QueueLimit
                      /\ Len(Append(queue, e)) = Len(queue) + 1
         /\ Full => /\ queue # <<>> /\ Append(Tail(queue), e) \in Seq(Events)
                    /\ Len(Append(Tail(queue), e)) <= QueueLimit
                    /\ Len(Append(Tail(queue), e)) = Len(queue)
<1>1. queue \in Seq(Events) /\ Len(queue) \in Nat /\ Len(queue) <= QueueLimit
  BY DEF Working
<1>2. ASSUME Full PROVE queue # <<>>
  BY <1>1, <1>2 DEF Full
<1>3. ASSUME Full PROVE Tail(queue) \in Seq(Events) /\ Len(Tail(queue)) = Len(queue) - 1
  BY <1>1, <1>2, <1>3, Shortened
<1>4. /\ Append(queue, e) \in Seq(Events) /\ Len(Append(queue, e)) = Len(queue) + 1
  BY <1>1, Appended
<1>5. ASSUME Full
      PROVE  /\ Append(Tail(queue), e) \in Seq(Events)
             /\ Len(Append(Tail(queue), e)) = Len(Tail(queue)) + 1
  BY <1>3, <1>5, Appended
<1>6. QED
  BY <1>1, <1>2, <1>3, <1>4, <1>5 DEF Full

\* Counting keeps the metrics numbers.
LEMMA Counted ==
  ASSUME metrics \in [{"processed", "produced", "failed", "dropped"} -> Nat],
         NEW m \in {"processed", "produced", "failed", "dropped"}, Count(m)
  PROVE  /\ metrics' \in [{"processed", "produced", "failed", "dropped"} -> Nat]
         /\ metrics'[m] = metrics[m] + 1
         /\ \A k \in {"processed", "produced", "failed", "dropped"} :
              k # m => metrics'[k] = metrics[k]
BY DEF Count

\* The listeners when only their number or nothing of them changes.
LEMMA ReadingKept ==
  ASSUME Reading, UNCHANGED <<config, listeners>>,
         stage' = "starting" => subscribers < MaxListeners
  PROVE  Reading'
BY DEF Reading, listeners, Listeners, MaxListeners, ReadRecord

LEMMA TypedInit == Init => Typed
<1> SUFFICES ASSUME Init PROVE Typed
  OBVIOUS
<1>1. /\ MaxListeners \in Nat /\ config \in Deployments /\ config.copies \in Nat \ {0}
  BY DeploymentNumbers DEF Init
<1>2. Unread \in ReadRecord /\ Unread.ev = 0 /\ Unread.asleep = FALSE
  BY <1>1 DEF Unread, ReadRecord
<1>3. Reading
  <2>1. /\ config \in Deployments /\ subscribers = 0 /\ active = 0 /\ dead = {} /\ stage = "off"
        /\ reading = [l \in 1 .. MaxListeners |-> Unread]
    BY DEF Init
  <2>2. reading \in [1 .. MaxListeners -> ReadRecord]
    BY <2>1, <1>2
  <2>3. \A l \in 1 .. MaxListeners : reading[l] = Unread
    BY <2>1
  <2>4. QED
    BY <2>1, <2>2, <2>3, <1>1, <1>2 DEF Reading
<1>4. Working
  <2>1. metrics \in [{"processed", "produced", "failed", "dropped"} -> Nat]
    BY DEF Init
  <2>2. sent \in [Events -> 0 .. config.copies] /\ tried \in [Events -> Nat] /\ handled \in [Events -> Nat]
    BY <1>1 DEF Init
  <2>3. QED
    BY <2>1, <2>2, ConstantsAssumption DEF Init, Working
<1>5. QED
  BY <1>3, <1>4 DEF Typed
LEMMA TypedSend ==
  ASSUME Typed, UNCHANGED config, NEW e \in Events, Send(e) PROVE Typed'
<1>1. Reading'
  BY ReadingKept DEF Typed, Send, Reading, worker
<1>2. /\ sent' \in [Events -> 0 .. config.copies] /\ wire' \in Seq(Events)
  <2>1. config.copies \in Nat \ {0}
    BY DeploymentNumbers DEF Typed, Reading
  <2>2. sent[e] + 1 \in 0 .. config.copies
    <3>1. sent[e] \in 0 .. config.copies
      BY DEF Typed, Working
    <3>2. sent[e] < config.copies
      BY DEF Send
    <3>3. QED
      BY <2>1, <3>1, <3>2
  <2>3. sent' = [sent EXCEPT ![e] = sent[e] + 1] /\ wire' \in {wire, Append(wire, e)}
    BY DEF Send
  <2>4. Append(wire, e) \in Seq(Events)
    BY Appended DEF Typed, Working
  <2>5. QED
    BY <2>2, <2>3, <2>4 DEF Typed, Working
<1>3. QED
  BY <1>1, <1>2 DEF Typed, Working, Send, worker

LEMMA TypedReceive ==
  ASSUME Typed, UNCHANGED config, NEW l \in Listeners, Receive(l) PROVE Typed'
<1>1. Head(wire) \in Events /\ wire' \in Seq(Events)
  BY Shortened DEF Typed, Working, Receive
<1>2. Reading'
  <2> DEFINE r == [Unread EXCEPT !.ev = Head(wire)]
  <2>1. /\ l \in 1 .. subscribers /\ l \in 1 .. MaxListeners /\ MaxListeners \in Nat
        /\ subscribers \in Nat /\ l \notin dead
    BY DeploymentNumbers DEF Typed, Reading, Listeners
  <2>2. /\ r \in ReadRecord /\ r.ev = Head(wire) /\ r.done = 0 /\ r.asleep = FALSE
    <3>1. Unread \in ReadRecord /\ Unread.done = 0 /\ Unread.asleep = FALSE
      BY <2>1 DEF Unread, ReadRecord
    <3>2. QED
      BY <1>1, <3>1 DEF ReadRecord
  <2>3. Head(wire) # 0
    BY <1>1, ConstantsAssumption DEF Events
  <2>4. reading' = [reading EXCEPT ![l] = r] /\ active = 0 /\ active' = l
    BY DEF Receive
  <2>5. /\ dead' \in SUBSET (1 .. subscribers) /\ l \notin dead'
        /\ \A k \in 1 .. subscribers : k # l => (k \in dead' <=> k \in dead)
    BY <2>1 DEF Receive, Typed, Reading
  <2>6. UNCHANGED <<config, subscribers, stage>>
    BY DEF Receive, worker
  <2> HIDE DEF r
  <2>7. r.ev # 0 /\ r.done < subscribers /\ (r.ev = 0 => r = Unread)
    BY <2>1, <2>2, <2>3
  <2>8. Reading
    BY DEF Typed
  <2>9. QED
    BY <2>2, <2>4, <2>5, <2>6, <2>7, <2>8, ReadingStep
<1>3. QED
  BY <1>1, <1>2 DEF Typed, Working, Receive, worker

LEMMA TypedHandle ==
  ASSUME Typed, UNCHANGED config, NEW l \in Listeners, HandleEvent(l) PROVE Typed'
<1>1. /\ l \in 1 .. MaxListeners /\ active = l /\ reading[l].ev \in Events /\ reading[l].ev # 0
      /\ UNCHANGED <<config, subscribers, stage>> /\ active \in {0, l}
  BY DeploymentNumbers DEF Typed, Reading, Listeners, HandleEvent, ReadRecord, worker
<1>2. ASSUME Return(l) PROVE Reading'
  BY <1>1, <1>2, ReturnEffect DEF Typed
<1>3. /\ metrics \in [{"processed", "produced", "failed", "dropped"} -> Nat]
      /\ queue \in Seq(Events) /\ Len(queue) <= QueueLimit /\ offered \in Nat
  BY DEF Typed, Working
<1>4. ASSUME NEW m \in {"processed", "produced", "failed", "dropped"}, Count(m)
      PROVE  metrics' \in [{"processed", "produced", "failed", "dropped"} -> Nat]
  BY <1>3, <1>4, Counted
<1>5. /\ Reading' /\ queue' \in Seq(Events) /\ Len(queue') <= QueueLimit /\ offered' \in Nat
      /\ metrics' \in [{"processed", "produced", "failed", "dropped"} -> Nat]
  <2>1. CASE Skip(l)
    BY <2>1, <1>2, <1>3 DEF Skip
  <2>2. CASE Refuse(l)
    BY <2>2, <1>2, <1>3, <1>4 DEF Refuse
  <2>3. CASE Enqueue(l)
    <3>1. CASE ~ Full /\ queue' = Append(queue, reading[l].ev) /\ Return(l) /\ UNCHANGED metrics
      BY <2>3, <3>1, <1>1, <1>2, <1>3, Queued, ConstantsAssumption DEF Typed, Enqueue
    <3>2. CASE /\ Full /\ queue' = Append(Tail(queue), reading[l].ev)
               /\ Count("dropped") /\ Return(l)
      BY <2>3, <3>2, <1>1, <1>2, <1>3, <1>4, Queued, ConstantsAssumption DEF Typed, Enqueue
    <3>3. CASE /\ config.high
               /\ reading' = [reading EXCEPT ![l].asleep = TRUE] /\ active' = 0
               /\ UNCHANGED <<queue, metrics, dead>>
      <4> DEFINE r == [reading[l] EXCEPT !.asleep = TRUE]
      <4>1. /\ r \in ReadRecord /\ r.ev = reading[l].ev /\ r.done = reading[l].done
            /\ r.asleep = TRUE /\ r.done < subscribers
        BY <1>1 DEF Typed, Reading, ReadRecord
      <4>2. reading' = [reading EXCEPT ![l] = r]
        BY <3>3, <1>1
      <4>3. /\ dead' \in SUBSET (1 .. subscribers) /\ l \notin dead' /\ l # 0
            /\ \A k \in 1 .. subscribers : k # l => (k \in dead' <=> k \in dead)
        BY <3>3 DEF Typed, Reading, Listeners
      <4> HIDE DEF r
      <4>4. /\ r.ev # 0 /\ (r.ev = 0 => r = Unread) /\ active' # l
            /\ active' \in {0, l} /\ (active' = l => r.ev # 0)
            /\ (r.asleep => config.high) /\ (active' = l <=> ~ r.asleep)
        BY <1>1, <3>3, <4>1, <4>3
      <4>5. Reading
        BY DEF Typed
      <4>6. Reading'
        BY <1>1, <4>1, <4>2, <4>3, <4>4, <4>5, ReadingStep
      <4>7. QED
        BY <2>3, <3>3, <4>6, <1>3 DEF Enqueue
    <3>4. QED
      BY <2>3, <3>1, <3>2, <3>3 DEF Enqueue
  <2>4. QED
    BY <2>1, <2>2, <2>3 DEF HandleEvent
<1>6. QED
  BY <1>5 DEF Typed, Working, HandleEvent, input, worker

LEMMA TypedAwake ==
  ASSUME Typed, UNCHANGED config, NEW l \in Listeners, Awake(l) PROVE Typed'
<1>1. /\ l \in 1 .. MaxListeners /\ active = 0 /\ Unread.asleep = FALSE
      /\ UNCHANGED <<config, subscribers, stage>> /\ active \in {0, l} /\ Return(l)
  BY DeploymentNumbers DEF Typed, Reading, Listeners, Awake, worker, Unread
<1>2. reading[l].ev \in Events /\ reading[l].ev # 0
  BY <1>1 DEF Typed, Reading, Awake, ReadRecord
<1>3. Reading'
  BY <1>1, <1>2, ReturnEffect DEF Typed
<1>4. queue' \in Seq(Events) /\ Len(queue') <= QueueLimit
  BY <1>2, Queued, ConstantsAssumption DEF Typed, Awake
<1>5. QED
  BY <1>3, <1>4 DEF Typed, Working, Awake, input, worker
LEMMA TypedTake ==
  ASSUME Typed, UNCHANGED config, Take PROVE Typed'
<1>1. Reading'
  BY ReadingKept DEF Typed, Take
<1>2. /\ Head(queue) \in Events /\ queue' \in Seq(Events) /\ Len(queue') <= QueueLimit
  BY Shortened, ConstantsAssumption DEF Typed, Working, Take
<1>3. /\ current' \in Events /\ stage' = "process"
      /\ tried' = [tried EXCEPT ![Head(queue)] = @ + 1]
      /\ UNCHANGED <<config, input, processedIds, handled, cancelled, metrics, offered>>
  BY <1>2 DEF Take
<1>4. tried' \in [Events -> Nat]
  <2>1. tried[Head(queue)] + 1 \in Nat
    BY <1>2 DEF Typed, Working
  <2>2. QED
    BY <1>3, <2>1 DEF Typed, Working
<1>5. Working'
  <2>1. Working
    BY DEF Typed
  <2>2. QED
    BY <1>2, <1>3, <1>4, <2>1 DEF Working, input
<1>6. QED
  BY <1>1, <1>5 DEF Typed

LEMMA TypedProcess ==
  ASSUME Typed, UNCHANGED config, Succeed \/ Fail \/ FailQuietly PROVE Typed'
<1>1. current \in Events /\ stage' \in {"poll", "publish"} /\ UNCHANGED listeners
  BY DEF Typed, Working, Succeed, Fail, FailQuietly
<1>2. Reading'
  BY <1>1, ReadingKept DEF Typed
<1>3. /\ metrics \in [{"processed", "produced", "failed", "dropped"} -> Nat]
      /\ processedIds \in SUBSET Events /\ handled \in [Events -> Nat]
  BY DEF Typed, Working
<1>4. /\ metrics' \in [{"processed", "produced", "failed", "dropped"} -> Nat]
      /\ processedIds' \in SUBSET Events /\ handled' \in [Events -> Nat]
  <2>1. CASE Succeed
    BY <2>1, <1>1, <1>3, Counted, MarkedIsKnown DEF Succeed
  <2>2. CASE Fail
    BY <2>2, <1>3, Counted DEF Fail
  <2>3. CASE FailQuietly
    <3>1. metrics' \in [{"processed", "produced", "failed", "dropped"} -> Nat]
      <4> DEFINE failed == [metrics EXCEPT !["failed"] = metrics["failed"] + 1]
      <4>1. metrics' = [failed EXCEPT !["processed"] = metrics["processed"] + 1]
        BY <1>3, <2>3 DEF FailQuietly
      <4>2. failed \in [{"processed", "produced", "failed", "dropped"} -> Nat]
        BY <1>3
      <4>3. metrics["processed"] + 1 \in Nat
        BY <1>3
      <4> HIDE DEF failed
      <4>4. QED
        BY <4>1, <4>2, <4>3
    <3>2. QED
      BY <2>3, <3>1, <1>1, <1>3, MarkedIsKnown DEF FailQuietly
  <2>4. QED
    BY <2>1, <2>2, <2>3
<1>5. QED
  BY <1>1, <1>2, <1>4 DEF Typed, Working, Succeed, Fail, FailQuietly, input

LEMMA TypedPublish ==
  ASSUME Typed, UNCHANGED config, PublishResult PROVE Typed'
<1>1. Reading'
  BY ReadingKept DEF Typed, PublishResult
<1>2. metrics' \in [{"processed", "produced", "failed", "dropped"} -> Nat]
  BY Counted DEF Typed, Working, PublishResult
<1>3. QED
  BY <1>1, <1>2 DEF Typed, Working, PublishResult, input

LEMMA TypedStart ==
  ASSUME Typed, UNCHANGED config, Start \/ Stop PROVE Typed'
<1>1. Reading'
  BY ReadingKept DEF Typed, Start, Stop
<1>2. QED
  BY <1>1 DEF Typed, Working, Start, Stop, input

LEMMA TypedSubscribe ==
  ASSUME Typed, UNCHANGED config, Subscribe PROVE Typed'
<1>1. /\ MaxListeners \in Nat /\ MaxListeners' = MaxListeners
      /\ config.types \in Nat \ {0} /\ config.starts \in Nat
      /\ subscribers \in Nat /\ subscribers < MaxListeners /\ subscribers' = subscribers + 1
      /\ active = 0 /\ active' = 0 /\ reading' = reading
  BY DeploymentNumbers DEF Typed, Reading, Subscribe, MaxListeners
<1>2. dead' = dead \/ dead' = dead \cup {subscribers + 1}
  BY <1>1 DEF Subscribe, Listen
<1>3. dead \in SUBSET (1 .. subscribers) /\ dead' \in SUBSET (1 .. subscribers')
  <2>1. \A d \in dead : d \in 1 .. subscribers
    BY DEF Typed, Reading
  <2>2. \A d \in dead' : d \in dead \/ d = subscribers + 1
    BY <1>2
  <2>3. \A d \in dead' : d \in 1 .. subscribers'
    BY <1>1, <2>1, <2>2
  <2>4. QED
    BY <2>1, <2>3
<1>4. \A l \in 1 .. MaxListeners : l \notin Listeners' => l \notin Listeners
  BY <1>1, <1>2, <1>3 DEF Listeners
<1>4a. ASSUME NEW l \in 1 .. MaxListeners, l \notin Listeners' PROVE reading[l] = Unread
  BY <1>4, <1>4a DEF Typed, Reading
<1>5. stage' = "starting" => subscribers' < MaxListeners
  BY <1>1, LastMultiple DEF Subscribe, MaxListeners
<1>6. Reading'
  <2>1. ASSUME NEW l \in 1 .. MaxListeners
        PROVE  /\ l \notin Listeners' => reading[l] = Unread
               /\ reading[l].ev = 0 => reading[l] = Unread
               /\ reading[l].ev # 0 =>
                    reading[l].done < subscribers' /\ (0 = l <=> ~ reading[l].asleep)
               /\ reading[l].asleep => config.high
               /\ 0 = l => reading[l].ev # 0
    BY <1>1, <1>4, <1>4a DEF Typed, Reading, ReadRecord
  <2>2. reading \in [1 .. MaxListeners -> ReadRecord] /\ ReadRecord' = ReadRecord
    BY <1>1 DEF Typed, Reading, ReadRecord
  <2>3. QED
    BY <2>1, <2>2, <1>1, <1>3, <1>5 DEF Typed, Reading
<1>7. QED
  BY <1>1, <1>6 DEF Typed, Working, Subscribe, input

LEMMA TypedStep == Typed /\ [Next]_vars => Typed'
<1> SUFFICES ASSUME Typed, [Next]_vars PROVE Typed'
  OBVIOUS
<1>1. CASE UNCHANGED vars
  BY <1>1 DEF Typed, Reading, Working, vars, input, listeners, worker, Listeners, MaxListeners,
              ReadRecord
<1>2. CASE Next
  <2>1. UNCHANGED config
    BY <1>2 DEF Next
  <2>2. CASE \E e \in Events : Send(e)
    BY <2>1, <2>2, TypedSend
  <2>3. CASE \E l \in Listeners : Consume(l)
    BY <2>1, <2>3, TypedReceive, TypedHandle, TypedAwake DEF Consume
  <2>4. CASE Work
    BY <2>1, <2>4, TypedSubscribe, TypedTake, TypedProcess, TypedPublish DEF Work
  <2>5. CASE Start \/ Stop
    BY <2>1, <2>5, TypedStart
  <2>6. QED
    BY <1>2, <2>2, <2>3, <2>4, <2>5 DEF Next
<1>3. QED
  BY <1>1, <1>2
-----------------------------------------------------------------------------
\* Below high priority nobody sleeps: what the handlers were offered is in the
\* queue, in process(), or counted.
Failures == IF config.swallows THEN 0 ELSE metrics.failed

Balance ==
  offered = Len(queue) + InProcess + metrics.processed + metrics.dropped + cancelled
            + Failures

BalanceKept == ~ config.high => Balance

\* One more on each side of the balance.
LEMMA OneMore ==
  ASSUME NEW a \in Nat, NEW b \in Nat, NEW c \in Nat, NEW d \in Nat, NEW e \in Nat,
         NEW f \in Nat, NEW g \in Nat, a = b + c + d + e + f + g
  PROVE  a + 1 = (b + 1) + c + d + e + f + g
OBVIOUS

LEMMA OneMoreLater ==
  ASSUME NEW a \in Nat, NEW b \in Nat, NEW e \in Nat, NEW f \in Nat, a = b + e + f
  PROVE  a + 1 = b + (e + 1) + f
OBVIOUS

LEMMA NobodySleeps == Reading /\ ~ config.high => Sleepers = 0
<1> SUFFICES ASSUME Reading, ~ config.high PROVE Sleepers = 0
  OBVIOUS
<1>1. \A l \in Listeners : l \in 1 .. MaxListeners
  BY DeploymentNumbers DEF Reading, Listeners
<1>2. {l \in Listeners : reading[l].asleep} = {}
  BY <1>1 DEF Reading
<1>3. QED
  BY <1>2, FS_EmptySet DEF Sleepers

LEMMA BalanceStep == Typed /\ BalanceKept /\ [Next]_vars => BalanceKept'
<1> SUFFICES ASSUME Typed, BalanceKept, [Next]_vars, ~ config'.high PROVE Balance'
  BY DEF BalanceKept
<1> USE DEF Balance
<1>1. CASE UNCHANGED vars
  BY <1>1 DEF BalanceKept, vars, worker, InProcess, Failures
<1>2. CASE Next
  <2>1. UNCHANGED config /\ ~ config.high
    BY <1>2 DEF Next
  <2>2. Balance
    BY <2>1 DEF BalanceKept
  <2>3. /\ metrics \in [{"processed", "produced", "failed", "dropped"} -> Nat]
        /\ queue \in Seq(Events) /\ Len(queue) \in Nat /\ Len(queue) <= QueueLimit
        /\ offered \in Nat /\ cancelled \in Nat
    BY DEF Typed, Working
  <2>4. /\ metrics.processed \in Nat /\ metrics.dropped \in Nat /\ metrics.failed \in Nat
        /\ InProcess \in Nat /\ Failures \in Nat
        /\ Len(queue) \in Nat /\ offered \in Nat /\ cancelled \in Nat
    BY <2>3 DEF InProcess, Failures
  <2>d. offered + 1 = Len(queue) + InProcess + metrics.processed + (metrics.dropped + 1)
                      + cancelled + Failures
    <3>1. Len(queue) + InProcess + metrics.processed \in Nat /\ cancelled + Failures \in Nat
      BY <2>4
    <3>2. offered = (Len(queue) + InProcess + metrics.processed) + metrics.dropped
                    + (cancelled + Failures)
      BY <2>2, <2>4
    <3>3. offered + 1 = (Len(queue) + InProcess + metrics.processed) + (metrics.dropped + 1)
                        + (cancelled + Failures)
      BY <2>4, <3>1, <3>2, OneMoreLater
    <3>4. QED
      BY <2>4, <3>3
  <2>5. ASSUME NEW e \in Events, Send(e) PROVE Balance'
    BY <2>1, <2>2, <2>5 DEF Send, worker, InProcess, Failures
  <2>6. ASSUME NEW l \in Listeners, Receive(l) PROVE Balance'
    BY <2>1, <2>2, <2>6 DEF Receive, worker, InProcess, Failures
  <2>7. ASSUME NEW l \in Listeners, HandleEvent(l) PROVE Balance'
    <3>1. UNCHANGED <<stage, cancelled>> /\ InProcess' = InProcess
      BY <2>7 DEF HandleEvent, worker, InProcess
    <3>2. CASE Skip(l)
      BY <3>1, <3>2, <2>1, <2>2 DEF Skip, Failures
    <3>3. CASE Refuse(l)
      <4>1. /\ metrics'.dropped = metrics.dropped + 1 /\ metrics'.processed = metrics.processed
            /\ Failures' = Failures
        BY <3>3, <2>1, <2>3, Counted DEF Refuse, Failures
      <4>2. offered' = offered + 1 /\ queue' = queue
        BY <3>3 DEF Refuse
      <4>3. QED
        BY <4>1, <4>2, <3>1, <2>1, <2>d
    <3>4. CASE Enqueue(l)
      <4>1. reading[l].ev \in Events
        BY <2>7, <3>4, DeploymentNumbers DEF Typed, Reading, Listeners, HandleEvent, ReadRecord
      <4>2. CASE ~ Full /\ queue' = Append(queue, reading[l].ev) /\ UNCHANGED metrics
        <5>1. Len(queue') = Len(queue) + 1
          BY <4>1, <4>2, Queued, ConstantsAssumption DEF Typed
        <5>2. offered' = offered + 1 /\ metrics' = metrics /\ Failures' = Failures
          BY <3>4, <4>2, <2>1 DEF Enqueue, Failures
        <5>3. QED
          <6>1. offered + 1 = (Len(queue) + 1) + InProcess + metrics.processed + metrics.dropped
                              + cancelled + Failures
            BY <2>1, <2>2, <2>4, OneMore
          <6>2. QED
            BY <5>1, <5>2, <3>1, <2>1, <6>1
      <4>3. CASE Full /\ queue' = Append(Tail(queue), reading[l].ev) /\ Count("dropped")
        <5>1. Len(queue') = Len(queue)
          BY <4>1, <4>3, Queued, ConstantsAssumption DEF Typed
        <5>2. /\ metrics'.dropped = metrics.dropped + 1 /\ metrics'.processed = metrics.processed
              /\ Failures' = Failures
          BY <4>3, <2>1, <2>3, Counted DEF Failures
        <5>3. offered' = offered + 1
          BY <3>4 DEF Enqueue
        <5>4. QED
          BY <5>1, <5>2, <5>3, <3>1, <2>1, <2>d
      <4>4. QED
        BY <2>1, <3>4, <4>2, <4>3 DEF Enqueue
    <3>5. QED
      BY <2>7, <3>2, <3>3, <3>4 DEF HandleEvent
  <2>8. ASSUME NEW l \in Listeners, Awake(l) PROVE Balance'
    <3>1. l \in 1 .. MaxListeners
      BY DeploymentNumbers DEF Typed, Reading, Listeners
    <3>2. QED
      BY <2>1, <2>8, <3>1 DEF Awake, Typed, Reading
  <2>9. CASE Take
    <3>1. Len(queue') = Len(queue) - 1
      BY <2>3, <2>9, Shortened DEF Take
    <3>2. QED
      BY <2>1, <2>2, <2>3, <2>4, <2>9, <3>1 DEF Take, InProcess, Failures
  <2>10. CASE Succeed
    <3>1. /\ metrics'.processed = metrics.processed + 1 /\ metrics'.dropped = metrics.dropped
          /\ metrics'.failed = metrics.failed
      BY <2>3, <2>10, Counted DEF Succeed
    <3>2. QED
      BY <2>1, <2>2, <2>3, <2>4, <2>10, <3>1 DEF Succeed, InProcess, Failures
  <2>11. CASE Fail
    <3>1. /\ metrics'.processed = metrics.processed /\ metrics'.dropped = metrics.dropped
          /\ metrics'.failed = metrics.failed + 1
      BY <2>3, <2>11, Counted DEF Fail
    <3>2. QED
      BY <2>1, <2>2, <2>3, <2>4, <2>11, <3>1 DEF Fail, InProcess, Failures
  <2>12. CASE FailQuietly
    <3>1. /\ metrics'.processed = metrics.processed + 1 /\ metrics'.dropped = metrics.dropped
      BY <2>3, <2>12 DEF FailQuietly
    <3>2. QED
      BY <2>1, <2>2, <2>3, <2>4, <2>12, <3>1 DEF FailQuietly, InProcess, Failures
  <2>13. CASE PublishResult
    <3>1. /\ metrics'.processed = metrics.processed /\ metrics'.dropped = metrics.dropped
          /\ metrics'.failed = metrics.failed
      BY <2>3, <2>13, Counted DEF PublishResult
    <3>2. QED
      BY <2>1, <2>2, <2>13, <3>1 DEF PublishResult, InProcess, Failures
  <2>14. CASE Start \/ Subscribe
    BY <2>1, <2>2, <2>14 DEF Start, Subscribe, InProcess, Failures
  <2>15. CASE Stop
    BY <2>1, <2>2, <2>3, <2>4, <2>15 DEF Stop, InProcess, Failures
  <2>16. QED
    BY <1>2, <2>5, <2>6, <2>7, <2>8, <2>9, <2>10, <2>11, <2>12, <2>13, <2>14, <2>15
       DEF Next, Consume, Work
<1>3. QED
  BY <1>1, <1>2

LEMMA RememberedStep ==
  Typed /\ RememberedWasHandled /\ [Next]_vars => RememberedWasHandled'
<1> SUFFICES ASSUME Typed, RememberedWasHandled, [Next]_vars, ~ config'.swallows,
                    NEW e \in processedIds'
             PROVE  handled'[e] > 0
  BY DEF RememberedWasHandled
<1>1. CASE UNCHANGED <<config, processedIds, handled>>
  BY <1>1 DEF RememberedWasHandled
<1>2. CASE Succeed /\ UNCHANGED config
  <2>1. current \in Events /\ handled \in [Events -> Nat] /\ processedIds \in SUBSET Events
    BY <1>2 DEF Typed, Working, Succeed
  <2>2. handled' = [handled EXCEPT ![current] = handled[current] + 1]
    BY <1>2 DEF Succeed
  <2>3. processedIds' \subseteq processedIds \cup {current}
    BY <1>2, MarkedIsKnown DEF Succeed
  <2>4. CASE e = current
    BY <2>1, <2>2, <2>4
  <2>5. CASE e # current
    <3>1. e \in processedIds /\ handled[e] > 0
      BY <1>2, <2>3, <2>5 DEF RememberedWasHandled
    <3>2. QED
      BY <2>1, <2>2, <2>5, <3>1
  <2>6. QED
    BY <2>4, <2>5
<1>3. QED
  <2>1. CASE UNCHANGED vars
    BY <1>1, <2>1 DEF vars, worker
  <2>2. CASE Next
    <3>1. UNCHANGED config
      BY <2>2 DEF Next
    <3>2. CASE FailQuietly
      BY <3>1, <3>2 DEF FailQuietly
    <3>3. CASE ~ Succeed /\ ~ FailQuietly
      <4>1. UNCHANGED <<processedIds, handled>>
        BY <2>2, <3>3 DEF Next, Consume, Work, Send, Receive, HandleEvent, Awake, worker,
                          Subscribe, Take, Fail, PublishResult, Start, Stop
      <4>2. QED
        BY <3>1, <4>1, <1>1
    <3>4. QED
      BY <1>2, <3>1, <3>2, <3>3
  <2>3. QED
    BY <2>1, <2>2
-----------------------------------------------------------------------------
\* The order of events on their way.  With one handler entry no two events on
\* the way are the same; with more, an event may be in the queue twice.
Before(a, b) == a < b \/ (a = b /\ subscribers > 1)

Rising(q) == \A i, j \in 1 .. Len(q) : i < j => Before(q[i], q[j])

\* e was sent before everything that is on the wire.
Past(e) == sent[e] > 0 /\ \A i \in 1 .. Len(wire) : e < wire[i]

WireOrder ==
  /\ \A e, f \in Events : f < e /\ sent[e] > 0 => sent[f] > 0
  /\ \A i \in 1 .. Len(wire) : sent[wire[i]] > 0
  /\ \A i, j \in 1 .. Len(wire) : i < j => wire[i] < wire[j]

HeldOrder ==
  \A l \in 1 .. MaxListeners : reading[l].ev # 0 =>
    Past(reading[l].ev) /\ \A i \in 1 .. Len(queue) : Before(queue[i], reading[l].ev)

QueueOrder == Rising(queue) /\ \A i \in 1 .. Len(queue) : Past(queue[i])

TriedOrder ==
  \A e \in Events :
    /\ tried[e] > 0 =>
         /\ Past(e)
         /\ \A i \in 1 .. Len(queue) : Before(e, queue[i])
         /\ \A l \in 1 .. MaxListeners : reading[l].ev # 0 => Before(e, reading[l].ev)
    /\ stage = "process" /\ e > current => tried[e] = 0
    /\ subscribers <= 1 => tried[e] <= 1

OneAtATime == config.copies = 1 /\ ~ HandlersOverlap

Ordered == OneAtATime => WireOrder /\ HeldOrder /\ QueueOrder /\ TriedOrder

CallsAreTried ==
  /\ \A e \in Events : handled[e] <= tried[e]
  /\ stage = "process" => handled[current] < tried[current]

\* While handlers do not overlap, one listener at most has an event.
LEMMA OneHolder ==
  ASSUME Reading, ~ HandlersOverlap, NEW k \in 1 .. MaxListeners, NEW l \in 1 .. MaxListeners,
         reading[k].ev # 0, reading[l].ev # 0
  PROVE  k = l
<1>1. k \in Listeners /\ l \in Listeners
  BY DEF Reading, Unread
<1>2. CASE config.high
  BY <1>1, <1>2 DEF HandlersOverlap, Listeners, Reading
<1>3. CASE ~ config.high
  BY <1>3 DEF Reading
<1>4. QED
  BY <1>2, <1>3

\* The wire takes the next event after all that was sent.
LEMMA OrderedSend ==
  ASSUME Typed, Ordered, UNCHANGED config, NEW e \in Events, Send(e) PROVE Ordered'
<1> SUFFICES ASSUME OneAtATime' PROVE (WireOrder /\ HeldOrder /\ QueueOrder /\ TriedOrder)'
  BY DEF Ordered
<1>1. /\ UNCHANGED <<subscribers, reading, queue, tried, stage, current, config>>
      /\ MaxListeners' = MaxListeners
  BY DEF Send, listeners, worker, MaxListeners
<1>2. WireOrder /\ HeldOrder /\ QueueOrder /\ TriedOrder /\ config.copies = 1
  BY <1>1 DEF Ordered, OneAtATime, HandlersOverlap
<1>3. /\ sent \in [Events -> 0 .. 1] /\ wire \in Seq(Events) /\ Events \subseteq Nat /\ N \in Nat
      /\ Events = 1 .. N
  BY <1>2, ConstantsAssumption DEF Typed, Working, Events
<1>4. /\ sent[e] = 0 /\ sent' = [sent EXCEPT ![e] = 1]
  <2>1. sent[e] \in 0 .. 1
    BY <1>3
  <2>2. sent[e] < 1 /\ sent' = [sent EXCEPT ![e] = sent[e] + 1]
    BY <1>2 DEF Send
  <2>3. sent[e] = 0
    BY <2>1, <2>2
  <2>4. QED
    BY <2>2, <2>3
<1>5. \A f \in Events : sent[f] > 0 => f < e /\ sent'[f] > 0
  BY <1>2, <1>3, <1>4 DEF WireOrder
<1>6. wire' = wire \/ wire' = Append(wire, e)
  BY DEF Send
<1>7. \A i \in 1 .. Len(wire) : wire[i] \in Events
  BY <1>3
<1>8. ASSUME NEW f \in Events, Past(f) PROVE Past(f)'
  <2>1. sent[f] > 0 /\ \A i \in 1 .. Len(wire) : f < wire[i]
    BY <1>8 DEF Past
  <2>2. \A i \in 1 .. Len(wire') : f < wire'[i]
    <3>1. CASE wire' = wire
      BY <2>1, <3>1
    <3>2. CASE wire' = Append(wire, e)
      BY <1>3, <1>5, <2>1, <3>2, Appended
    <3>3. QED
      BY <1>6, <3>1, <3>2
  <2>3. QED
    BY <1>5, <2>1, <2>2 DEF Past
<1>9. WireOrder'
  <2>1. \A f, g \in Events : g < f /\ sent'[f] > 0 => sent'[g] > 0
    <3> TAKE f \in Events
    <3> TAKE g \in Events
    <3>1. CASE f = e
      <4>1. g < e => sent[g] > 0
        BY <1>3 DEF Send
      <4>2. QED
        BY <3>1, <4>1, <1>5
    <3>2. CASE f # e
      BY <3>2, <1>2, <1>3, <1>4, <1>5 DEF WireOrder
    <3>3. QED
      BY <3>1, <3>2
  <2>2. CASE wire' = wire
    <3>1. \A i \in 1 .. Len(wire') : sent'[wire'[i]] > 0
      BY <2>2, <1>2, <1>5, <1>7 DEF WireOrder
    <3>2. QED
      BY <2>1, <2>2, <3>1, <1>2 DEF WireOrder
  <2>3. CASE wire' = Append(wire, e)
    <3>1. \A i \in 1 .. Len(wire') : sent'[wire'[i]] > 0
      BY <2>3, <1>2, <1>3, <1>4, <1>5, <1>7, Appended DEF WireOrder
    <3>2. \A i, j \in 1 .. Len(wire') : i < j => wire'[i] < wire'[j]
      <4>1. \A i \in 1 .. Len(wire) : wire[i] < e
        BY <1>2, <1>5, <1>7 DEF WireOrder
      <4>2. \A i, j \in 1 .. Len(wire) : i < j => wire[i] < wire[j]
        BY <1>2 DEF WireOrder
      <4>3. /\ Len(wire') = Len(wire) + 1 /\ Len(wire) \in Nat /\ wire'[Len(wire) + 1] = e
            /\ \A i \in 1 .. Len(wire) : wire'[i] = wire[i]
        BY <2>3, <1>3, Appended
      <4>4. QED
        BY <4>1, <4>2, <4>3
    <3>3. QED
      BY <2>1, <3>1, <3>2 DEF WireOrder
  <2>4. QED
    BY <1>6, <2>2, <2>3
<1>10. /\ \A l \in 1 .. MaxListeners : reading[l].ev # 0 => reading[l].ev \in Events
       /\ \A i \in 1 .. Len(queue) : queue[i] \in Events
  <2>1. \A l \in 1 .. MaxListeners : reading[l].ev \in Events \cup {0}
    BY DEF Typed, Reading, ReadRecord
  <2>2. queue \in Seq(Events)
    BY DEF Typed, Working
  <2>3. QED
    BY <2>1, <2>2
<1>11. HeldOrder'
  BY <1>1, <1>2, <1>8, <1>10 DEF HeldOrder, Before
<1>12. QueueOrder'
  BY <1>1, <1>2, <1>8, <1>10 DEF QueueOrder, Rising, Before
<1>13. TriedOrder'
  BY <1>1, <1>2, <1>8 DEF TriedOrder, Before
<1>14. QED
  BY <1>9, <1>11, <1>12, <1>13

\* After a handler call its listener has the same event, or none.
LEMMA ReturnKeeps ==
  ASSUME Reading, NEW l \in Listeners, reading[l].ev # 0, active \in {0, l}, Return(l),
         UNCHANGED <<config, subscribers, stage>>
  PROVE  /\ \A k \in 1 .. MaxListeners : k # l => reading'[k] = reading[k]
         /\ reading'[l].ev # 0 => reading'[l].ev = reading[l].ev /\ subscribers > 1
<1>1. l \in 1 .. MaxListeners /\ reading \in [1 .. MaxListeners -> ReadRecord]
  BY DeploymentNumbers DEF Reading, Listeners
<1>2. CASE reading' = [reading EXCEPT ![l] = Unread]
  BY <1>1, <1>2 DEF Unread
<1>3. CASE /\ subscribers > 1
           /\ reading' = [reading EXCEPT ![l] = [reading[l] EXCEPT !.done = reading[l].done + 1,
                                                                  !.asleep = FALSE]]
  <2>1. reading[l] \in ReadRecord
    BY <1>1
  <2>2. reading'[l].ev = reading[l].ev
    BY <1>1, <1>3, <2>1 DEF ReadRecord
  <2>3. QED
    BY <1>1, <1>3, <2>2
<1>4. QED
  BY <1>2, <1>3, ReturnEffect

\* A listener takes the oldest event off the wire; nobody else has one.
LEMMA OrderedReceive ==
  ASSUME Typed, Ordered, UNCHANGED config, NEW l \in Listeners, Receive(l) PROVE Ordered'
<1> SUFFICES ASSUME OneAtATime' PROVE (WireOrder /\ HeldOrder /\ QueueOrder /\ TriedOrder)'
  BY DEF Ordered
<1>1. /\ UNCHANGED <<subscribers, queue, tried, stage, current, config, sent>>
      /\ MaxListeners' = MaxListeners /\ MaxListeners \in Nat
      /\ l \in 1 .. MaxListeners /\ l \in 1 .. subscribers /\ subscribers \in Nat
  BY DeploymentNumbers DEF Receive, worker, MaxListeners, Typed, Reading, Listeners
<1>2. WireOrder /\ HeldOrder /\ QueueOrder /\ TriedOrder /\ ~ HandlersOverlap
  BY <1>1 DEF Ordered, OneAtATime, HandlersOverlap
<1>3. /\ wire \in Seq(Events) /\ wire # <<>> /\ Events \subseteq Nat
  BY ConstantsAssumption DEF Typed, Working, Events, Receive
<1>4. /\ Len(wire) \in Nat \ {0} /\ Len(wire') = Len(wire) - 1 /\ Head(wire) = wire[1]
      /\ \A i \in 1 .. Len(wire') : wire'[i] = wire[i + 1]
      /\ Head(wire) \in Events
  BY <1>3, Shortened DEF Receive
<1> PICK h \in Events : h = Head(wire)
  BY <1>4
<1>5. \A k \in 1 .. MaxListeners : k # l => reading'[k].ev = 0
  <2> SUFFICES ASSUME NEW k \in 1 .. MaxListeners, k # l, reading[k].ev # 0 PROVE FALSE
    BY <1>1 DEF Receive, Typed, Reading
  <2>1. k \in Listeners /\ active = 0 /\ k \in 1 .. subscribers
    BY DEF Typed, Reading, Unread, Receive, Listeners
  <2>2. CASE config.high
    BY <2>1, <2>2, <1>1, <1>2 DEF HandlersOverlap
  <2>3. CASE ~ config.high
    BY <2>1, <2>3, <1>1 DEF Typed, Reading
  <2>4. QED
    BY <2>2, <2>3
<1>6. reading'[l].ev = h
  BY <1>1 DEF Receive, Typed, Reading, Unread
<1>7. /\ \A i \in 1 .. Len(wire') : sent[wire'[i]] > 0 /\ h < wire'[i]
      /\ \A i, j \in 1 .. Len(wire') : i < j => wire'[i] < wire'[j]
  <2>1. /\ \A i \in 1 .. Len(wire) : sent[wire[i]] > 0
        /\ \A i, j \in 1 .. Len(wire) : i < j => wire[i] < wire[j]
    BY <1>2 DEF WireOrder
  <2>2. \A i \in 1 .. Len(wire') : i + 1 \in 1 .. Len(wire) /\ i + 1 > 1 /\ 1 \in 1 .. Len(wire)
    BY <1>4
  <2>3. QED
    BY <1>4, <2>1, <2>2
<1>8. ASSUME NEW f, Past(f) PROVE Past(f)' /\ f < h
  BY <1>1, <1>4, <1>8 DEF Past
<1>9. Past(h)'
  BY <1>1, <1>2, <1>4, <1>7 DEF Past, WireOrder
<1>10. WireOrder'
  BY <1>1, <1>2, <1>7 DEF WireOrder
<1>11. HeldOrder'
  BY <1>1, <1>2, <1>5, <1>6, <1>8, <1>9 DEF HeldOrder, QueueOrder, Before
<1>12. QueueOrder'
  BY <1>1, <1>2, <1>8 DEF QueueOrder, Rising, Before
<1>13. TriedOrder'
  BY <1>1, <1>2, <1>5, <1>6, <1>8 DEF TriedOrder, Before
<1>14. QED
  BY <1>10, <1>11, <1>12, <1>13

\* What a listener's step may do to the line: it keeps its event or lets go of
\* it, and puts it at the end of the queue, which may lose its oldest event.
LEMMA OrderedHanding ==
  ASSUME Typed, Ordered,
         UNCHANGED <<config, input, subscribers, worker>>,
         NEW l \in 1 .. MaxListeners, reading[l].ev # 0,
         \A k \in 1 .. MaxListeners : k # l => reading'[k] = reading[k],
         reading'[l].ev # 0 => reading'[l].ev = reading[l].ev,
         \/ queue' = queue
         \/ /\ reading'[l].ev # 0 => subscribers > 1
            /\ \/ queue' = Append(queue, reading[l].ev)
               \/ queue # <<>> /\ queue' = Append(Tail(queue), reading[l].ev)
  PROVE  Ordered'
<1> SUFFICES ASSUME OneAtATime' PROVE (WireOrder /\ HeldOrder /\ QueueOrder /\ TriedOrder)'
  BY DEF Ordered
<1> DEFINE ev == reading[l].ev
<1>1. /\ UNCHANGED <<subscribers, tried, stage, current, config, sent, wire>>
      /\ MaxListeners' = MaxListeners /\ MaxListeners \in Nat
      /\ subscribers \in Nat /\ queue \in Seq(Events) /\ ev \in Events /\ Events \subseteq Nat
      /\ Len(queue) \in Nat
  <2>1. MaxListeners \in Nat /\ subscribers \in Nat /\ Events \subseteq Nat
    BY DeploymentNumbers, ConstantsAssumption DEF Typed, Reading, Events
  <2>2. queue \in Seq(Events) /\ Len(queue) \in Nat
    BY DEF Typed, Working
  <2>3. reading[l].ev \in Events \cup {0}
    BY DEF Typed, Reading, ReadRecord
  <2>4. MaxListeners' = MaxListeners
    BY DEF MaxListeners
  <2>5. QED
    BY <2>1, <2>2, <2>3, <2>4 DEF input, worker
<1>2. WireOrder /\ HeldOrder /\ QueueOrder /\ TriedOrder /\ ~ HandlersOverlap
  BY <1>1 DEF Ordered, OneAtATime, HandlersOverlap
<1>3. \A k \in 1 .. MaxListeners : reading'[k].ev # 0 => k = l /\ reading'[k].ev = ev
  BY <1>2, OneHolder DEF Typed
<1>4. Past(ev) /\ \A i \in 1 .. Len(queue) : Before(queue[i], ev)
  BY <1>2 DEF HeldOrder
<1>5. ASSUME NEW f PROVE Past(f)' <=> Past(f)
  BY <1>1 DEF Past
<1>6. ASSUME NEW a, NEW b PROVE Before(a, b)' <=> Before(a, b)
  BY <1>1 DEF Before
<1>7. WireOrder'
  BY <1>1, <1>2 DEF WireOrder
<1> HIDE DEF ev
<1>8. CASE queue' = queue
  <2>1. HeldOrder'
    BY <1>1, <1>3, <1>4, <1>5, <1>6, <1>8 DEF HeldOrder
  <2>2. QueueOrder'
    BY <1>1, <1>2, <1>5, <1>6, <1>8 DEF QueueOrder, Rising
  <2>3. TriedOrder'
    BY <1>1, <1>2, <1>3, <1>5, <1>6, <1>8 DEF TriedOrder, ev
  <2>4. QED
    BY <1>7, <2>1, <2>2, <2>3
<1>9. CASE queue' # queue
  <2>1. /\ reading'[l].ev # 0 => subscribers > 1
        /\ \E q \in Seq(Events) :
             /\ queue' = Append(q, ev)
             /\ q = queue \/ (q = Tail(queue) /\ queue # <<>>)
    BY <1>1, <1>9, Shortened DEF ev
  <2>2. PICK q \in Seq(Events) :
             /\ queue' = Append(q, ev)
             /\ q = queue \/ (q = Tail(queue) /\ queue # <<>>)
    BY <2>1
  <2>3. \E d \in {0, 1} : /\ Len(q) = Len(queue) - d
                         /\ \A i \in 1 .. Len(q) : i + d \in 1 .. Len(queue) /\ q[i] = queue[i + d]
    <3>1. CASE q = queue
      BY <1>1, <3>1
    <3>2. CASE q = Tail(queue) /\ queue # <<>>
      BY <1>1, <3>2, Shortened
    <3>3. QED
      BY <2>2, <3>1, <3>2
  <2>4. PICK d \in {0, 1} : /\ Len(q) = Len(queue) - d
                         /\ \A i \in 1 .. Len(q) : i + d \in 1 .. Len(queue) /\ q[i] = queue[i + d]
    BY <2>3
  <2>5. /\ Len(queue') = Len(q) + 1 /\ Len(q) \in Nat /\ queue'[Len(q) + 1] = ev
        /\ \A i \in 1 .. Len(q) : queue'[i] = q[i]
    BY <1>1, <2>2, Appended
  <2>6. \A i \in 1 .. Len(q) : Past(q[i]) /\ Before(q[i], ev)
    BY <1>2, <1>4, <2>4 DEF QueueOrder
  <2>7. Rising(q)
    <3>1. ASSUME NEW i \in 1 .. Len(q), NEW j \in 1 .. Len(q), i < j
          PROVE  Before(q[i], q[j])
      <4>1. i + d < j + d
        BY <3>1
      <4>2. QED
        BY <4>1, <1>2, <2>4 DEF QueueOrder, Rising
    <3>2. QED
      BY <3>1 DEF Rising
  <2>8. \A i \in 1 .. Len(queue') : i = Len(q) + 1 \/ i \in 1 .. Len(q)
    BY <2>5
  <2>9. HeldOrder'
    <3>1. reading'[l].ev # 0 => Before(ev, ev)
      BY <2>1 DEF Before
    <3>2. QED
      BY <1>1, <1>3, <1>4, <1>5, <1>6, <2>5, <2>6, <2>8, <3>1 DEF HeldOrder
  <2>10. QueueOrder'
    <3>1. \A i \in 1 .. Len(queue') : Past(queue'[i])
      BY <1>4, <2>5, <2>6, <2>8
    <3>2. ASSUME NEW i \in 1 .. Len(queue'), NEW j \in 1 .. Len(queue'), i < j
          PROVE  Before(queue'[i], queue'[j])
      <4>1. i \in 1 .. Len(q)
        BY <2>5, <2>8, <3>2
      <4>2. CASE j = Len(q) + 1
        BY <4>1, <4>2, <2>5, <2>6
      <4>3. CASE j \in 1 .. Len(q)
        BY <4>1, <4>3, <2>5, <2>7, <3>2 DEF Rising
      <4>4. QED
        BY <4>2, <4>3, <2>8
    <3>3. QED
      BY <1>5, <1>6, <3>1, <3>2 DEF QueueOrder, Rising
  <2>11. TriedOrder'
    <3>1. ASSUME NEW e \in Events, tried[e] > 0
          PROVE  /\ \A i \in 1 .. Len(queue') : Before(e, queue'[i])
                 /\ Past(e) /\ Before(e, ev)
      <4>1. Past(e) /\ Before(e, ev) /\ \A i \in 1 .. Len(queue) : Before(e, queue[i])
        BY <1>2, <3>1 DEF TriedOrder, ev
      <4>2. QED
        BY <4>1, <2>4, <2>5, <2>8
    <3>2. QED
      BY <1>1, <1>2, <1>3, <1>5, <1>6, <3>1 DEF TriedOrder
  <2>12. QED
    BY <1>7, <2>9, <2>10, <2>11
<1>10. QED
  BY <1>8, <1>9

LEMMA OrderedHandle ==
  ASSUME Typed, Ordered, UNCHANGED config, NEW l \in Listeners, HandleEvent(l) PROVE Ordered'
<1>1. /\ l \in 1 .. MaxListeners /\ active = l /\ reading[l].ev # 0 /\ active \in {0, l}
      /\ UNCHANGED <<config, input, subscribers, worker>> /\ UNCHANGED <<config, subscribers, stage>>
  BY DeploymentNumbers DEF Typed, Reading, Listeners, HandleEvent, worker
<1>2. ASSUME Return(l)
      PROVE  /\ \A k \in 1 .. MaxListeners : k # l => reading'[k] = reading[k]
             /\ reading'[l].ev # 0 => reading'[l].ev = reading[l].ev /\ subscribers > 1
  BY <1>1, <1>2, ReturnKeeps DEF Typed
<1>3. CASE Skip(l) \/ Refuse(l)
  BY <1>1, <1>2, <1>3, OrderedHanding DEF Skip, Refuse
<1>4. CASE Enqueue(l)
  <2>1. CASE queue' = Append(queue, reading[l].ev) /\ Return(l)
    BY <1>1, <1>2, <2>1, OrderedHanding
  <2>2. CASE Full /\ queue' = Append(Tail(queue), reading[l].ev) /\ Return(l)
    <3>1. queue # <<>>
      BY <1>1, <2>2, ConstantsAssumption DEF Full
    <3>2. QED
      BY <1>1, <1>2, <2>2, <3>1, OrderedHanding
  <2>3. CASE reading' = [reading EXCEPT ![l].asleep = TRUE] /\ queue' = queue
    <3>1. /\ \A k \in 1 .. MaxListeners : k # l => reading'[k] = reading[k]
          /\ reading'[l].ev = reading[l].ev
      BY <1>1, <2>3 DEF Typed, Reading, ReadRecord
    <3>2. QED
      BY <1>1, <2>3, <3>1, OrderedHanding
  <2>4. QED
    BY <1>4, <2>1, <2>2, <2>3 DEF Enqueue
<1>5. QED
  BY <1>3, <1>4 DEF HandleEvent

LEMMA OrderedAwake ==
  ASSUME Typed, Ordered, UNCHANGED config, NEW l \in Listeners, Awake(l) PROVE Ordered'
<1>1. /\ l \in 1 .. MaxListeners /\ active = 0 /\ active \in {0, l} /\ Return(l)
      /\ UNCHANGED <<config, input, subscribers, worker>> /\ UNCHANGED <<config, subscribers, stage>>
  BY DeploymentNumbers DEF Typed, Reading, Listeners, Awake, worker
<1>2. reading[l].ev # 0
  BY <1>1 DEF Typed, Reading, Awake, Unread
<1>3. /\ \A k \in 1 .. MaxListeners : k # l => reading'[k] = reading[k]
      /\ reading'[l].ev # 0 => reading'[l].ev = reading[l].ev /\ subscribers > 1
  BY <1>1, <1>2, ReturnKeeps DEF Typed
<1>4. CASE Full
  <2>1. queue # <<>> /\ queue' = Append(Tail(queue), reading[l].ev)
    BY <1>4, ConstantsAssumption DEF Full, Awake
  <2>2. QED
    BY <1>1, <1>2, <1>3, <2>1, OrderedHanding
<1>5. CASE ~ Full
  <2>1. queue' = Append(queue, reading[l].ev)
    BY <1>5 DEF Awake
  <2>2. QED
    BY <1>1, <1>2, <1>3, <2>1, OrderedHanding
<1>6. QED
  BY <1>4, <1>5

\* The loop takes the oldest event of the queue.
LEMMA OrderedTake ==
  ASSUME Typed, Ordered, UNCHANGED config, Take PROVE Ordered'
<1> SUFFICES ASSUME OneAtATime' PROVE (WireOrder /\ HeldOrder /\ QueueOrder /\ TriedOrder)'
  BY DEF Ordered
<1>1. /\ UNCHANGED <<subscribers, reading, sent, wire, config>> /\ MaxListeners' = MaxListeners
      /\ queue \in Seq(Events) /\ queue # <<>> /\ Events \subseteq Nat /\ tried \in [Events -> Nat]
  <2>1. queue \in Seq(Events) /\ tried \in [Events -> Nat]
    BY DEF Typed, Working
  <2>2. Events \subseteq Nat
    BY ConstantsAssumption DEF Events
  <2>3. QED
    BY <2>1, <2>2 DEF Take, input, listeners, MaxListeners
<1>2. WireOrder /\ HeldOrder /\ QueueOrder /\ TriedOrder
  BY <1>1 DEF Ordered, OneAtATime, HandlersOverlap
<1>3. /\ Len(queue) \in Nat \ {0} /\ Len(queue') = Len(queue) - 1 /\ Head(queue) = queue[1]
      /\ \A i \in 1 .. Len(queue') : queue'[i] = queue[i + 1]
      /\ Head(queue) \in Events
  BY <1>1, Shortened DEF Take
<1> PICK h \in Events : h = Head(queue)
  BY <1>3
<1>4. /\ tried' = [tried EXCEPT ![h] = tried[h] + 1] /\ current' = h /\ stage' = "process"
  BY <1>1 DEF Take
<1>5. ASSUME NEW f PROVE Past(f)' <=> Past(f)
  BY <1>1 DEF Past
<1>6. ASSUME NEW a, NEW b PROVE Before(a, b)' <=> Before(a, b)
  BY <1>1 DEF Before
<1>7. \A i \in 1 .. Len(queue') : i + 1 \in 1 .. Len(queue) /\ 1 \in 1 .. Len(queue) /\ 1 < i + 1
  BY <1>3
<1>8. WireOrder'
  BY <1>1, <1>2 DEF WireOrder
<1>9. HeldOrder'
  BY <1>1, <1>2, <1>3, <1>5, <1>6, <1>7 DEF HeldOrder
<1>10. QueueOrder'
  <2>1. \A i \in 1 .. Len(queue') : Past(queue'[i])
    BY <1>2, <1>3, <1>7 DEF QueueOrder
  <2>2. ASSUME NEW i \in 1 .. Len(queue'), NEW j \in 1 .. Len(queue'), i < j
        PROVE  Before(queue'[i], queue'[j])
    <3>1. i + 1 < j + 1
      BY <2>2
    <3>2. QED
      BY <3>1, <1>2, <1>3, <1>7 DEF QueueOrder, Rising
  <2>3. QED
    BY <1>5, <1>6, <2>1, <2>2 DEF QueueOrder, Rising
<1>11. /\ Past(h) /\ \A i \in 1 .. Len(queue') : Before(h, queue'[i])
       /\ \A l \in 1 .. MaxListeners : reading[l].ev # 0 => Before(h, reading[l].ev)
  <2>1. 1 \in 1 .. Len(queue)
    BY <1>3
  <2>2. Past(h)
    BY <2>1, <1>2, <1>3 DEF QueueOrder
  <2>3. \A i \in 1 .. Len(queue') : Before(h, queue'[i])
    BY <1>2, <1>3, <1>7 DEF QueueOrder, Rising
  <2>4. \A l \in 1 .. MaxListeners : reading[l].ev # 0 => Before(h, reading[l].ev)
    BY <2>1, <1>2, <1>3 DEF HeldOrder
  <2>5. QED
    BY <2>2, <2>3, <2>4
<1>12. ASSUME NEW e \in Events, tried[e] > 0
       PROVE  /\ Past(e) /\ Before(e, h) /\ \A i \in 1 .. Len(queue') : Before(e, queue'[i])
              /\ \A l \in 1 .. MaxListeners : reading[l].ev # 0 => Before(e, reading[l].ev)
  <2>1. \A i \in 1 .. Len(queue) : Before(e, queue[i])
    BY <1>2, <1>12 DEF TriedOrder
  <2>2. QED
    BY <2>1, <1>2, <1>3, <1>7, <1>12 DEF TriedOrder
<1>13. TriedOrder'
  <2> SUFFICES ASSUME NEW e \in Events
               PROVE  /\ tried'[e] > 0 =>
                           /\ Past(e)
                           /\ \A i \in 1 .. Len(queue') : Before(e, queue'[i])
                           /\ \A l \in 1 .. MaxListeners : reading[l].ev # 0 => Before(e, reading[l].ev)
                      /\ e > h => tried'[e] = 0
                      /\ subscribers <= 1 => tried'[e] <= 1
    BY <1>1, <1>4, <1>5, <1>6 DEF TriedOrder
  <2>1. CASE e = h
    <3>1. subscribers <= 1 => tried[h] = 0
      <4>1. subscribers <= 1 => ~ Before(h, h)
        BY <1>1 DEF Before, Typed, Reading
      <4>2. QED
        BY <1>1, <1>12, <4>1
    <3>2. QED
      BY <2>1, <3>1, <1>1, <1>4, <1>11
  <2>2. CASE e # h
    <3>1. tried'[e] = tried[e] /\ tried[e] \in Nat
      BY <2>2, <1>1, <1>4
    <3>2. e > h => ~ Before(e, h)
      BY <1>1 DEF Before
    <3>3. subscribers <= 1 => tried[e] <= 1
      BY <1>2 DEF TriedOrder
    <3>4. QED
      BY <3>1, <3>2, <3>3, <1>12
  <2>3. QED
    BY <2>1, <2>2
<1>14. QED
  BY <1>8, <1>9, <1>10, <1>13

\* The steps that leave wire, listeners' events, queue and tried as they are.
LEMMA OrderedRest ==
  ASSUME Typed, Ordered,
         UNCHANGED <<config, sent, wire, reading, queue, tried>>,
         subscribers' = subscribers \/ subscribers' = subscribers + 1,
         stage' = "process" => UNCHANGED <<stage, current>>
  PROVE  Ordered'
<1> SUFFICES ASSUME OneAtATime' PROVE (WireOrder /\ HeldOrder /\ QueueOrder /\ TriedOrder)'
  BY DEF Ordered
<1>1. subscribers \in Nat /\ MaxListeners' = MaxListeners
  BY DeploymentNumbers DEF Typed, Reading, MaxListeners
<1>2. WireOrder /\ HeldOrder /\ QueueOrder /\ TriedOrder
  BY <1>1 DEF Ordered, OneAtATime, HandlersOverlap
<1>3. ASSUME NEW f PROVE Past(f)' <=> Past(f)
  BY DEF Past
<1>4. ASSUME NEW a, NEW b, Before(a, b) PROVE Before(a, b)'
  BY <1>1, <1>4 DEF Before
<1>5. WireOrder' /\ HeldOrder' /\ QueueOrder'
  BY <1>1, <1>2, <1>3, <1>4 DEF WireOrder, HeldOrder, QueueOrder, Rising
<1>6. subscribers' <= 1 => subscribers <= 1
  BY <1>1
<1>7. TriedOrder'
  BY <1>1, <1>2, <1>3, <1>4, <1>6 DEF TriedOrder
<1>8. QED
  BY <1>5, <1>7

LEMMA OrderedStep == Typed /\ Ordered /\ [Next]_vars => Ordered'
<1> SUFFICES ASSUME Typed, Ordered, [Next]_vars PROVE Ordered'
  OBVIOUS
<1>1. CASE UNCHANGED vars
  BY <1>1, OrderedRest DEF vars, input, listeners, worker
<1>2. CASE Next
  <2>1. UNCHANGED config
    BY <1>2 DEF Next
  <2>2. CASE \E e \in Events : Send(e)
    BY <2>1, <2>2, OrderedSend
  <2>3. CASE \E l \in Listeners : Consume(l)
    BY <2>1, <2>3, OrderedReceive, OrderedHandle, OrderedAwake DEF Consume
  <2>4. CASE Take
    BY <2>1, <2>4, OrderedTake
  <2>5. CASE Succeed \/ Fail \/ FailQuietly \/ PublishResult
    BY <2>1, <2>5, OrderedRest DEF Succeed, Fail, FailQuietly, PublishResult, input, listeners
  <2>6. CASE Start \/ Stop \/ Subscribe
    BY <2>1, <2>6, OrderedRest DEF Start, Stop, Subscribe, input, listeners
  <2>7. QED
    BY <1>2, <2>2, <2>3, <2>4, <2>5, <2>6 DEF Next, Work
<1>3. QED
  BY <1>1, <1>2

LEMMA CallsStep == Typed /\ CallsAreTried /\ [Next]_vars => CallsAreTried'
<1> SUFFICES ASSUME Typed, CallsAreTried, [Next]_vars PROVE CallsAreTried'
  OBVIOUS
<1>1. tried \in [Events -> Nat] /\ handled \in [Events -> Nat]
  BY DEF Typed, Working
<1>2. CASE UNCHANGED <<tried, handled>> /\ (stage' = "process" => UNCHANGED <<stage, current>>)
  BY <1>2 DEF CallsAreTried
<1>3. CASE Take
  <2>1. /\ Head(queue) \in Events /\ current' = Head(queue) /\ handled' = handled
        /\ tried' = [tried EXCEPT ![Head(queue)] = tried[Head(queue)] + 1]
    BY <1>1, <1>3, Shortened DEF Take, Typed, Working
  <2>2. \A e \in Events : handled[e] <= tried[e] /\ tried[e] \in Nat /\ handled[e] \in Nat
    BY <1>1 DEF CallsAreTried
  <2>3. \A e \in Events : tried'[e] = IF e = Head(queue) THEN tried[e] + 1 ELSE tried[e]
    BY <1>1, <2>1
  <2>4. QED
    BY <2>1, <2>2, <2>3 DEF CallsAreTried
<1>4. CASE Succeed
  <2>1. /\ current \in Events /\ stage' # "process" /\ tried' = tried
        /\ handled' = [handled EXCEPT ![current] = handled[current] + 1]
    BY <1>1, <1>4 DEF Succeed, Typed, Working
  <2>2. /\ \A e \in Events : handled[e] <= tried[e] /\ tried[e] \in Nat /\ handled[e] \in Nat
        /\ handled[current] < tried[current]
    BY <1>1, <1>4 DEF CallsAreTried, Succeed
  <2>3. \A e \in Events : handled'[e] = IF e = current THEN handled[e] + 1 ELSE handled[e]
    BY <1>1, <2>1
  <2>4. QED
    BY <2>1, <2>2, <2>3 DEF CallsAreTried
<1>5. CASE UNCHANGED vars
  BY <1>2, <1>5 DEF vars, worker
<1>6. CASE Next /\ ~ Take /\ ~ Succeed
  <2>1. UNCHANGED <<tried, handled>> /\ (stage' = "process" => UNCHANGED <<stage, current>>)
    BY <1>6 DEF Next, Consume, Work, Send, Receive, HandleEvent, Awake, worker,
                Subscribe, Fail, FailQuietly, PublishResult, Start, Stop
  <2>2. QED
    BY <1>2, <2>1
<1>7. QED
  BY <1>3, <1>4, <1>5, <1>6

-----------------------------------------------------------------------------
IInv == Typed /\ BalanceKept /\ RememberedWasHandled /\ Ordered /\ CallsAreTried

LEMMA InvariantInit == Init => IInv
<1> SUFFICES ASSUME Init PROVE IInv
  OBVIOUS
<1>1. Typed
  BY TypedInit
<1>2. BalanceKept
  BY DEF Init, BalanceKept, Balance, InProcess, Failures
<1>3. RememberedWasHandled
  BY DEF Init, RememberedWasHandled
<1>4. CallsAreTried
  BY DEF Init, CallsAreTried
<1>5. WireOrder
  BY ConstantsAssumption DEF Init, WireOrder
<1>6. HeldOrder
  BY DEF Init, HeldOrder, Unread, MaxListeners
<1>7. QueueOrder
  BY DEF Init, QueueOrder, Rising
<1>8. TriedOrder
  BY DEF Init, TriedOrder
<1>9. QED
  BY <1>1, <1>2, <1>3, <1>4, <1>5, <1>6, <1>7, <1>8 DEF IInv, Ordered

\* The invariant of the whole processor, with all its listeners.
THEOREM Invariance == Spec => []IInv
<1>1. IInv /\ [Next]_vars => IInv'
  BY TypedStep, BalanceStep, RememberedStep, OrderedStep, CallsStep DEF IInv
<1>2. QED
  BY <1>1, InvariantInit, PTL DEF Spec

\* Whatever the deployment, the queue keeps within its limit and the loop, the
\* listeners and the counters keep their types.
THEOREM TypeCorrect == Spec => []TypeOK
<1>1. IInv => TypeOK
  <2> SUFFICES ASSUME IInv PROVE TypeOK
    OBVIOUS
  <2>1. Reading /\ Working
    BY DEF IInv, Typed
  <2>2. current \in Events \cup {0}
    BY <2>1 DEF Working
  <2>3. QED
    BY <2>1, <2>2 DEF Reading, Working, ReadRecord, TypeOK
<1>2. QED
  BY <1>1, Invariance, PTL

\* Below high priority no event is lost unrecorded, however many listeners
\* overlap, fail to read or are stopped in between.
THEOREM NothingIsLostUnseen == Spec => []EveryEventAccounted
<1>1. IInv => EveryEventAccounted
  <2> SUFFICES ASSUME IInv, ~ config.high PROVE Accounted
    BY DEF EveryEventAccounted
  <2>1. Sleepers = 0 /\ Balance
    BY NobodySleeps DEF IInv, Typed, BalanceKept
  <2>2. /\ metrics \in [{"processed", "produced", "failed", "dropped"} -> Nat]
        /\ Len(queue) \in Nat /\ cancelled \in Nat
    BY DEF IInv, Typed, Working
  <2>3. /\ metrics.processed \in Nat /\ metrics.dropped \in Nat /\ metrics.failed \in Nat
        /\ InProcess \in Nat /\ Failures \in Nat
    BY <2>2 DEF InProcess, Failures
  <2>4. offered = 0 + Len(queue) + InProcess + metrics.processed + metrics.dropped
                  + cancelled + Failures
    BY <2>1, <2>2, <2>3 DEF Balance
  <2>5. QED
    BY <2>1, <2>4 DEF Accounted, Failures
<1>2. QED
  BY <1>1, Invariance, PTL

\* Only events that process() completed are remembered as processed, unless
\* process() hides its failures.
THEOREM RememberedAreHandled == Spec => []RememberedWasHandled
<1>1. IInv => RememberedWasHandled
  BY DEF IInv
<1>2. QED
  BY <1>1, Invariance, PTL

\* process() gets events for the first time in the order of their publication.
THEOREM FirstCallsInOrder == Spec => []InOrder
<1>1. IInv => InOrder
  <2> SUFFICES ASSUME IInv, ~ HandlersOverlap, config.copies = 1, stage = "process",
                      NEW e \in Events, e > current
               PROVE  tried[e] = 0
    BY DEF InOrder
  <2>1. TriedOrder
    BY DEF IInv, Ordered, OneAtATime
  <2>2. QED
    BY <2>1 DEF TriedOrder
<1>2. QED
  BY <1>1, Invariance, PTL

\* One message and one handler entry: no event is processed twice, with any
\* memory for processed ids.
THEOREM HandledOnce == Spec => []ProcessedOnce
<1>1. IInv => ProcessedOnce
  <2> SUFFICES ASSUME IInv, config.copies = 1, subscribers <= 1, NEW e \in Events
               PROVE  handled[e] <= 1
    BY DEF ProcessedOnce
  <2>1. ~ HandlersOverlap
    BY DEF HandlersOverlap, IInv, Typed, Reading
  <2>2. tried[e] <= 1 /\ handled[e] <= tried[e] /\ tried[e] \in Nat /\ handled[e] \in Nat
    BY <2>1 DEF IInv, Ordered, OneAtATime, TriedOrder, CallsAreTried, Typed, Working
  <2>3. QED
    BY <2>2
<1>2. QED
  BY <1>1, Invariance, PTL
-----------------------------------------------------------------------------
\* One more index.
LEMMA OneIndexMore ==
  ASSUME NEW n \in Nat, NEW S \in SUBSET (1 .. n), NEW T \in SUBSET (1 .. n + 1),
         \A i \in 1 .. n : i \in T <=> i \in S
  PROVE  /\ IsFiniteSet(S) /\ IsFiniteSet(T) /\ Cardinality(S) \in Nat
         /\ Cardinality(T) = Cardinality(S) + (IF n + 1 \in T THEN 1 ELSE 0)
<1>1. IsFiniteSet(S) /\ Cardinality(S) \in Nat
  BY UpToN, FS_Subset, FS_CardinalityType
<1>2. n + 1 \notin S /\ n + 1 \in Nat
  OBVIOUS
<1>i. /\ \A i \in T : i \in 1 .. n \/ i = n + 1
      /\ \A i \in S : i \in 1 .. n
  OBVIOUS
<1>3. CASE n + 1 \in T
  <2>1. T = S \cup {n + 1}
    BY <1>i, <1>3
  <2>2. QED
    BY <1>1, <1>2, <1>3, <2>1, FS_AddElement
<1>4. CASE n + 1 \notin T
  <2>1. T = S
    BY <1>i, <1>4
  <2>2. QED
    BY <1>1, <1>4, <2>1
<1>5. QED
  BY <1>3, <1>4

\* The first index goes.
LEMMA OneIndexLess ==
  ASSUME NEW n \in Nat, NEW S \in SUBSET (1 .. n + 1), NEW T \in SUBSET (1 .. n),
         \A i \in 1 .. n : i \in T <=> i + 1 \in S
  PROVE  /\ IsFiniteSet(S) /\ IsFiniteSet(T) /\ Cardinality(T) \in Nat
         /\ Cardinality(S) = Cardinality(T) + (IF 1 \in S THEN 1 ELSE 0)
<1>1. IsFiniteSet(S) /\ IsFiniteSet(T) /\ Cardinality(T) \in Nat /\ Cardinality(S) \in Nat
  <2>1. IsFiniteSet(1 .. n) /\ IsFiniteSet(1 .. n + 1)
    BY UpToN
  <2>2. IsFiniteSet(S) /\ IsFiniteSet(T)
    BY <2>1, FS_Subset
  <2>3. QED
    BY <2>2, FS_CardinalityType
<1> DEFINE R == S \ {1}
<1>2. IsFiniteSet(R) /\ Cardinality(R) = IF 1 \in S THEN Cardinality(S) - 1 ELSE Cardinality(S)
  BY <1>1, FS_RemoveElement
<1>3. R \in SUBSET Int /\ T \in SUBSET Int /\ \A i \in Int : i \in T <=> i + 1 \in R
  OBVIOUS
<1> HIDE DEF R
<1>4. Cardinality(T) = Cardinality(R)
  BY <1>2, <1>3, Shifted
<1>5. QED
  BY <1>1, <1>2, <1>4

\* The larger and the smaller of two numbers.
LEMMA TwoNumbers ==
  ASSUME NEW a \in Int, NEW b \in Int
  PROVE  Max({a, b}) = (IF a >= b THEN a ELSE b) /\ Min({a, b}) = (IF a <= b THEN a ELSE b)
<1>1. {a, b} \in SUBSET Int /\ IsFiniteSet({a, b}) /\ {a, b} # {}
  <2>1. IsFiniteSet({a} \cup {b})
    BY FS_Singleton, FS_AddElement
  <2>2. {a} \cup {b} = {a, b}
    OBVIOUS
  <2>3. QED
    BY <2>1, <2>2
<1>2. /\ Max({a, b}) \in {a, b} /\ \A n \in {a, b} : n <= Max({a, b})
      /\ Min({a, b}) \in {a, b} /\ \A n \in {a, b} : Min({a, b}) <= n
  BY <1>1, Extremes
<1>3. QED
  BY <1>2


\* What the larger and the smaller of two numbers bound.
LEMMA AtMostBoth ==
  ASSUME NEW a \in Int, NEW b \in Int
  PROVE  /\ Max({a, b}) \in Int /\ a <= Max({a, b}) /\ b <= Max({a, b})
         /\ Min({a, b}) \in Int /\ Min({a, b}) <= a /\ Min({a, b}) <= b
<1>1. Max({a, b}) = (IF a >= b THEN a ELSE b) /\ Min({a, b}) = (IF a <= b THEN a ELSE b)
  BY TwoNumbers
<1>2. QED
  BY <1>1
-----------------------------------------------------------------------------
(***************************************************************************)
(* The phases.  A system that was found severe and did not stop had        *)
(* changed its phase at that very time, and was not evaluated since.       *)
(***************************************************************************)

Times == 0 .. clock \cup {Never}

PhaseInv ==
  /\ phaseNow \in {"NORMAL", "CAUTION", "DERISK", "HARD_STOP"}
  /\ clock \in 0 .. ClockLimit /\ lastEvaluated \in 0 .. clock
  /\ lastTransition \in Times /\ recoveryStart \in Times /\ severeAt \in Times /\ severeSince \in Times
  /\ severeSince # Never => severeSince <= lastEvaluated
  /\ severeSince # Never /\ phaseNow # "HARD_STOP" =>
       lastTransition = severeSince /\ lastEvaluated = severeSince

\* The ranks of the four phases.
LEMMA Rankings ==
  /\ Ranking("NORMAL") = 1 /\ Ranking("CAUTION") = 2 /\ Ranking("DERISK") = 3 /\ Ranking("HARD_STOP") = 4
<1>1. /\ Phases[1] = "NORMAL" /\ Phases[2] = "CAUTION" /\ Phases[3] = "DERISK" /\ Phases[4] = "HARD_STOP"
      /\ \A k \in 1 .. 4 : k = 1 \/ k = 2 \/ k = 3 \/ k = 4
  BY DEF Phases
<1>2. \A p : Ranking(p) = CHOOSE k \in 1 .. 4 : Phases[k] = p
  BY DEF Ranking
<1>3. /\ \A k \in 1 .. 4 : Phases[k] = "NORMAL" <=> k = 1
      /\ \A k \in 1 .. 4 : Phases[k] = "CAUTION" <=> k = 2
      /\ \A k \in 1 .. 4 : Phases[k] = "DERISK" <=> k = 3
      /\ \A k \in 1 .. 4 : Phases[k] = "HARD_STOP" <=> k = 4
  BY <1>1
<1>4. QED
  BY <1>3 DEF Ranking

\* The phases begin at NORMAL.
LEMMA PhaseBegins == GovernorInit => PhaseInv
BY GovernorConstants DEF GovernorInit, PhaseInv, Times, Never

\* Every evaluation of the phases keeps their invariant.
LEMMA PhaseSteps ==
  ASSUME PhaseInv, PhaseNext PROVE PhaseInv'
<1>0. ClockLimit \in Nat /\ clock \in Nat /\ clock <= ClockLimit /\ lastEvaluated \in Nat /\ lastEvaluated <= clock
  BY GovernorConstants DEF PhaseInv
<1>1. CASE PhaseTick
  <2>1. /\ clock' = clock + 1 /\ clock < ClockLimit
        /\ UNCHANGED <<phaseNow, lastTransition, recoveryStart, severeAt, severeSince, lastEvaluated>>
    BY <1>1 DEF PhaseTick
  <2>2. \A t \in Times : t \in Times'
    BY <1>0, <2>1 DEF Times, Never
  <2>3. /\ lastTransition' \in Times' /\ recoveryStart' \in Times' /\ severeAt' \in Times' /\ severeSince' \in Times'
    BY <2>1, <2>2 DEF PhaseInv
  <2>4. clock' \in 0 .. ClockLimit /\ lastEvaluated' \in 0 .. clock'
    BY <1>0, <2>1
  <2>5. QED
    BY <2>1, <2>3, <2>4 DEF PhaseInv, Never
<1>2. CASE \E finding \in {"severe", "weak", "negative", "good"} : Evaluate(finding)
  <2>1. PICK finding \in {"severe", "weak", "negative", "good"} : Evaluate(finding)
    BY <1>2
  <2> DEFINE p == DeterminePhase(finding)
  <2>2. p \in {"NORMAL", "CAUTION", "DERISK", "HARD_STOP"} /\ (finding = "severe" => p = "HARD_STOP")
    BY DEF DeterminePhase
  <2> HIDE DEF p
  <2>3. /\ clock' = clock /\ lastEvaluated' = clock
        /\ severeSince' = IF finding # "severe" THEN Never ELSE IF severeSince = Never THEN clock ELSE severeSince
    BY <2>1 DEF Evaluate
  <2>t. severeSince' # Never => severeSince' <= lastEvaluated'
    <3>1. severeSince # Never => severeSince \in 0 .. clock
      BY DEF PhaseInv, Times
    <3>2. QED
      BY <1>0, <2>3, <3>1
  <2>4. CASE p # phaseNow /\ CanTransition(p)
    <3>1. /\ phaseNow' = p /\ lastTransition' = clock
          /\ severeAt' = IF Ranking(p) >= 3 THEN clock ELSE severeAt
          /\ recoveryStart' = IF Ranking(p) > Ranking(phaseNow) THEN Never ELSE clock
      BY <2>1, <2>4 DEF Evaluate, p
    <3>2. clock \in Times /\ Never \in Times /\ Times' = Times
      BY <1>0, <2>3 DEF Times, Never
    <3>3. severeSince' # Never => severeSince' <= lastEvaluated' /\ phaseNow' = "HARD_STOP"
      BY <2>2, <2>3, <2>t, <3>1
    <3>4. severeSince' \in Times /\ severeAt' \in Times /\ recoveryStart' \in Times
      BY <2>3, <3>1, <3>2 DEF PhaseInv
    <3>5. QED
      BY <1>0, <2>2, <2>3, <3>1, <3>2, <3>3, <3>4 DEF PhaseInv
  <2>5. CASE ~ (p # phaseNow /\ CanTransition(p))
    <3>1. UNCHANGED <<phaseNow, lastTransition, severeAt, recoveryStart>>
      BY <2>1, <2>5 DEF Evaluate, p
    <3>2. clock \in Times /\ Never \in Times /\ Times' = Times /\ clock # Never
      BY <1>0, <2>3 DEF Times, Never
    <3>3. severeSince' \in Times
      BY <2>3, <3>2 DEF PhaseInv
    <3>4. severeSince' # Never => severeSince' <= lastEvaluated'
      BY <2>t
    <3>5. ASSUME severeSince' # Never, phaseNow' # "HARD_STOP"
          PROVE  lastTransition' = severeSince' /\ lastEvaluated' = severeSince'
      <4>1. finding = "severe" /\ p = "HARD_STOP" /\ phaseNow # "HARD_STOP"
        BY <2>2, <2>3, <3>1, <3>5
      <4>2. ~ CanTransition("HARD_STOP")
        BY <2>5, <4>1
      <4>3. Ranking(phaseNow) \in 1 .. 3
        BY <4>1, Rankings DEF PhaseInv
      <4>4. lastTransition # Never /\ ~ (clock > lastTransition)
        BY <4>2, <4>3, Rankings DEF CanTransition
      <4>5. lastTransition = clock
        BY <1>0, <4>4 DEF PhaseInv, Times
      <4>6. severeSince' = clock
        <5>1. CASE severeSince = Never
          BY <2>3, <4>1, <5>1
        <5>2. CASE severeSince # Never
          BY <2>3, <4>1, <4>5, <5>2 DEF PhaseInv
        <5>3. QED
          BY <5>1, <5>2
      <4>7. QED
        BY <2>3, <3>1, <4>5, <4>6
    <3>6. QED
      BY <1>0, <2>3, <3>1, <3>2, <3>3, <3>4, <3>5 DEF PhaseInv
  <2>6. QED
    BY <2>4, <2>5
<1>3. QED
  BY <1>1, <1>2 DEF PhaseNext

\* What the invariant says of the phases.
LEMMA PhaseSays ==
  ASSUME PhaseInv
  PROVE  /\ Ranking(phaseNow) \in 1 .. 4
         /\ {lastTransition, recoveryStart, severeAt, severeSince} \subseteq 0 .. clock \cup {Never}
         /\ SevereStopsInTime
<1>1. Ranking(phaseNow) \in 1 .. 4
  BY Rankings DEF PhaseInv
<1>2. SevereStopsInTime
  BY DEF PhaseInv, SevereStopsInTime
<1>3. QED
  BY <1>1, <1>2 DEF PhaseInv, Times

-----------------------------------------------------------------------------
(***************************************************************************)
(* The rates.  Trades in a window and trades that may still come into it   *)
(* are together no more than the limit and what the other callers had in   *)
(* hand at the check.                                                      *)
(***************************************************************************)

AtLeastThree == floor.callers = 1 /\ Cardinality(floor.symbols) <= 3

RateInv ==
  /\ floor \in Floors /\ rateClock \in 0 .. ClockLimit
  /\ tradeLog \in Seq([symbol : floor.symbols, at : Nat])
  /\ \A k \in DOMAIN tradeLog : tradeLog[k].at <= rateClock
  /\ today \in [floor.symbols -> Nat] /\ \A s \in floor.symbols : today[s] <= Len(tradeLog)
  /\ allowed \in SUBSET [caller : 1 .. floor.callers, symbol : floor.symbols] /\ IsFiniteSet(allowed)
  /\ \A a, b \in allowed : a.caller = b.caller => a = b
  /\ Len(tradeLog) + Cardinality(allowed) <= floor.trades
  /\ \A l \in RateLimits : InWindow(l.window, rateClock) + Cardinality(allowed) <= l.most + floor.callers - 1
  /\ RatesHeld
  /\ AtLeastThree => (\A s \in floor.symbols : today[s] <= 1) /\ \A a \in allowed : today[a.symbol] = 0

\* There are fewer of those who are not the caller.
LEMMA OtherCallers ==
  ASSUME NEW n \in Nat, NEW c \in 1 .. n, NEW A, \A a \in A : a.caller \in 1 .. n /\ a.caller # c,
         \A a, b \in A : a.caller = b.caller => a = b
  PROVE  Cardinality(A) <= n - 1
<1> DEFINE others == (1 .. n) \ {c}
           f == [a \in A |-> a.caller]
<1>1. IsFiniteSet(others) /\ Cardinality(others) = n - 1
  <2>1. IsFiniteSet(1 .. n) /\ Cardinality(1 .. n) = n
    BY UpToN
  <2>2. QED
    BY <2>1, FS_RemoveElement
<1>2. f \in Injection(A, others)
  BY DEF Injection, IsInjective
<1> HIDE DEF others, f
<1>3. QED
  BY <1>1, <1>2, FS_Injection

\* What a trade adds to those after a time, and up to another.
Within(log, from, upTo) == {k \in DOMAIN log : log[k].at >= from /\ log[k].at <= upTo}

\* One more trade is in the window where its time is.
LEMMA WindowGrows ==
  ASSUME NEW R, NEW q \in Seq([symbol : R, at : Nat]), NEW e \in [symbol : R, at : Nat],
         NEW from \in Int, NEW upTo \in Int
  PROVE  /\ Cardinality(Within(q, from, upTo)) \in Nat /\ IsFiniteSet(Within(q, from, upTo))
         /\ Cardinality(Within(Append(q, e), from, upTo)) =
              Cardinality(Within(q, from, upTo)) + (IF e.at >= from /\ e.at <= upTo THEN 1 ELSE 0)
<1> DEFINE S == Within(q, from, upTo)
           T == Within(Append(q, e), from, upTo)
           n == Len(q)
<1>1. /\ n \in Nat /\ DOMAIN q = 1 .. n /\ DOMAIN Append(q, e) = 1 .. n + 1 /\ Append(q, e)[n + 1] = e
      /\ \A i \in 1 .. n : Append(q, e)[i] = q[i]
  OBVIOUS
<1>2. /\ S \in SUBSET (1 .. n) /\ T \in SUBSET (1 .. n + 1) /\ (\A i \in 1 .. n : i \in T <=> i \in S)
      /\ n + 1 \in T <=> e.at >= from /\ e.at <= upTo
  BY <1>1 DEF Within
<1> HIDE DEF S, T, n
<1>3. IsFiniteSet(S) /\ Cardinality(S) \in Nat /\ Cardinality(T) = Cardinality(S) + (IF n + 1 \in T THEN 1 ELSE 0)
  BY <1>1, <1>2, OneIndexMore
<1>4. Cardinality(T) = Cardinality(S) + (IF e.at >= from /\ e.at <= upTo THEN 1 ELSE 0)
  BY <1>2, <1>3
<1>5. QED
  BY <1>3, <1>4 DEF S, T

FloorFits ==
  /\ IsFiniteSet(floor.symbols) /\ floor.callers \in Nat \ {0} /\ floor.trades \in Nat
  /\ \A l \in RateLimits : l.window \in Nat /\ l.most \in Nat

\* The trades that are in a window at a time; those that are in it from the time on.
Held(w, now) == {k \in DOMAIN tradeLog : tradeLog[k].at + w >= now /\ tradeLog[k].at <= now}
Open(w, now) == {k \in DOMAIN tradeLog : tradeLog[k].at + w >= now}

\* What the invariant says of the log and its times.
LEMMA RateFacts ==
  ASSUME RateInv
  PROVE  /\ FloorFits /\ rateClock \in Nat /\ ClockLimit \in Nat /\ Len(tradeLog) \in Nat
         /\ DOMAIN tradeLog = 1 .. Len(tradeLog) /\ Cardinality(allowed) \in Nat
         /\ \A k \in 1 .. Len(tradeLog) : tradeLog[k].at \in Nat /\ tradeLog[k].at <= rateClock
<1>1. FloorFits /\ rateClock \in Nat /\ ClockLimit \in Nat
  BY GovernorConstants DEF RateInv, FloorFits
<1>2. Len(tradeLog) \in Nat /\ DOMAIN tradeLog = 1 .. Len(tradeLog)
  BY DEF RateInv
<1>t. \A k \in 1 .. Len(tradeLog) : tradeLog[k] \in [symbol : floor.symbols, at : Nat]
  BY <1>2, ElementOfSeq DEF RateInv
<1>3. \A k \in 1 .. Len(tradeLog) : tradeLog[k].at \in Nat /\ tradeLog[k].at <= rateClock
  BY <1>2, <1>t DEF RateInv
<1>4. Cardinality(allowed) \in Nat
  BY FS_CardinalityType DEF RateInv
<1>5. QED
  BY <1>1, <1>2, <1>3, <1>4

\* What is in a window is finite.
LEMMA WindowsType ==
  ASSUME RateInv, NEW w \in Nat, NEW now \in Nat
  PROVE  /\ IsFiniteSet(Open(w, now)) /\ Cardinality(Open(w, now)) \in Nat
         /\ IsFiniteSet(Held(w, now)) /\ Cardinality(Held(w, now)) \in Nat
<1>1. Len(tradeLog) \in Nat /\ DOMAIN tradeLog = 1 .. Len(tradeLog)
  BY RateFacts
<1>2. Open(w, now) \in SUBSET (1 .. Len(tradeLog)) /\ Held(w, now) \in SUBSET (1 .. Len(tradeLog))
  BY <1>1 DEF Open, Held
<1>3. IsFiniteSet(1 .. Len(tradeLog))
  BY <1>1, UpToN
<1>4. QED
  BY <1>2, <1>3, FS_Subset, FS_CardinalityType

\* The rates begin without trades.
LEMMA RateBegins == GovernorInit => RateInv
<1> SUFFICES ASSUME GovernorInit PROVE RateInv
  OBVIOUS
<1>1. floor \in Floors /\ tradeLog = <<>> /\ today = [s \in floor.symbols |-> 0] /\ allowed = {} /\ rateClock = 0
  BY DEF GovernorInit
<1>2. FloorFits /\ ClockLimit \in Nat
  BY <1>1, GovernorConstants DEF FloorFits
<1>3. Cardinality(allowed) = 0 /\ IsFiniteSet(allowed)
  BY <1>1, FS_EmptySet
<1>4. \A w, now : Open(w, now) = {} /\ Held(w, now) = {}
  BY <1>1 DEF Open, Held
<1>5. \A w, now : Cardinality(Open(w, now)) = 0 /\ Cardinality(Held(w, now)) = 0
  BY <1>4, FS_EmptySet
<1>6. \A l \in RateLimits : InWindow(l.window, rateClock) + Cardinality(allowed) <= l.most + floor.callers - 1
  <2>1. TAKE l \in RateLimits
  <2>2. InWindow(l.window, rateClock) = 0 /\ l.most \in Nat /\ floor.callers \in Nat \ {0}
    BY <1>2, <1>5 DEF InWindow, Open, FloorFits
  <2>3. QED
    BY <1>3, <2>2
<1>7. RatesHeld
  <2>1. SUFFICES ASSUME NEW l \in RateLimits, NEW now \in 0 .. rateClock
                 PROVE  Cardinality(Held(l.window, now)) <= l.most + floor.callers - 1
    BY DEF RatesHeld, Held
  <2>2. Cardinality(Held(l.window, now)) = 0 /\ l.most \in Nat /\ floor.callers \in Nat \ {0}
    BY <1>2, <1>5 DEF FloorFits
  <2>3. QED
    BY <2>2
<1>8. /\ tradeLog \in Seq([symbol : floor.symbols, at : Nat]) /\ Len(tradeLog) = 0 /\ DOMAIN tradeLog = {}
  BY <1>1
<1>9. today \in [floor.symbols -> Nat] /\ \A s \in floor.symbols : today[s] = 0
  BY <1>1
<1>10. allowed \in SUBSET [caller : 1 .. floor.callers, symbol : floor.symbols]
  BY <1>1
<1>11. Len(tradeLog) + Cardinality(allowed) <= floor.trades
  BY <1>2, <1>3, <1>8 DEF FloorFits
<1>12. rateClock \in 0 .. ClockLimit
  BY <1>1, <1>2
<1>13. QED
  BY <1>1, <1>3, <1>6, <1>7, <1>8, <1>9, <1>10, <1>11, <1>12 DEF RateInv, AtLeastThree

\* The first of the parts a step changes: a check.
LEMMA CheckKeepsRates ==
  ASSUME RateInv, NEW c \in 1 .. floor.callers, NEW s \in floor.symbols, CheckTrade(c, s)
  PROVE  RateInv'
<1> DEFINE new == [caller |-> c, symbol |-> s]
<1>1. /\ (\A a \in allowed : a.caller # c) /\ Len(tradeLog) + Cardinality(allowed) < floor.trades
      /\ ~ Blocked(s) /\ allowed' = allowed \cup {new} /\ UNCHANGED <<floor, tradeLog, today, rateClock>>
  BY DEF CheckTrade
<1>2. /\ FloorFits /\ rateClock \in Nat /\ Len(tradeLog) \in Nat /\ Cardinality(allowed) \in Nat
  BY RateFacts
<1>3. /\ allowed \in SUBSET [caller : 1 .. floor.callers, symbol : floor.symbols] /\ IsFiniteSet(allowed)
      /\ \A a, b \in allowed : a.caller = b.caller => a = b
  BY DEF RateInv
<1>4. Cardinality(allowed) <= floor.callers - 1
  <2>1. \A a \in allowed : a.caller \in 1 .. floor.callers /\ a.caller # c
    BY <1>1, <1>3
  <2>2. floor.callers \in Nat
    BY <1>2 DEF FloorFits
  <2>3. QED
    BY <1>3, <2>1, <2>2, OtherCallers
<1>5. new \notin allowed /\ new \in [caller : 1 .. floor.callers, symbol : floor.symbols] /\ new.caller = c /\ new.symbol = s
  BY <1>1
<1>6. /\ IsFiniteSet(allowed') /\ Cardinality(allowed') = Cardinality(allowed) + 1
  <2> HIDE DEF new
  <2>1. QED
    BY <1>1, <1>3, <1>5, FS_AddElement
<1>7. allowed' \in SUBSET [caller : 1 .. floor.callers, symbol : floor.symbols]
      /\ \A a, b \in allowed' : a.caller = b.caller => a = b
  <2> HIDE DEF new
  <2>1. QED
    BY <1>1, <1>3, <1>5
<1>8. ASSUME NEW l \in RateLimits
      PROVE  InWindow(l.window, rateClock) + Cardinality(allowed') <= l.most + floor.callers - 1
  <2>1. ~ (InWindow(l.window, rateClock) >= l.most)
    BY <1>1 DEF Blocked
  <2>2. InWindow(l.window, rateClock) \in Nat
    <3>1. l.window \in Nat
      BY <1>2 DEF FloorFits
    <3>2. Cardinality(Open(l.window, rateClock)) \in Nat
      BY <1>2, <3>1, WindowsType
    <3>3. QED
      BY <3>2 DEF InWindow, Open
  <2>3. l.most \in Nat /\ floor.callers \in Nat
    BY <1>2 DEF FloorFits
  <2>4. QED
    BY <1>2, <1>4, <1>6, <2>1, <2>2, <2>3
<1>9. ASSUME AtLeastThree PROVE \A a \in allowed' : today[a.symbol] = 0
  <2>1. /\ \A r \in floor.symbols : today[r] <= 1 /\ today[r] \in Nat
        /\ \A a \in allowed : today[a.symbol] = 0
    BY <1>9 DEF RateInv
  <2>2. TodayTotal \in Int /\ TodayTotal <= 3
    <3>1. \A r \in floor.symbols : today[r] \in Int /\ 0 <= today[r] /\ today[r] <= 1
      BY <2>1
    <3>2. IsFiniteSet(floor.symbols)
      BY <1>2 DEF FloorFits
    <3>3. /\ SumFunctionOnSet(today, floor.symbols) \in Int /\ Cardinality(floor.symbols) \in Nat
          /\ SumFunctionOnSet(today, floor.symbols) <= 1 * Cardinality(floor.symbols)
      BY <3>1, <3>2, SumWithin
    <3>4. Cardinality(floor.symbols) <= 3
      BY <1>9 DEF AtLeastThree
    <3>5. QED
      BY <3>3, <3>4 DEF TodayTotal
  <2>3. ~ (TodayTotal > 0 /\ 10 * today[s] > 3 * TodayTotal)
    BY <1>1 DEF Blocked
  <2>4. today[s] = 1 => TodayTotal > 0
    <3>1. SUFFICES ASSUME today[s] = 1 PROVE TodayTotal > 0
      OBVIOUS
    <3>2. IsFiniteSet(floor.symbols)
      BY <1>2 DEF FloorFits
    <3>3. SumFunctionOnSet(today, floor.symbols) = today[s] + SumFunctionOnSet(today, floor.symbols \ {s})
      <4>1. \A r \in floor.symbols : today[r] \in Int
        BY <2>1
      <4>2. QED
        BY <3>2, <4>1, SumWithout
    <3> DEFINE others == floor.symbols \ {s}
    <3>4. IsFiniteSet(others) /\ 0 \in Int /\ 1 \in Int
      BY <3>2, FS_RemoveElement
    <3>5. \A r \in others : today[r] \in Int /\ 0 <= today[r] /\ today[r] <= 1
      BY <2>1
    <3> HIDE DEF others
    <3>6. SumFunctionOnSet(today, others) \in Int /\ 0 * Cardinality(others) <= SumFunctionOnSet(today, others)
          /\ Cardinality(others) \in Nat
      <4>1. Cardinality(others) \in Nat
        BY <3>4, FS_CardinalityType
      <4>2. SumFunctionOnSet(today, others) \in Int /\ 0 * Cardinality(others) <= SumFunctionOnSet(today, others)
        BY <3>4, <3>5, SumWithin
      <4>3. QED
        BY <4>1, <4>2
    <3>7. QED
      BY <3>1, <3>3, <3>6 DEF others, TodayTotal
  <2>5. today[s] = 0
    BY <2>1, <2>2, <2>3, <2>4
  <2> HIDE DEF new
  <2>6. QED
    BY <1>1, <1>5, <2>1, <2>5
<1>10. RatesHeld'
  <2>1. RatesHeld
    BY DEF RateInv
  <2>2. QED
    BY <1>1, <2>1 DEF RatesHeld
<1>11. \A l \in RateLimits : (InWindow(l.window, rateClock) + Cardinality(allowed) <= l.most + floor.callers - 1)'
  BY <1>1, <1>8 DEF InWindow
<1>12. Len(tradeLog) + Cardinality(allowed') <= floor.trades
  <2>1. floor.trades \in Nat
    BY <1>2 DEF FloorFits
  <2>2. QED
    BY <1>1, <1>2, <1>6, <2>1
<1> HIDE DEF new
<1>13. QED
  BY <1>1, <1>6, <1>7, <1>9, <1>10, <1>11, <1>12 DEF RateInv, AtLeastThree

\* All that is open at the clock is held at it.
LEMMA OpenIsHeld ==
  ASSUME RateInv, NEW w \in Nat
  PROVE  /\ Open(w, rateClock) = Held(w, rateClock) /\ InWindow(w, rateClock) = Cardinality(Held(w, rateClock))
         /\ InWindow(w, rateClock) \in Nat
<1>1. rateClock \in Nat /\ DOMAIN tradeLog = 1 .. Len(tradeLog)
      /\ \A k \in 1 .. Len(tradeLog) : tradeLog[k].at \in Nat /\ tradeLog[k].at <= rateClock
  BY RateFacts
<1>2. Open(w, rateClock) = Held(w, rateClock)
  BY <1>1 DEF Open, Held
<1>3. Cardinality(Held(w, rateClock)) \in Nat
  BY <1>1, WindowsType
<1>4. InWindow(w, rateClock) = Cardinality(Open(w, rateClock))
  BY DEF InWindow, Open
<1>5. QED
  BY <1>2, <1>3, <1>4

\* A trade that is recorded was one of the allowed ones.
LEMMA RecordKeepsRates ==
  ASSUME RateInv, NEW a \in allowed, RecordTrade(a)
  PROVE  RateInv'
<1> DEFINE new == [symbol |-> a.symbol, at |-> rateClock]
<1>1. /\ allowed' = allowed \ {a} /\ tradeLog' = Append(tradeLog, new)
      /\ today' = [today EXCEPT ![a.symbol] = @ + 1] /\ UNCHANGED <<floor, rateClock>>
  BY DEF RecordTrade
<1>2. /\ FloorFits /\ rateClock \in Nat /\ Len(tradeLog) \in Nat /\ Cardinality(allowed) \in Nat
      /\ DOMAIN tradeLog = 1 .. Len(tradeLog)
  BY RateFacts
<1>3. /\ allowed \in SUBSET [caller : 1 .. floor.callers, symbol : floor.symbols] /\ IsFiniteSet(allowed)
      /\ \A b, c \in allowed : b.caller = c.caller => b = c
  BY DEF RateInv
<1>4. /\ IsFiniteSet(allowed') /\ Cardinality(allowed') = Cardinality(allowed) - 1
      /\ Cardinality(allowed') \in Nat
  BY <1>1, <1>3, FS_RemoveElement, FS_CardinalityType
<1>5. /\ new \in [symbol : floor.symbols, at : Nat] /\ new.at = rateClock /\ a.symbol \in floor.symbols
      /\ a.caller \in 1 .. floor.callers
  BY <1>2, <1>3
<1> HIDE DEF new
<1>6. /\ tradeLog \in Seq([symbol : floor.symbols, at : Nat])
      /\ \A k \in DOMAIN tradeLog : tradeLog[k].at <= rateClock
  BY DEF RateInv
<1>7. /\ tradeLog' \in Seq([symbol : floor.symbols, at : Nat]) /\ Len(tradeLog') = Len(tradeLog) + 1
      /\ DOMAIN tradeLog' = 1 .. Len(tradeLog) + 1 /\ tradeLog'[Len(tradeLog) + 1] = new
      /\ \A k \in 1 .. Len(tradeLog) : tradeLog'[k] = tradeLog[k]
  BY <1>1, <1>5, <1>6
<1>8. \A k \in DOMAIN tradeLog' : tradeLog'[k].at <= rateClock'
  BY <1>1, <1>2, <1>5, <1>6, <1>7
<1>9. /\ today \in [floor.symbols -> Nat] /\ \A s \in floor.symbols : today[s] <= Len(tradeLog)
  BY DEF RateInv
<1>10. /\ today' \in [floor.symbols -> Nat] /\ today'[a.symbol] = today[a.symbol] + 1
       /\ \A s \in floor.symbols : s # a.symbol => today'[s] = today[s]
  BY <1>1, <1>5, <1>9
<1>11. \A s \in floor.symbols : today'[s] <= Len(tradeLog')
  <2>1. SUFFICES ASSUME NEW s \in floor.symbols PROVE today'[s] <= Len(tradeLog')
    OBVIOUS
  <2>2. today[s] \in Nat /\ today[s] <= Len(tradeLog) /\ (today'[s] = today[s] \/ today'[s] = today[s] + 1)
    BY <1>9, <1>10
  <2>3. QED
    BY <1>2, <1>7, <2>2
<1>12. ASSUME NEW w \in Nat, NEW now \in 0 .. rateClock
       PROVE  Cardinality(Held(w, now)') = Cardinality(Held(w, now)) + (IF now = rateClock THEN 1 ELSE 0)
  <2>1. Cardinality(Within(Append(tradeLog, new), now - w, now)) =
          Cardinality(Within(tradeLog, now - w, now)) + (IF new.at >= now - w /\ new.at <= now THEN 1 ELSE 0)
    <3>1. now - w \in Int /\ now \in Int
      OBVIOUS
    <3>2. QED
      BY <1>5, <1>6, <3>1, WindowGrows
  <2>2. (new.at >= now - w /\ new.at <= now) <=> now = rateClock
    BY <1>2, <1>5
  <2>3. \A k \in 1 .. Len(tradeLog) : tradeLog[k].at \in Nat
    BY RateFacts
  <2>4. Within(tradeLog, now - w, now) = Held(w, now)
    BY <1>2, <2>3 DEF Held, Within
  <2>5. \A k \in 1 .. Len(tradeLog) + 1 : tradeLog'[k].at \in Nat
    <3>1. \A k \in 1 .. Len(tradeLog) : tradeLog'[k].at \in Nat
      BY <1>7, <2>3
    <3>2. tradeLog'[Len(tradeLog) + 1].at \in Nat
      BY <1>2, <1>5, <1>7
    <3>3. \A k \in 1 .. Len(tradeLog) + 1 : k \in 1 .. Len(tradeLog) \/ k = Len(tradeLog) + 1
      BY <1>2
    <3>4. QED
      BY <3>1, <3>2, <3>3
  <2>6. Within(tradeLog', now - w, now) = Held(w, now)'
    BY <1>1, <1>7, <2>5 DEF Held, Within
  <2>7. QED
    BY <1>1, <2>1, <2>2, <2>4, <2>6
<1>13. \A l \in RateLimits : (InWindow(l.window, rateClock) + Cardinality(allowed) <= l.most + floor.callers - 1)'
  <2>1. SUFFICES ASSUME NEW l \in RateLimits
                 PROVE  InWindow(l.window, rateClock)' + Cardinality(allowed') <= l.most + floor.callers - 1
    BY <1>1
  <2>2. l.window \in Nat /\ l.most \in Nat /\ floor.callers \in Nat
    BY <1>2 DEF FloorFits
  <2>3. InWindow(l.window, rateClock) = Cardinality(Held(l.window, rateClock)) /\ InWindow(l.window, rateClock) \in Nat
    BY <2>2, OpenIsHeld
  <2>4. InWindow(l.window, rateClock)' = Cardinality(Held(l.window, rateClock)')
    <3>1. DOMAIN tradeLog' = 1 .. Len(tradeLog) + 1 /\ \A k \in DOMAIN tradeLog' : tradeLog'[k].at <= rateClock
      BY <1>1, <1>7, <1>8
    <3>2. QED
      BY <1>1, <3>1 DEF InWindow, Held
  <2>5. Cardinality(Held(l.window, rateClock)') = Cardinality(Held(l.window, rateClock)) + 1
    <3>1. rateClock \in 0 .. rateClock
      BY <1>2
    <3>2. \A n \in 0 .. rateClock : n = rateClock =>
            Cardinality(Held(l.window, n)') = Cardinality(Held(l.window, n)) + 1
      BY <1>12, <2>2
    <3>3. \A n : Held(l.window, n)' = {k \in DOMAIN tradeLog' : tradeLog'[k].at + l.window >= n /\ tradeLog'[k].at <= n}
      BY DEF Held
    <3>4. Held(l.window, rateClock)' =
            {k \in DOMAIN tradeLog' : tradeLog'[k].at + l.window >= rateClock /\ tradeLog'[k].at <= rateClock}
      BY <1>1 DEF Held
    <3>5. QED
      BY <3>1, <3>2, <3>3, <3>4
  <2>6. InWindow(l.window, rateClock) + Cardinality(allowed) <= l.most + floor.callers - 1
    BY DEF RateInv
  <2>7. QED
    BY <1>2, <1>4, <2>2, <2>3, <2>4, <2>5, <2>6
<1>14. RatesHeld'
  <2>1. SUFFICES ASSUME NEW l \in RateLimits, NEW now \in 0 .. rateClock
                 PROVE  Cardinality(Held(l.window, now)') <= l.most + floor.callers - 1
    BY <1>1 DEF RatesHeld, Held
  <2>2. l.window \in Nat /\ l.most \in Nat /\ floor.callers \in Nat
    BY <1>2 DEF FloorFits
  <2>3. Cardinality(Held(l.window, now)') = Cardinality(Held(l.window, now)) + (IF now = rateClock THEN 1 ELSE 0)
    BY <1>12, <2>2
  <2>4. Cardinality(Held(l.window, now)) <= l.most + floor.callers - 1
    BY DEF RateInv, RatesHeld, Held
  <2>n. now \in Nat
    BY <1>2
  <2>7. Cardinality(Held(l.window, now)) \in Nat
    BY <2>n, <2>2, WindowsType
  <2>5. CASE now # rateClock
    BY <2>3, <2>4, <2>5, <2>7
  <2>6. CASE now = rateClock
    <3>1. Cardinality(Held(l.window, rateClock)) + Cardinality(allowed) <= l.most + floor.callers - 1
          /\ Cardinality(Held(l.window, rateClock)) \in Nat
      BY <2>2, OpenIsHeld DEF RateInv
    <3>2. Cardinality(allowed) >= 1
      BY <1>2, <1>4
    <3>3. Cardinality(Held(l.window, rateClock)) + 1 <= l.most + floor.callers - 1
      BY <1>2, <2>2, <3>1, <3>2
    <3>4. QED
      BY <2>3, <2>6, <3>3
  <2>8. QED
    BY <2>5, <2>6
<1>15. ASSUME AtLeastThree'
       PROVE  (\A s \in floor.symbols : today'[s] <= 1) /\ \A b \in allowed' : today'[b.symbol] = 0
  <2>1. floor.callers = 1 /\ AtLeastThree
    BY <1>1, <1>15 DEF AtLeastThree
  <2>2. /\ \A s \in floor.symbols : today[s] <= 1
        /\ today[a.symbol] = 0
    BY <2>1 DEF RateInv
  <2>3. allowed' = {}
    BY <1>1, <1>3, <2>1
  <2>4. \A s \in floor.symbols : today'[s] <= 1
    BY <1>10, <2>2
  <2>5. QED
    BY <2>3, <2>4
<1>16. allowed' \in SUBSET [caller : 1 .. floor.callers, symbol : floor.symbols]
       /\ \A b, c \in allowed' : b.caller = c.caller => b = c
  BY <1>1, <1>3
<1>17. Len(tradeLog') + Cardinality(allowed') <= floor.trades
  <2>1. floor.trades \in Nat /\ Len(tradeLog) + Cardinality(allowed) <= floor.trades
    BY <1>2 DEF FloorFits, RateInv
  <2>2. QED
    BY <1>2, <1>4, <1>7, <2>1
<1>18. floor' \in Floors /\ rateClock' \in 0 .. ClockLimit
  BY <1>1 DEF RateInv
<1>19. QED
  BY <1>1, <1>4, <1>7, <1>8, <1>10, <1>11, <1>13, <1>14, <1>15, <1>16, <1>17, <1>18 DEF RateInv

\* Time only closes windows.
LEMMA TickKeepsRates ==
  ASSUME RateInv, RateTick
  PROVE  RateInv'
<1>1. /\ rateClock' = rateClock + 1 /\ rateClock < ClockLimit /\ UNCHANGED <<floor, tradeLog, today, allowed>>
  BY DEF RateTick
<1>2. /\ FloorFits /\ rateClock \in Nat /\ Len(tradeLog) \in Nat /\ Cardinality(allowed) \in Nat
      /\ DOMAIN tradeLog = 1 .. Len(tradeLog) /\ ClockLimit \in Nat
      /\ \A k \in 1 .. Len(tradeLog) : tradeLog[k].at \in Nat /\ tradeLog[k].at <= rateClock
  BY RateFacts
<1>3. ASSUME NEW l \in RateLimits
      PROVE  /\ Cardinality(Open(l.window, rateClock + 1)) <= InWindow(l.window, rateClock)
             /\ InWindow(l.window, rateClock)' = Cardinality(Open(l.window, rateClock + 1))
             /\ Held(l.window, rateClock + 1) = Open(l.window, rateClock + 1)
             /\ Cardinality(Open(l.window, rateClock + 1)) \in Nat /\ InWindow(l.window, rateClock) \in Nat
  <2>1. l.window \in Nat
    BY <1>2 DEF FloorFits
  <2>2. Open(l.window, rateClock + 1) \subseteq Open(l.window, rateClock)
    BY <1>2, <2>1 DEF Open
  <2>3. IsFiniteSet(Open(l.window, rateClock)) /\ Cardinality(Open(l.window, rateClock)) \in Nat
        /\ Cardinality(Open(l.window, rateClock + 1)) \in Nat
    <3>1. rateClock + 1 \in Nat
      BY <1>2
    <3>2. QED
      BY <1>2, <2>1, <3>1, WindowsType
  <2>4. Cardinality(Open(l.window, rateClock + 1)) <= Cardinality(Open(l.window, rateClock))
    BY <2>2, <2>3, FS_Subset
  <2>5. InWindow(l.window, rateClock) = Cardinality(Open(l.window, rateClock))
        /\ InWindow(l.window, rateClock)' = Cardinality(Open(l.window, rateClock + 1))
    BY <1>1 DEF InWindow, Open
  <2>6. Held(l.window, rateClock + 1) = Open(l.window, rateClock + 1)
    BY <1>2, <2>1 DEF Held, Open
  <2>7. QED
    BY <2>3, <2>4, <2>5, <2>6
<1>4. \A l \in RateLimits : l.most \in Nat /\ floor.callers \in Nat
        /\ InWindow(l.window, rateClock) + Cardinality(allowed) <= l.most + floor.callers - 1
  BY <1>2 DEF FloorFits, RateInv
<1>5. \A l \in RateLimits : (InWindow(l.window, rateClock) + Cardinality(allowed) <= l.most + floor.callers - 1)'
  BY <1>1, <1>2, <1>3, <1>4
<1>6. RatesHeld'
  <2>1. SUFFICES ASSUME NEW l \in RateLimits, NEW now \in 0 .. rateClock + 1
                 PROVE  Cardinality(Held(l.window, now)) <= l.most + floor.callers - 1
    BY <1>1 DEF RatesHeld, Held
  <2>2. CASE now = rateClock + 1
    BY <1>2, <1>3, <1>4, <2>2
  <2>3. CASE now \in 0 .. rateClock
    BY <2>3 DEF RateInv, RatesHeld, Held
  <2>4. QED
    BY <1>2, <2>2, <2>3
<1>7. \A k \in DOMAIN tradeLog : tradeLog[k].at <= rateClock'
  BY <1>1, <1>2
<1>8. rateClock' \in 0 .. ClockLimit
  BY <1>1, <1>2
<1>9. QED
  BY <1>1, <1>5, <1>6, <1>7, <1>8 DEF RateInv, AtLeastThree

\* A new day clears the counts of the day.
LEMMA NewDayKeepsRates ==
  ASSUME RateInv, NewDay
  PROVE  RateInv'
<1>1. today' = [s \in floor.symbols |-> 0] /\ UNCHANGED <<floor, tradeLog, allowed, rateClock>>
  BY DEF NewDay
<1>2. Len(tradeLog) \in Nat
  BY RateFacts
<1>3. /\ today' \in [floor.symbols -> Nat] /\ \A s \in floor.symbols : today'[s] = 0
  BY <1>1
<1>4. /\ \A s \in floor.symbols : today'[s] <= Len(tradeLog) /\ today'[s] <= 1
      /\ \A a \in allowed : a.symbol \in floor.symbols
  BY <1>2, <1>3 DEF RateInv
<1>5. RatesHeld' /\ \A l \in RateLimits : InWindow(l.window, rateClock)' = InWindow(l.window, rateClock)
  BY <1>1 DEF RateInv, RatesHeld, InWindow
<1>6. QED
  BY <1>1, <1>3, <1>4, <1>5 DEF RateInv, AtLeastThree

\* Every step of the floor keeps the rates.
LEMMA RateSteps ==
  ASSUME RateInv, RateNext PROVE RateInv'
<1>1. CASE RateTick
  BY <1>1, TickKeepsRates
<1>2. CASE NewDay
  BY <1>2, NewDayKeepsRates
<1>3. CASE \E a \in allowed : RecordTrade(a)
  BY <1>3, RecordKeepsRates
<1>4. CASE \E c \in 1 .. floor.callers, s \in floor.symbols : CheckTrade(c, s)
  BY <1>4, CheckKeepsRates
<1>5. QED
  BY <1>1, <1>2, <1>3, <1>4 DEF RateNext

\* What the invariant says of the rates.
LEMMA RateSays ==
  ASSUME RateInv
  PROVE  /\ today \in [floor.symbols -> 0 .. floor.trades] /\ Len(tradeLog) <= floor.trades
         /\ RatesHeld /\ ThreeSymbolsTradeOnce
<1>1. Len(tradeLog) <= floor.trades /\ floor.trades \in Nat /\ Len(tradeLog) \in Nat
  <2>1. Len(tradeLog) + Cardinality(allowed) <= floor.trades /\ FloorFits /\ Len(tradeLog) \in Nat
        /\ Cardinality(allowed) \in Nat
    BY RateFacts DEF RateInv
  <2>2. QED
    BY <2>1 DEF FloorFits
<1>2. today \in [floor.symbols -> Nat] /\ \A s \in floor.symbols : today[s] <= Len(tradeLog)
  BY DEF RateInv
<1>3. \A s \in floor.symbols : today[s] \in 0 .. floor.trades
  BY <1>1, <1>2
<1>4. QED
  BY <1>1, <1>2, <1>3 DEF RateInv, ThreeSymbolsTradeOnce, AtLeastThree

-----------------------------------------------------------------------------
(***************************************************************************)
(* The resolver.  Every call is counted once at most as a decision or as   *)
(* paused, and every decision once at most as what became of it.           *)
(***************************************************************************)

Outcomes == {"kill_switch", "paused", "rejected", "approved", "requires_approval"}
Approved(q) == {k \in DOMAIN q : q[k] = "approved"}

ResolverInv ==
  /\ stats \in [Counts -> Nat] /\ resolveCalls \in 0 .. Decisions
  /\ \A c \in Counts : stats[c] <= resolveCalls
  /\ resolved \in Seq(Outcomes) /\ Len(resolved) <= HistoryCap
  /\ stats["approved"] + stats["rejected"] + stats["requires_approval"] <= stats["decisions_made"]
  /\ stats["decisions_made"] + stats["paused"] <= resolveCalls
  /\ Cardinality(Approved(resolved)) <= stats["approved"]

\* What an outcome adds to the approved ones, and that none comes in when the oldest goes.
LEMMA ApprovedGrows ==
  ASSUME NEW q \in Seq(Outcomes), NEW e \in Outcomes
  PROVE  /\ Cardinality(Approved(q)) \in Nat
         /\ Cardinality(Approved(Append(q, e))) = Cardinality(Approved(q)) + (IF e = "approved" THEN 1 ELSE 0)
<1> DEFINE S == Approved(q)
           T == Approved(Append(q, e))
           n == Len(q)
<1>1. /\ n \in Nat /\ DOMAIN q = 1 .. n /\ DOMAIN Append(q, e) = 1 .. n + 1 /\ Append(q, e)[n + 1] = e
      /\ \A i \in 1 .. n : Append(q, e)[i] = q[i]
  OBVIOUS
<1>2. /\ S \in SUBSET (1 .. n) /\ T \in SUBSET (1 .. n + 1) /\ (\A i \in 1 .. n : i \in T <=> i \in S)
      /\ n + 1 \in T <=> e = "approved"
  BY <1>1 DEF Approved
<1> HIDE DEF S, T, n
<1>3. Cardinality(S) \in Nat /\ Cardinality(T) = Cardinality(S) + (IF n + 1 \in T THEN 1 ELSE 0)
  BY <1>1, <1>2, OneIndexMore
<1>4. Cardinality(T) = Cardinality(S) + (IF e = "approved" THEN 1 ELSE 0)
  BY <1>2, <1>3
<1>5. QED
  BY <1>3, <1>4 DEF S, T

\* A history that forgets its oldest outcome has no more approvals.
LEMMA ApprovedShrinks ==
  ASSUME NEW q \in Seq(Outcomes), Len(q) > 0
  PROVE  Cardinality(Approved(Tail(q))) <= Cardinality(Approved(q))
<1> DEFINE S == Approved(q)
           T == Approved(Tail(q))
           n == Len(q) - 1
<1>1. /\ n \in Nat /\ DOMAIN q = 1 .. n + 1 /\ DOMAIN Tail(q) = 1 .. n
      /\ \A i \in 1 .. n : Tail(q)[i] = q[i + 1]
  OBVIOUS
<1>2. /\ S \in SUBSET (1 .. n + 1) /\ T \in SUBSET (1 .. n) /\ \A i \in 1 .. n : i \in T <=> i + 1 \in S
  BY <1>1 DEF Approved
<1> HIDE DEF S, T, n
<1>3. Cardinality(T) \in Nat /\ Cardinality(S) = Cardinality(T) + (IF 1 \in S THEN 1 ELSE 0)
  BY <1>1, <1>2, OneIndexLess
<1>4. Cardinality(T) <= Cardinality(S)
  BY <1>3
<1>5. QED
  BY <1>4 DEF S, T

\* The resolver begins without decisions.
LEMMA ResolverBegins == GovernorInit => ResolverInv
<1> SUFFICES ASSUME GovernorInit PROVE ResolverInv
  OBVIOUS
<1>1. stats = [c \in Counts |-> 0] /\ resolved = <<>> /\ resolveCalls = 0 /\ Decisions \in Nat /\ HistoryCap \in Nat
  BY GovernorConstants DEF GovernorInit
<1>2. Approved(resolved) = {} /\ Cardinality({}) = 0
  BY <1>1, FS_EmptySet DEF Approved
<1>3. \A c \in Counts : stats[c] = 0
  BY <1>1
<1>4. {"approved", "rejected", "requires_approval", "decisions_made", "paused"} \subseteq Counts
  BY DEF Counts
<1>5. resolved \in Seq(Outcomes) /\ Len(resolved) = 0
  BY <1>1
<1>6. stats \in [Counts -> Nat]
  BY <1>1
<1>7. /\ stats["approved"] = 0 /\ stats["rejected"] = 0 /\ stats["requires_approval"] = 0
      /\ stats["decisions_made"] = 0 /\ stats["paused"] = 0
  BY <1>3, <1>4
<1>8. Cardinality(Approved(resolved)) = 0
  BY <1>2
<1>9. QED
  BY <1>1, <1>3, <1>5, <1>6, <1>7, <1>8 DEF ResolverInv

\* A decision keeps the invariant of the resolver.
LEMMA ResolveKeeps ==
  ASSUME ResolverInv, NEW failing, Resolve(failing)
  PROVE  ResolverInv'
<1> DEFINE outcome == IF killed THEN "kill_switch" ELSE IF paused THEN "paused" ELSE Outcome(failing)
           counted == IF killed THEN {}
                      ELSE IF paused THEN {"paused"}
                      ELSE {"decisions_made"} \cup ({outcome} \ {"paused"})
           all == Append(resolved, outcome)
<1>1. /\ resolveCalls < Decisions /\ resolveCalls' = resolveCalls + 1
      /\ stats' = [c \in Counts |-> IF c \in counted THEN stats[c] + 1 ELSE stats[c]]
      /\ resolved' = IF Len(all) > HistoryCap THEN Tail(all) ELSE all
  BY DEF Resolve
<1>2. Outcome(failing) \in {"rejected", "paused", "approved", "requires_approval"}
  BY DEF Outcome
<1>3. outcome \in Outcomes
  BY <1>2 DEF Outcomes
<1>4. /\ outcome = "approved" => "approved" \in counted
      /\ \A c \in {"approved", "rejected", "requires_approval"} :
           c \in counted => c = outcome /\ "decisions_made" \in counted
      /\ "decisions_made" \in counted => "paused" \notin counted
  BY <1>2
<1> HIDE DEF outcome, counted
<1>5. /\ stats \in [Counts -> Nat] /\ resolveCalls \in Nat /\ Decisions \in Nat /\ HistoryCap \in Nat
      /\ resolved \in Seq(Outcomes) /\ Len(resolved) <= HistoryCap
  BY GovernorConstants DEF ResolverInv
<1>6. {"approved", "rejected", "requires_approval", "decisions_made", "paused"} \subseteq Counts
  BY DEF Counts
<1>7. \A c \in Counts : stats[c] \in Nat /\ stats'[c] = stats[c] + (IF c \in counted THEN 1 ELSE 0)
  BY <1>1, <1>5
<1>8. stats' \in [Counts -> Nat]
  BY <1>1, <1>5, <1>7
<1>9. \A c \in Counts : stats'[c] <= resolveCalls'
  <2>1. TAKE c \in Counts
  <2>2. stats[c] <= resolveCalls
    BY DEF ResolverInv
  <2>3. QED
    BY <1>1, <1>5, <1>7, <2>2
<1>10. stats'["approved"] + stats'["rejected"] + stats'["requires_approval"] <= stats'["decisions_made"]
  <2>1. stats["approved"] + stats["rejected"] + stats["requires_approval"] <= stats["decisions_made"]
    BY DEF ResolverInv
  <2>2. CASE "decisions_made" \in counted
    BY <1>4, <1>6, <1>7, <2>1, <2>2
  <2>3. CASE "decisions_made" \notin counted
    BY <1>4, <1>6, <1>7, <2>1, <2>3
  <2>4. QED
    BY <2>2, <2>3
<1>11. stats'["decisions_made"] + stats'["paused"] <= resolveCalls'
  <2>1. stats["decisions_made"] + stats["paused"] <= resolveCalls
    BY DEF ResolverInv
  <2>2. QED
    BY <1>1, <1>4, <1>5, <1>6, <1>7, <2>1
<1>12. /\ all \in Seq(Outcomes) /\ Len(all) = Len(resolved) + 1 /\ Len(resolved) \in Nat
       /\ Tail(all) \in Seq(Outcomes) /\ Len(Tail(all)) = Len(resolved)
  BY <1>3, <1>5
<1>13. /\ Cardinality(Approved(all)) = Cardinality(Approved(resolved)) + (IF outcome = "approved" THEN 1 ELSE 0)
       /\ Cardinality(Approved(resolved)) \in Nat
  BY <1>3, <1>5, ApprovedGrows
<1>14. Cardinality(Approved(Tail(all))) <= Cardinality(Approved(all))
  <2> HIDE DEF all
  <2>1. Len(all) > 0
    BY <1>12
  <2>2. QED
    BY <1>12, <2>1, ApprovedShrinks
<1>15. resolved' \in Seq(Outcomes) /\ Len(resolved') <= HistoryCap
  <2> HIDE DEF all
  <2>1. QED
    BY <1>1, <1>5, <1>12
<1>16. Cardinality(Approved(resolved')) <= stats'["approved"]
  <2> HIDE DEF all
  <2>1. Cardinality(Approved(resolved)) <= stats["approved"]
    BY DEF ResolverInv
  <2>2. Cardinality(Approved(all)) <= stats'["approved"] /\ Cardinality(Approved(all)) \in Nat
    BY <1>4, <1>6, <1>7, <1>13, <2>1
  <2>3. Cardinality(Approved(Tail(all))) \in Nat
    BY <1>12, ApprovedGrows, <1>3
  <2>4. stats'["approved"] \in Nat
    BY <1>6, <1>8
  <2>5. CASE resolved' = all
    BY <2>2, <2>5
  <2>6. CASE resolved' = Tail(all)
    BY <1>14, <2>2, <2>3, <2>4, <2>6
  <2>7. QED
    BY <1>1, <2>5, <2>6
<1>17. resolveCalls' \in 0 .. Decisions
  BY <1>1, <1>5
<1>18. QED
  BY <1>8, <1>9, <1>10, <1>11, <1>15, <1>16, <1>17 DEF ResolverInv

\* So does every step of the resolver.
LEMMA ResolverSteps ==
  ASSUME ResolverInv, ResolverNext PROVE ResolverInv'
<1>1. CASE Command
  <2>1. UNCHANGED <<stats, resolved, resolveCalls>>
    BY <1>1 DEF Command
  <2>2. QED
    BY <2>1 DEF ResolverInv
<1>2. QED
  BY <1>1, ResolveKeeps DEF ResolverNext

\* What the invariant says of the decisions.
LEMMA ResolverSays ==
  ASSUME ResolverInv
  PROVE  stats \in [Counts -> 0 .. Decisions] /\ Len(resolved) <= HistoryCap /\ DecisionsCounted
<1>1. /\ stats \in [Counts -> Nat] /\ resolveCalls \in 0 .. Decisions /\ Decisions \in Nat
      /\ \A c \in Counts : stats[c] <= resolveCalls
  BY GovernorConstants DEF ResolverInv
<1>2. \A c \in Counts : stats[c] \in 0 .. Decisions
  BY <1>1
<1>3. stats \in [Counts -> 0 .. Decisions]
  BY <1>1, <1>2
<1>4. QED
  BY <1>3 DEF ResolverInv, DecisionsCounted, Approved

-----------------------------------------------------------------------------
\* The three governors together.
GovernorInv == PhaseInv /\ RateInv /\ ResolverInv

\* The governors begin in their invariant.
LEMMA GovernorBegins == GovernorInit => GovernorInv
BY PhaseBegins, RateBegins, ResolverBegins DEF GovernorInv

\* Without a change of its variables, a governor keeps its invariant: the phases,
LEMMA PhaseSame == ASSUME PhaseInv, UNCHANGED phaseVars PROVE PhaseInv'
BY DEF PhaseInv, phaseVars, Times, Never

\* the rates,
LEMMA RateSame == ASSUME RateInv, UNCHANGED rateVars PROVE RateInv'
BY DEF RateInv, rateVars, AtLeastThree, InWindow, RatesHeld

\* and the resolver.
LEMMA ResolverSame == ASSUME ResolverInv, UNCHANGED resolverVars PROVE ResolverInv'
BY DEF ResolverInv, resolverVars

\* Every step of one governor leaves the others.
LEMMA GovernorSteps ==
  ASSUME GovernorInv, PhaseNext \/ RateNext \/ ResolverNext \/ UNCHANGED governorVars PROVE GovernorInv'
<1>1. PhaseInv /\ RateInv /\ ResolverInv
  BY DEF GovernorInv
<1>2. CASE PhaseNext
  <2>1. UNCHANGED <<rateVars, resolverVars>>
    BY <1>2 DEF PhaseNext, PhaseTick, Evaluate
  <2>2. QED
    BY <1>1, <1>2, <2>1, PhaseSteps, RateSame, ResolverSame DEF GovernorInv
<1>3. CASE RateNext
  <2>1. UNCHANGED <<phaseVars, resolverVars>>
    BY <1>3 DEF RateNext, RateTick, NewDay, RecordTrade, CheckTrade
  <2>2. QED
    BY <1>1, <1>3, <2>1, RateSteps, PhaseSame, ResolverSame DEF GovernorInv
<1>4. CASE ResolverNext
  <2>1. UNCHANGED <<phaseVars, rateVars>>
    BY <1>4 DEF ResolverNext, Command, Resolve
  <2>2. QED
    BY <1>1, <1>4, <2>1, ResolverSteps, PhaseSame, RateSame DEF GovernorInv
<1>5. CASE UNCHANGED governorVars
  BY <1>1, <1>5, PhaseSame, RateSame, ResolverSame DEF GovernorInv, governorVars
<1>6. QED
  BY <1>2, <1>3, <1>4, <1>5

\* What the invariant says of the governors.
LEMMA GovernorSays ==
  ASSUME GovernorInv
  PROVE  GovernorTypeOK /\ SevereStopsInTime /\ RatesHeld /\ ThreeSymbolsTradeOnce /\ DecisionsCounted
<1>1. PhaseInv /\ RateInv /\ ResolverInv
  BY DEF GovernorInv
<1>2. QED
  BY <1>1, PhaseSays, RateSays, ResolverSays DEF GovernorTypeOK

-----------------------------------------------------------------------------
(***************************************************************************)
(* The gates of risk/.                                                     *)
(***************************************************************************)

Folios == [drawdown : Int, daily : Int, leverage : Int]

EngineInv ==
  /\ folio \in Folios /\ evaluatedOn \in Folios
  /\ riskLevel \in 0 .. 3 /\ riskHalted \in BOOLEAN /\ lossRow \in 0 .. LossLimit
  /\ lastOrder.sent \in Nat
  /\ HaltOutlastsLevel /\ SentIsBounded

SizerInv == multiplier \in 30 .. 150

RiskInv == EngineInv /\ SizerInv /\ CompositeNeverDecides

\* The gates begin without evaluations.
LEMMA RiskBegins == RiskInit => RiskInv
<1> SUFFICES ASSUME RiskInit PROVE RiskInv
  OBVIOUS
<1>1. /\ folio = NoEvaluation /\ riskLevel = 0 /\ riskHalted = FALSE /\ lossRow = 0
      /\ evaluatedOn = NoEvaluation /\ lastOrder = NoOrder
      /\ multiplier = 100 /\ preTrade = NoPreTrade
  BY DEF RiskInit
<1>2. LossLimit \in Nat /\ MaxDrawdown \in Nat /\ MaxPosition \in Nat
  BY RiskConstants
<1>3. NoEvaluation \in Folios /\ NoEvaluation.drawdown = 0 /\ NoOrder.sent = 0 /\ NoPreTrade.composite = 0
  BY DEF NoEvaluation, Folios, NoOrder, NoPreTrade
<1>h. ~ riskHalted /\ riskHalted \in BOOLEAN /\ ~ (evaluatedOn.drawdown > MaxDrawdown)
  <2>1. ~ riskHalted /\ riskHalted \in BOOLEAN
    BY <1>1
  <2>2. evaluatedOn.drawdown = 0
    BY <1>1, <1>3
  <2>3. QED
    BY <1>2, <2>1, <2>2
<1>o. HaltOutlastsLevel /\ SentIsBounded /\ lastOrder.sent \in Nat
  BY <1>1, <1>2, <1>3, <1>h DEF HaltOutlastsLevel, SentIsBounded
<1>4. EngineInv
  BY <1>1, <1>2, <1>3, <1>h, <1>o DEF EngineInv
<1>5. SizerInv /\ CompositeNeverDecides
  BY <1>1, <1>3 DEF SizerInv, CompositeNeverDecides
<1>6. QED
  BY <1>4, <1>5 DEF RiskInv

\* Every step of the risk engine keeps its invariant.
LEMMA EngineSteps ==
  ASSUME EngineInv, EngineNext PROVE EngineInv'
<1>0. /\ MaxDrawdown \in Nat /\ MaxPosition \in Nat /\ LossLimit \in Nat /\ Drawdowns \subseteq Int
      /\ DailyPnls \subseteq Int /\ Leverages \subseteq Int /\ Sizes \subseteq Nat
  BY RiskConstants
<1>1. /\ folio \in Folios /\ evaluatedOn \in Folios
      /\ riskLevel \in 0 .. 3 /\ riskHalted \in BOOLEAN /\ lossRow \in 0 .. LossLimit
      /\ lastOrder.sent \in Nat /\ HaltOutlastsLevel /\ SentIsBounded
  BY DEF EngineInv
<1>2. CASE Market
  <2>1. /\ folio' \in [drawdown : Drawdowns, daily : DailyPnls, leverage : Leverages]
        /\ UNCHANGED <<riskLevel, riskHalted, lossRow, evaluatedOn, lastOrder>>
    BY <1>2 DEF Market
  <2>2. folio' \in Folios
    BY <1>0, <2>1 DEF Folios
  <2>3. QED
    BY <1>1, <2>1, <2>2 DEF EngineInv, HaltOutlastsLevel, SentIsBounded
<1>3. CASE EvaluateProtection
  <2> DEFINE l == LevelFor(folio)
  <2>1. /\ riskLevel' = Max({riskLevel, l}) /\ riskHalted' = (riskHalted \/ l = 3)
        /\ evaluatedOn' = folio /\ UNCHANGED <<folio, lossRow, lastOrder>>
    BY <1>3 DEF EvaluateProtection
  <2>2. l \in 0 .. 3 /\ (folio.drawdown > MaxDrawdown => l = 3)
    BY DEF LevelFor
  <2> HIDE DEF l
  <2>3. riskLevel' = IF riskLevel >= l THEN riskLevel ELSE l
    BY <1>1, <2>1, <2>2, TwoNumbers
  <2>4. riskLevel' \in 0 .. 3 /\ (riskLevel' = 3 <=> riskLevel = 3 \/ l = 3)
    BY <1>1, <2>2, <2>3
  <2>5. riskLevel' = 3 => riskHalted'
    BY <1>1, <2>1, <2>4 DEF HaltOutlastsLevel
  <2>6. evaluatedOn'.drawdown > MaxDrawdown => riskHalted'
    BY <2>1, <2>2
  <2>7. riskHalted' \in BOOLEAN
    BY <2>1
  <2>8. QED
    BY <1>1, <2>1, <2>4, <2>5, <2>6, <2>7 DEF EngineInv, HaltOutlastsLevel, SentIsBounded
<1>4. CASE ResetRisk
  <2>1. /\ riskLevel' = 0 /\ riskHalted' = FALSE /\ lossRow' = 0 /\ evaluatedOn' = NoEvaluation
        /\ UNCHANGED <<folio, lastOrder>>
    BY <1>4 DEF ResetRisk
  <2>2. NoEvaluation \in Folios /\ NoEvaluation.drawdown = 0
    BY DEF NoEvaluation, Folios
  <2>3. ~ riskHalted' /\ riskHalted' \in BOOLEAN /\ ~ (evaluatedOn'.drawdown > MaxDrawdown)
    <3>1. ~ riskHalted' /\ riskHalted' \in BOOLEAN
      BY <2>1
    <3>2. evaluatedOn'.drawdown = 0
      BY <2>1, <2>2
    <3>3. QED
      BY <1>0, <3>1, <3>2
  <2>4. HaltOutlastsLevel'
    BY <2>1, <2>3 DEF HaltOutlastsLevel
  <2>5. SentIsBounded' /\ lastOrder'.sent \in Nat
    BY <1>1, <2>1 DEF SentIsBounded
  <2>6. riskLevel' \in 0 .. 3 /\ lossRow' \in 0 .. LossLimit
    BY <1>0, <2>1
  <2>7. QED
    BY <1>1, <2>1, <2>2, <2>3, <2>4, <2>5, <2>6 DEF EngineInv
<1>5. CASE \E pnl \in {-1, 1} : RecordTradeResult(pnl)
  <2>1. PICK pnl \in {-1, 1} : RecordTradeResult(pnl)
    BY <1>5
  <2>2. /\ lossRow' = IF pnl >= 0 THEN 0 ELSE IF lossRow < LossLimit THEN lossRow + 1 ELSE lossRow
        /\ UNCHANGED <<folio, riskLevel, riskHalted, evaluatedOn, lastOrder>>
    BY <2>1 DEF RecordTradeResult
  <2>3. lossRow' \in 0 .. LossLimit
    BY <1>0, <1>1, <2>2
  <2>4. QED
    BY <1>1, <2>2, <2>3 DEF EngineInv, HaltOutlastsLevel, SentIsBounded
<1>6. CASE \E asked \in Sizes : CheckAndSend(asked)
  <2>1. PICK asked \in Sizes : CheckAndSend(asked)
    BY <1>6
  <2> DEFINE clipped == asked > MaxPosition
             value == IF clipped THEN MaxPosition ELSE asked
             forwarded == IF ~ Approves THEN 0 ELSE IF clipped \/ riskLevel = 0 THEN value ELSE value \div 2
  <2>2. /\ lastOrder' = [asked |-> asked, approved |-> Approves, level |-> riskLevel, sent |-> forwarded]
        /\ UNCHANGED <<folio, riskLevel, riskHalted, lossRow, evaluatedOn>>
    BY <2>1 DEF CheckAndSend
  <2>3. value \in Nat /\ value <= MaxPosition
    BY <1>0
  <2>4. forwarded \in Nat /\ forwarded <= MaxPosition
    <3> HIDE DEF value, clipped
    <3>1. value \div 2 \in Nat /\ value \div 2 <= value
      BY <2>3
    <3>2. QED
      BY <1>0, <2>3, <3>1
  <2>5. riskLevel = 3 => forwarded = 0
    BY <1>1 DEF Approves, HaltOutlastsLevel
  <2> HIDE DEF forwarded
  <2>6. lastOrder'.sent = forwarded /\ lastOrder'.level = riskLevel
    BY <2>2
  <2>7. SentIsBounded'
    BY <2>4, <2>5, <2>6 DEF SentIsBounded
  <2>8. QED
    BY <1>1, <2>2, <2>4, <2>6, <2>7 DEF EngineInv, HaltOutlastsLevel
<1>7. CASE \E level \in 1..3 : ApplyProtectionAction(level)
  <2>1. PICK level \in 1..3 : ApplyProtectionAction(level)
    BY <1>7
  <2>2. /\ riskLevel' = level /\ riskHalted' = (riskHalted \/ level = 3)
        /\ UNCHANGED <<folio, lossRow, evaluatedOn, lastOrder>>
    BY <2>1 DEF ApplyProtectionAction
  <2>3. riskHalted' \in BOOLEAN /\ riskLevel' \in 0 .. 3
    BY <2>2
  <2>4. (riskLevel' = 3 => riskHalted') /\ (riskHalted => riskHalted')
    BY <2>2
  <2>5. QED
    BY <1>1, <2>2, <2>3, <2>4 DEF EngineInv, HaltOutlastsLevel, SentIsBounded
<1>8. QED
  BY <1>2, <1>3, <1>4, <1>5, <1>6, <1>7 DEF EngineNext

\* Every adaptation keeps the multiplier in its range.
LEMMA SizerSteps ==
  ASSUME SizerInv, SizerNext PROVE SizerInv'
<1>1. PICK average \in {"negative", "small", "good"} : Adapt(average)
  BY DEF SizerNext
<1> DEFINE moved == CASE average = "negative" -> (multiplier * 90) \div 100
                      [] average = "good"     -> (multiplier * 105) \div 100
                      [] average = "small"    -> multiplier
<1>2. multiplier' = Max({30, Min({150, moved})})
  BY <1>1 DEF Adapt
<1>3. multiplier \in 30 .. 150
  BY DEF SizerInv
<1>4. moved \in Int
  <2>1. (multiplier * 90) \div 100 \in Int /\ (multiplier * 105) \div 100 \in Int /\ multiplier \in Int
    BY <1>3
  <2>2. QED
    BY <2>1
<1> HIDE DEF moved
<1>5. Min({150, moved}) = IF 150 <= moved THEN 150 ELSE moved
  BY <1>4, TwoNumbers
<1>6. Min({150, moved}) \in Int /\ Min({150, moved}) <= 150
  BY <1>4, <1>5
<1>7. multiplier' = IF 30 >= Min({150, moved}) THEN 30 ELSE Min({150, moved})
  BY <1>2, <1>6, TwoNumbers
<1>8. QED
  BY <1>6, <1>7 DEF SizerInv

\* The stress losses are numbers.
LEMMA LossesAreNumbers ==
  ASSUME NEW stake \in Nat, NEW vol \in Nat, NEW liq \in 0 .. 10
  PROVE  LET loss == StressLoss(stake, vol, liq) IN
         loss.spike \in Int /\ loss.crisis \in Int /\ loss.gap \in Int /\ loss.slippage \in Int
<1>1. (stake * vol * 378) \div 100 \in Int
  <2>1. stake * vol * 378 \in Int
    OBVIOUS
  <2>2. QED
    BY <2>1
<1>2. stake * (IF liq > 7 THEN 100 ELSE IF liq > 4 THEN 300 ELSE 600) \in Int
  OBVIOUS
<1>3. stake * vol * 30 \in Int
  OBVIOUS
<1>4. (2 * stake * (100 + 5 * stake) * (100 + 3 * vol)) \div 1000 \in Int
  <2>1. 2 * stake * (100 + 5 * stake) * (100 + 3 * vol) \in Int
    OBVIOUS
  <2>2. QED
    BY <2>1
<1>5. QED
  BY <1>1, <1>2, <1>3, <1>4 DEF StressLoss

\* The composite risk of a check stays below what refuses.
LEMMA CompositeIsBounded ==
  ASSUME NEW thin \in BOOLEAN, NEW loss, loss.spike \in Int, loss.crisis \in Int, loss.gap \in Int,
         loss.slippage \in Int, NEW failing \in Nat, NEW regimeRisk \in 0 .. 10, NEW liq \in 0 .. 10
  PROVE  Composite(thin, loss, failing, regimeRisk, liq) \in Int /\ Composite(thin, loss, failing, regimeRisk, liq) <= 550
<1> DEFINE weighted == loss.spike * ScenarioWeight.spike + loss.crisis * ScenarioWeight.crisis
                         + loss.gap * ScenarioWeight.gap + loss.slippage * ScenarioWeight.slippage
           part1 == IF thin THEN 90 ELSE 0
           part2 == Min({failing * 250, 500})
           part3 == Min({weighted \div 1000, 300})
<1>1. weighted \in Int
  <2>1. ScenarioWeight.spike = 30 /\ ScenarioWeight.crisis = 25 /\ ScenarioWeight.gap = 25 /\ ScenarioWeight.slippage = 20
    BY DEF ScenarioWeight
  <2>2. QED
    BY <2>1
<1> HIDE DEF weighted
<1>2. part2 \in Int /\ part2 <= 500
  <2>1. failing * 250 \in Int
    OBVIOUS
  <2>2. part2 = IF failing * 250 <= 500 THEN failing * 250 ELSE 500
    BY <2>1, TwoNumbers
  <2>3. QED
    BY <2>1, <2>2
<1>3. part3 \in Int /\ part3 <= 300
  <2>1. weighted \div 1000 \in Int
    BY <1>1
  <2>3. ASSUME NEW n \in Int PROVE Min({n, 300}) \in Int /\ Min({n, 300}) <= 300
    <3>1. 300 \in Int
      OBVIOUS
    <3> DEFINE m == 300
    <3>2. m \in Int
      BY <3>1
    <3> HIDE DEF m
    <3>3. Min({n, m}) \in Int /\ Min({n, m}) <= m
      BY <3>2, AtMostBoth
    <3>4. QED
      BY <3>3 DEF m
  <2>4. QED
    BY <2>1, <2>3
<1>4. Composite(thin, loss, failing, regimeRisk, liq) =
        part1 + (part2 \div 5) + (part3 \div 5) + 15 * regimeRisk + 15 * (10 - liq)
  BY DEF Composite, weighted
<1> HIDE DEF part2, part3
<1>5. part1 \in Int /\ part1 <= 90
  OBVIOUS
<1> HIDE DEF part1
<1>6. part2 \div 5 \in Int /\ part2 \div 5 <= 100 /\ part3 \div 5 \in Int /\ part3 \div 5 <= 60
  BY <1>2, <1>3
<1>7. 15 * regimeRisk \in Int /\ 15 * regimeRisk <= 150 /\ 15 * (10 - liq) \in Int /\ 15 * (10 - liq) <= 150
  OBVIOUS
<1>8. QED
  BY <1>4, <1>5, <1>6, <1>7

\* A check never refuses for its composite.
LEMMA CheckSteps ==
  ASSUME PreTradeCheck PROVE CompositeNeverDecides'
<1>1. PICK stake \in Stakes, vol \in Vols, liq \in Liquidity, reg \in Regimes, thin \in BOOLEAN :
        preTrade' = PreTradeVerdict(StressLoss(stake, vol, liq), thin, reg, liq)
  BY Zenon DEF PreTradeCheck
<1> DEFINE loss == StressLoss(stake, vol, liq)
<1>2. preTrade' = PreTradeVerdict(loss, thin, reg, liq)
  BY <1>1, Zenon
<1>3. stake \in Nat /\ vol \in Nat /\ liq \in 0 .. 10 /\ reg \in 0 .. 10
  BY RiskConstants
<1>5. loss.spike \in Int /\ loss.crisis \in Int /\ loss.gap \in Int /\ loss.slippage \in Int
  BY <1>3, LossesAreNumbers
<1> HIDE DEF loss
<1> DEFINE over == {s \in Scenarios : loss[s] > 5000}
           failing == Cardinality(over)
           composite == Composite(thin, loss, failing, reg, liq)
<1>4. failing \in Nat
  <2>1. IsFiniteSet(Scenarios)
    <3>1. IsFiniteSet({}) /\ Scenarios = ((({} \cup {"spike"}) \cup {"crisis"}) \cup {"gap"}) \cup {"slippage"}
      BY FS_EmptySet DEF Scenarios
    <3>2. QED
      BY <3>1, FS_AddElement
  <2>2. over \subseteq Scenarios
    OBVIOUS
  <2> HIDE DEF over
  <2>3. QED
    BY <2>1, <2>2, FS_Subset, FS_CardinalityType
<1>v. PreTradeVerdict(loss, thin, reg, liq)
        = [approved |-> composite < 700 /\ failing <= 1, composite |-> composite, failing |-> failing]
  BY DEF PreTradeVerdict
<1>w. preTrade' = [approved |-> composite < 700 /\ failing <= 1, composite |-> composite, failing |-> failing]
  BY <1>2, <1>v
<1> HIDE DEF failing
<1>6. composite \in Int /\ composite <= 550
  <2>1. reg \in 0 .. 10 /\ liq \in 0 .. 10
    BY <1>3
  <2>2. QED
    BY <1>4, <1>5, <2>1, CompositeIsBounded, SMTT(60)
<1> HIDE DEF composite
<1>7. preTrade'.composite = composite /\ preTrade'.failing = failing /\ preTrade'.approved = (composite < 700 /\ failing <= 1)
  BY <1>w
<1>8. composite < 700
  BY <1>6
<1>9. QED
  BY <1>6, <1>7, <1>8 DEF CompositeNeverDecides

\* Every step of one gate leaves the others.
LEMMA RiskSteps ==
  ASSUME RiskInv, EngineNext \/ SizerNext \/ PreTradeCheck \/ UNCHANGED riskVars PROVE RiskInv'
<1>1. EngineInv /\ SizerInv /\ CompositeNeverDecides
  BY DEF RiskInv
<1>2. UNCHANGED engineVars => EngineInv'
  BY <1>1 DEF EngineInv, engineVars, HaltOutlastsLevel, SentIsBounded
<1>3. UNCHANGED sizerVars => SizerInv'
  BY <1>1 DEF SizerInv, sizerVars
<1>4. UNCHANGED preTrade => CompositeNeverDecides'
  BY <1>1 DEF CompositeNeverDecides
<1>5. CASE EngineNext
  <2>1. UNCHANGED <<sizerVars, preTrade>>
    BY <1>5 DEF EngineNext, Market, EvaluateProtection, ApplyProtectionAction, ResetRisk, RecordTradeResult, CheckAndSend
  <2>2. QED
    BY <1>1, <1>3, <1>4, <1>5, <2>1, EngineSteps DEF RiskInv
<1>6. CASE SizerNext
  <2>1. UNCHANGED <<engineVars, preTrade>>
    BY <1>6 DEF SizerNext, Adapt
  <2>2. QED
    BY <1>1, <1>2, <1>4, <1>6, <2>1, SizerSteps DEF RiskInv
<1>7. CASE PreTradeCheck
  <2>1. UNCHANGED <<engineVars, sizerVars>>
    BY <1>7 DEF PreTradeCheck
  <2>2. QED
    BY <1>1, <1>2, <1>3, <1>7, <2>1, CheckSteps DEF RiskInv
<1>8. CASE UNCHANGED riskVars
  BY <1>2, <1>3, <1>4, <1>8 DEF RiskInv, riskVars
<1>9. QED
  BY <1>5, <1>6, <1>7, <1>8

\* What the invariant says of the gates.
LEMMA RiskSays ==
  ASSUME RiskInv
  PROVE  RiskTypeOK /\ HaltOutlastsLevel /\ SentIsBounded /\ AdaptiveSizeBounded /\ CompositeNeverDecides
<1>1. EngineInv /\ SizerInv /\ CompositeNeverDecides
  BY DEF RiskInv
<1>2. AdaptiveSizeBounded
  <2>1. SUFFICES ASSUME NEW wanted \in Sizes PROVE SizeFor(wanted) <= 30
    BY DEF AdaptiveSizeBounded
  <2>2. wanted \in Nat
    BY RiskConstants
  <2>3. Min({wanted, 20}) \in 0 .. 20
    <3>1. Min({wanted, 20}) = IF wanted <= 20 THEN wanted ELSE 20
      BY <2>2, TwoNumbers
    <3>2. QED
      BY <2>2, <3>1
  <2>4. multiplier \in 30 .. 150
    BY <1>1 DEF SizerInv
  <2>5. \A a \in 0 .. 20, m \in 30 .. 150 : a * m \in Nat /\ a * m <= 3000
    <3>1. TAKE a \in 0 .. 20, m \in 30 .. 150
    <3>2. a * m <= a * 150
      OBVIOUS
    <3>3. QED
      BY <3>2
  <2>6. \A n \in Nat : n <= 3000 => n \div 100 <= 30
    OBVIOUS
  <2>7. QED
    BY <2>3, <2>4, <2>5, <2>6 DEF SizeFor
<1>3. QED
  BY <1>1, <1>2 DEF EngineInv, SizerInv, RiskTypeOK

-----------------------------------------------------------------------------
(***************************************************************************)
(* Learning: the bound on a change keeps the sign of the mean, and each    *)
(* observation makes the best suffix longer or ends it.                    *)
(***************************************************************************)

\* The best of the sums over what f ends with, and of nothing.
SuffixBest(f, n) == Max({0} \cup {SumFunctionOnSet(f, k .. n) : k \in 1 .. n})

\* The best suffix is zero or the sum of a suffix, and no suffix has more.
LEMMA SuffixFacts ==
  ASSUME NEW n \in Nat, NEW f, \A i \in 1 .. n : f[i] \in Int
  PROVE  /\ \A k \in 1 .. n : SumFunctionOnSet(f, k .. n) \in Int /\ SumFunctionOnSet(f, k .. n) <= SuffixBest(f, n)
         /\ SuffixBest(f, n) \in Int /\ SuffixBest(f, n) >= 0
         /\ SuffixBest(f, n) = 0 \/ \E k \in 1 .. n : SuffixBest(f, n) = SumFunctionOnSet(f, k .. n)
<1> DEFINE gain(k) == SumFunctionOnSet(f, k .. n)
           E == 1 .. n
           g == [k \in E |-> gain(k)]
           T == {g[k] : k \in E}
           S == {0} \cup {gain(k) : k \in E}
<1>1. \A k \in E : gain(k) \in Int
  <2>1. TAKE k \in E
  <2> DEFINE K == k .. n
  <2>2. IsFiniteSet(K) /\ \A i \in K : f[i] \in Int
    <3>1. k \in Int /\ n \in Int /\ K \subseteq E
      OBVIOUS
    <3>2. IsFiniteSet(E)
      BY UpToN
    <3>3. IsFiniteSet(K)
      BY <3>1, <3>2, FS_Subset
    <3>4. QED
      BY <3>1, <3>3
  <2> HIDE DEF K
  <2>3. SumFunctionOnSet(f, K) \in Int
    BY <2>2, SumType
  <2>4. QED
    BY <2>3 DEF K
<1>2. IsFiniteSet(E)
  BY UpToN
<1> HIDE DEF gain, E
<1>3. IsFiniteSet(T)
  BY <1>2, FiniteImage
<1>4. \A k \in E : g[k] = gain(k)
  OBVIOUS
<1>5. S = T \cup {0}
  BY <1>4
<1>6. IsFiniteSet(S)
  BY <1>3, <1>5, FS_AddElement
<1>7. S \in SUBSET Int /\ S # {} /\ 0 \in S /\ \A k \in E : gain(k) \in S
  BY <1>1
<1>8. \A s \in S : s = 0 \/ \E k \in E : s = gain(k)
  OBVIOUS
<1>9. SuffixBest(f, n) = Max(S)
  BY DEF SuffixBest, gain, E
<1> HIDE DEF S
<1>10. Max(S) \in S /\ \A s \in S : s <= Max(S)
  BY <1>6, <1>7, Extremes
<1>11. Max(S) \in Int /\ Max(S) >= 0 /\ (\A k \in E : gain(k) <= Max(S)) /\ (Max(S) = 0 \/ \E k \in E : Max(S) = gain(k))
  BY <1>7, <1>8, <1>10
<1>12. QED
  BY <1>1, <1>9, <1>11, Zenon DEF gain, E

\* One more: the best suffix with it, or nothing.
LEMMA SuffixGrows ==
  ASSUME NEW n \in Nat, NEW f, \A i \in 1 .. n : f[i] \in Int, NEW h, NEW e \in Int,
         h[n + 1] = e, \A i \in 1 .. n : h[i] = f[i]
  PROVE  SuffixBest(h, n + 1) = Max({0, SuffixBest(f, n) + e})
<1> DEFINE old(k) == SumFunctionOnSet(f, k .. n)
           new(k) == SumFunctionOnSet(h, k .. n + 1)
           a == SuffixBest(f, n)
           b == SuffixBest(h, n + 1)
<1>1. n + 1 \in Nat /\ \A i \in 1 .. n + 1 : h[i] \in Int
  <2>1. \A i \in 1 .. n + 1 : i \in 1 .. n \/ i = n + 1
    OBVIOUS
  <2>2. QED
    BY <2>1
<1>2. /\ \A k \in 1 .. n : old(k) \in Int /\ old(k) <= a
      /\ a \in Int /\ a >= 0 /\ (a = 0 \/ \E k \in 1 .. n : a = old(k))
  BY SuffixFacts
<1>3. /\ \A k \in 1 .. n + 1 : new(k) \in Int /\ new(k) <= b
      /\ b \in Int /\ b >= 0 /\ (b = 0 \/ \E k \in 1 .. n + 1 : b = new(k))
  BY <1>1, SuffixFacts
<1>4. ASSUME NEW k \in 1 .. n PROVE new(k) = old(k) + e
  <2> DEFINE K == k .. n
             L == k .. n + 1
  <2>1. K \subseteq 1 .. n /\ L \subseteq 1 .. n + 1 /\ n + 1 \in L /\ L \ {n + 1} = K
    OBVIOUS
  <2>2. IsFiniteSet(K) /\ IsFiniteSet(L)
    <3>1. IsFiniteSet(1 .. n + 1) /\ K \subseteq 1 .. n + 1
      BY <1>1, UpToN
    <3>2. QED
      BY <2>1, <3>1, FS_Subset
  <2>3. (\A i \in L : h[i] \in Int) /\ \A i \in K : h[i] = f[i]
    BY <1>1, <2>1
  <2> HIDE DEF K, L
  <2>4. SumFunctionOnSet(h, L) = h[n + 1] + SumFunctionOnSet(h, L \ {n + 1})
    BY <2>1, <2>2, <2>3, SumWithout
  <2>5. SumFunctionOnSet(h, K) = SumFunctionOnSet(f, K)
    BY <2>2, <2>3, SumSame
  <2>6. old(k) = SumFunctionOnSet(f, K) /\ new(k) = SumFunctionOnSet(h, L)
    BY DEF K, L
  <2> HIDE DEF old, new
  <2>7. new(k) = e + old(k)
    BY <2>1, <2>4, <2>5, <2>6
  <2>8. old(k) \in Int
    BY <1>2 DEF old
  <2>9. QED
    BY <2>7, <2>8
<1>5. new(n + 1) = e
  <2>1. (n + 1) .. (n + 1) = {n + 1}
    OBVIOUS
  <2>2. IsFiniteSet({n + 1}) /\ {n + 1} \ {n + 1} = {}
    BY FS_Singleton
  <2>3. SumFunctionOnSet(h, {n + 1}) = h[n + 1] + SumFunctionOnSet(h, {n + 1} \ {n + 1})
    <3> DEFINE K == {n + 1}
    <3>1. IsFiniteSet(K) /\ n + 1 \in K /\ \A i \in K : h[i] \in Int
      BY <2>2
    <3> HIDE DEF K
    <3>2. SumFunctionOnSet(h, K) = h[n + 1] + SumFunctionOnSet(h, K \ {n + 1})
      BY <3>1, SumWithout
    <3>3. QED
      BY <3>2 DEF K
  <2>4. SumFunctionOnSet(h, {}) = 0
    BY FS_EmptySet, SumUnfolds
  <2>5. QED
    BY <2>1, <2>2, <2>3, <2>4
<1> HIDE DEF old, new, a, b
<1>6. \A k \in 1 .. n + 1 : k \in 1 .. n \/ k = n + 1
  OBVIOUS
<1>7. 1 .. n \subseteq 1 .. n + 1 /\ n + 1 \in 1 .. n + 1
  OBVIOUS
<1>8. b >= a + e
  <2>1. CASE a = 0
    BY <1>3, <1>5, <1>7, <2>1
  <2>2. ASSUME NEW k \in 1 .. n, a = old(k) PROVE b >= a + e
    <3>1. new(k) <= b /\ new(k) = a + e
      BY <1>3, <1>4, <1>7, <2>2
    <3>2. QED
      BY <1>2, <1>3, <3>1
  <2>3. QED
    BY <1>2, <2>1, <2>2
<1>9. b = 0 \/ b <= a + e
  <2>1. ASSUME NEW k \in 1 .. n, b = new(k) PROVE b <= a + e
    <3>1. b = old(k) + e /\ old(k) <= a /\ old(k) \in Int
      BY <1>2, <1>4, <2>1
    <3>2. QED
      BY <1>2, <3>1
  <2>2. b = new(n + 1) => b <= a + e
    BY <1>2, <1>5
  <2>3. QED
    BY <1>3, <1>6, <2>1, <2>2
<1>10. a + e \in Int
  BY <1>2
<1>11. Max({0, a + e}) = IF 0 >= a + e THEN 0 ELSE a + e
  BY <1>10, TwoNumbers
<1>12. b = Max({0, a + e})
  BY <1>2, <1>3, <1>8, <1>9, <1>11
<1>13. QED
  BY <1>12 DEF a, b
-----------------------------------------------------------------------------
\* What the observations gain for one direction.
Gains(q, up) == [i \in DOMAIN q |-> IF (q[i] = 1) = up THEN 49 ELSE -51]

LearnerInv ==
  /\ learned \in Seq({-1, 1}) /\ alpha \in Int /\ beta \in Int /\ alpha >= 100 /\ beta >= 100
  /\ meanPnl \in Int /\ regimeRate \in 50 .. 200 /\ FirstTradeDecides
DriftInv ==
  /\ seen \in Seq({0, 1}) /\ driftConfidence \in 10 .. 100
  /\ cusumPos = SuffixBest(Gains(seen, TRUE), Len(seen)) /\ cusumPos \in Int
  /\ cusumNeg = SuffixBest(Gains(seen, FALSE), Len(seen)) /\ cusumNeg \in Int
LearningInv == LearnerInv /\ DriftInv /\ rows \in 0 .. DataLimit

\* The gains are numbers, and one more observation adds one.
LEMMA GainsFacts ==
  ASSUME NEW q \in Seq({0, 1}), NEW up \in BOOLEAN
  PROVE  /\ Len(q) \in Nat /\ \A i \in 1 .. Len(q) : Gains(q, up)[i] \in Int
         /\ \A x \in {0, 1} : /\ Gains(Append(q, x), up)[Len(q) + 1] = IF (x = 1) = up THEN 49 ELSE -51
                              /\ \A i \in 1 .. Len(q) : Gains(Append(q, x), up)[i] = Gains(q, up)[i]
                              /\ Append(q, x) \in Seq({0, 1}) /\ Len(Append(q, x)) = Len(q) + 1
<1>1. Len(q) \in Nat /\ DOMAIN q = 1 .. Len(q)
  OBVIOUS
<1>2. \A i \in 1 .. Len(q) : Gains(q, up)[i] = IF (q[i] = 1) = up THEN 49 ELSE -51
  BY <1>1 DEF Gains
<1>3. \A i \in 1 .. Len(q) : Gains(q, up)[i] \in Int
  <2>1. TAKE i \in 1 .. Len(q)
  <2>2. Gains(q, up)[i] = 49 \/ Gains(q, up)[i] = -51
    BY <1>2, Zenon
  <2>3. QED
    BY <2>2
<1>4. ASSUME NEW x \in {0, 1}
      PROVE  /\ Gains(Append(q, x), up)[Len(q) + 1] = IF (x = 1) = up THEN 49 ELSE -51
             /\ \A i \in 1 .. Len(q) : Gains(Append(q, x), up)[i] = Gains(q, up)[i]
             /\ Append(q, x) \in Seq({0, 1}) /\ Len(Append(q, x)) = Len(q) + 1
  <2> DEFINE r == Append(q, x)
             n == Len(q)
  <2>1. /\ r \in Seq({0, 1}) /\ Len(r) = n + 1 /\ DOMAIN r = 1 .. n + 1 /\ r[n + 1] = x
        /\ \A i \in 1 .. n : r[i] = q[i]
    BY <1>1
  <2> HIDE DEF r, n
  <2>2. n \in Nat /\ n = Len(q)
    BY <1>1 DEF n
  <2>3. 1 .. n \subseteq 1 .. n + 1 /\ n + 1 \in 1 .. n + 1
    BY <2>2
  <2>4. \A i \in 1 .. n + 1 : Gains(r, up)[i] = IF (r[i] = 1) = up THEN 49 ELSE -51
    BY <2>1, Zenon DEF Gains
  <2>5. Gains(r, up)[n + 1] = IF (x = 1) = up THEN 49 ELSE -51
    BY <2>1, <2>3, <2>4, Zenon
  <2>6. \A i \in 1 .. n : Gains(r, up)[i] = Gains(q, up)[i]
    <3>1. TAKE i \in 1 .. n
    <3>2. i \in 1 .. n + 1 /\ r[i] = q[i] /\ i \in 1 .. Len(q)
      BY <2>1, <2>2, <2>3
    <3>3. Gains(r, up)[i] = IF (r[i] = 1) = up THEN 49 ELSE -51
      BY <2>4, <3>2
    <3>4. Gains(q, up)[i] = IF (q[i] = 1) = up THEN 49 ELSE -51
      BY <1>2, <3>2
    <3>5. QED
      BY <3>2, <3>3, <3>4, Zenon
  <2>7. QED
    BY <2>1, <2>2, <2>5, <2>6 DEF r
<1>5. QED
  BY <1>1, <1>3, <1>4

\* The learner, the drift and the data begin without observations.
LEMMA LearningBegins == LearningInit => LearningInv
<1> SUFFICES ASSUME LearningInit PROVE LearningInv
  OBVIOUS
<1>1. /\ learned = <<>> /\ alpha = 100 /\ beta = 100 /\ meanPnl = 0 /\ regimeRate = 100
      /\ seen = <<>> /\ cusumPos = 0 /\ cusumNeg = 0 /\ driftConfidence = 100 /\ rows = 0
  BY DEF LearningInit
<1>2. LearnerInv
  BY <1>1 DEF LearnerInv, FirstTradeDecides
<1>3. ASSUME NEW f PROVE SuffixBest(f, 0) = 0
  <2>1. /\ SuffixBest(f, 0) = 0 \/ \E k \in 1 .. 0 : SuffixBest(f, 0) = SumFunctionOnSet(f, k .. 0)
    <3>1. 0 \in Nat /\ \A i \in 1 .. 0 : f[i] \in Int
      OBVIOUS
    <3>2. QED
      BY <3>1, SuffixFacts
  <2>2. 1 .. 0 = {}
    OBVIOUS
  <2>3. QED
    BY <2>1, <2>2, Zenon
<1>4. Len(seen) = 0 /\ seen \in Seq({0, 1})
  BY <1>1
<1>5. DriftInv
  <2>1. SuffixBest(Gains(seen, TRUE), Len(seen)) = 0 /\ SuffixBest(Gains(seen, FALSE), Len(seen)) = 0
    BY <1>3, <1>4, Zenon
  <2>2. cusumPos = SuffixBest(Gains(seen, TRUE), Len(seen)) /\ cusumNeg = SuffixBest(Gains(seen, FALSE), Len(seen))
    BY <1>1, <2>1, Zenon
  <2>3. cusumPos \in Int /\ cusumNeg \in Int /\ driftConfidence \in 10 .. 100
    BY <1>1
  <2>4. QED
    BY <1>4, <2>2, <2>3, Zenon DEF DriftInv
<1>6. rows \in 0 .. DataLimit
  BY <1>1, LearningConstants
<1>7. QED
  BY <1>2, <1>5, <1>6 DEF LearningInv

-----------------------------------------------------------------------------
\* A change of a twentieth at most keeps the sign.
LEMMA MeanKeepsSign ==
  ASSUME meanPnl \in Int, NEW r \in Int, NEW weight \in Int
  PROVE  /\ BoundedMean(r, weight) \in Int
         /\ meanPnl > 0 => BoundedMean(r, weight) > 0
         /\ meanPnl < 0 => BoundedMean(r, weight) < 0
<1> DEFINE m == meanPnl
           new == meanPnl + ((r * 10000 - meanPnl) * weight) \div 100
           size == Size(meanPnl)
           most == IF meanPnl < 0 THEN -(size \div 20) ELSE size \div 20
           by == Size(new - meanPnl)
<1>1. m \in Int /\ new \in Int
  <2> DEFINE p == (r * 10000 - meanPnl) * weight
  <2>1. p \in Int
    OBVIOUS
  <2> HIDE DEF p
  <2>2. p \div 100 \in Int
    BY <2>1
  <2>3. QED
    BY <2>2 DEF p
<1>2. BoundedMean(r, weight) = IF 100 * by <= 5 * size THEN new
                               ELSE IF new > m THEN m + most ELSE m - most
  BY DEF BoundedMean
<1> HIDE DEF new
<1>3. size = (IF m < 0 THEN -m ELSE m) /\ by = (IF new - m < 0 THEN -(new - m) ELSE new - m)
  BY DEF Size
<1> HIDE DEF size, by, m
<1>4. most \in Int /\ -size <= 20 * most /\ 20 * most <= size
  <2>1. size \in Nat
    BY <1>1, <1>3
  <2>2. size \div 20 \in Nat /\ 20 * (size \div 20) <= size
    BY <2>1
  <2> DEFINE d == size \div 20
  <2> HIDE DEF d
  <2>3. d \in Nat /\ 20 * d <= size
    BY <2>2 DEF d
  <2>4. most = d \/ most = -d
    BY DEF d
  <2> HIDE DEF most
  <2>5. QED
    BY <2>1, <2>3, <2>4
<1> HIDE DEF most
<1>5. QED
  BY <1>1, <1>2, <1>3, <1>4 DEF m

\* An update keeps the invariant of the learner.
LEMMA UpdateKeeps ==
  ASSUME LearnerInv, NEW r \in {-1, 1}, NEW adaptive \in BOOLEAN, Update(r, adaptive)
  PROVE  LearnerInv' /\ UNCHANGED <<driftVars, rows>>
<1> DEFINE n == Len(learned)
           weight == IF n + 1 >= MinSamples THEN 10 ELSE 1
           step == IF adaptive THEN regimeRate \div 10 ELSE weight
<1>1. /\ learned' = Append(learned, r)
      /\ alpha' = IF r > 0 THEN alpha + step ELSE alpha
      /\ beta' = IF r > 0 THEN beta ELSE beta + step
      /\ meanPnl' = IF n + 1 = 1 THEN r * 10000 ELSE BoundedMean(r, weight)
      /\ UNCHANGED <<regimeRate, driftVars, rows>>
  BY DEF Update
<1>2. /\ learned \in Seq({-1, 1}) /\ alpha \in Int /\ beta \in Int /\ alpha >= 100 /\ beta >= 100
      /\ meanPnl \in Int /\ regimeRate \in 50 .. 200 /\ FirstTradeDecides
  BY DEF LearnerInv
<1>3. n \in Nat /\ weight \in Int /\ weight >= 0 /\ r \in Int
  BY <1>2
<1>4. step \in Nat
  <2>1. regimeRate \div 10 \in Nat
    BY <1>2
  <2>2. CASE adaptive
    BY <2>1, <2>2
  <2>3. CASE ~ adaptive
    <3>1. step = weight
      BY <2>3
    <3>2. QED
      BY <1>3, <3>1
  <2>4. QED
    BY <2>2, <2>3
<1>5. learned' \in Seq({-1, 1}) /\ learned'[1] = (IF n = 0 THEN r ELSE learned[1])
  BY <1>1, <1>2
<1>6. n # 0 => learned # <<>>
  OBVIOUS
<1> HIDE DEF n, weight, step
<1>7. alpha' \in Int /\ beta' \in Int /\ alpha' >= 100 /\ beta' >= 100
  BY <1>1, <1>2, <1>4
<1>8. /\ BoundedMean(r, weight) \in Int
      /\ meanPnl > 0 => BoundedMean(r, weight) > 0
      /\ meanPnl < 0 => BoundedMean(r, weight) < 0
  BY <1>2, <1>3, MeanKeepsSign
<1>9. meanPnl' \in Int /\ ((learned'[1] = 1 /\ meanPnl' > 0) \/ (learned'[1] = -1 /\ meanPnl' < 0))
  <2>1. CASE n = 0
    <3>1. meanPnl' = r * 10000 /\ learned'[1] = r
      BY <1>1, <1>5, <2>1
    <3>2. r = 1 \/ r = -1
      OBVIOUS
    <3>3. QED
      BY <3>1, <3>2
  <2>2. CASE n # 0
    <3>1. meanPnl' = BoundedMean(r, weight) /\ learned'[1] = learned[1]
      BY <1>1, <1>3, <1>5, <2>2
    <3>2. (learned[1] = 1 /\ meanPnl > 0) \/ (learned[1] = -1 /\ meanPnl < 0)
      BY <1>2, <1>6, <2>2 DEF FirstTradeDecides
    <3>3. QED
      BY <1>8, <3>1, <3>2
  <2>3. QED
    BY <2>1, <2>2
<1>10. FirstTradeDecides'
  BY <1>9 DEF FirstTradeDecides
<1>11. QED
  BY <1>1, <1>2, <1>5, <1>7, <1>9, <1>10 DEF LearnerInv

\* Every step of the learner keeps it.
LEMMA LearnerSteps == ASSUME LearnerInv, LearnerNext PROVE LearnerInv' /\ UNCHANGED <<driftVars, rows>>
<1>1. CASE ResetLearner
  <2>1. learned' = <<>> /\ alpha' = 100 /\ beta' = 100 /\ meanPnl' = 0 /\ UNCHANGED <<regimeRate, driftVars, rows>>
    BY <1>1 DEF ResetLearner
  <2>2. learned' \in Seq({-1, 1})
    BY <2>1
  <2>3. QED
    BY <2>1, <2>2 DEF LearnerInv, FirstTradeDecides
<1>2. ASSUME NEW performance \in Performances, UpdateRegime(performance)
      PROVE  LearnerInv' /\ UNCHANGED <<driftVars, rows>>
  <2> DEFINE s == regimeRate + (performance - 100) \div 10
             t == Min({200, s})
  <2>1. regimeRate' = Max({50, t}) /\ UNCHANGED <<learned, alpha, beta, meanPnl, driftVars, rows>>
    BY <1>2 DEF UpdateRegime
  <2>2. s \in Int
    <3>1. performance \in Int /\ regimeRate \in Int
      BY LearningConstants DEF LearnerInv
    <3>2. (performance - 100) \div 10 \in Int
      BY <3>1
    <3>3. QED
      BY <3>1, <3>2
  <2> HIDE DEF s
  <2>3. t = IF 200 <= s THEN 200 ELSE s
    BY <2>2, TwoNumbers
  <2>4. t \in Int /\ t <= 200
    BY <2>2, <2>3
  <2> HIDE DEF t
  <2>5. Max({50, t}) = IF 50 >= t THEN 50 ELSE t
    BY <2>4, TwoNumbers
  <2>6. regimeRate' \in 50 .. 200
    BY <2>1, <2>4, <2>5
  <2>7. QED
    BY <2>1, <2>6 DEF LearnerInv, FirstTradeDecides
<1>3. QED
  BY <1>1, <1>2, UpdateKeeps DEF LearnerNext

\* An observation keeps the sums of the drift the best suffixes.
LEMMA ObserveKeeps ==
  ASSUME DriftInv, NEW x \in {0, 1}, Observe(x) PROVE DriftInv' /\ UNCHANGED <<learnerVars, rows>>
<1> DEFINE delta == IF x = 1 THEN 50 ELSE -50
           pos == Max({0, cusumPos + delta - 1})
           neg == Max({0, cusumNeg - delta - 1})
           drift == Adwin(Append(seen, x)) \/ Max({pos, neg}) > CusumLimit
           n == Len(seen)
<1>1. /\ seen' = Append(seen, x) /\ cusumPos' = pos /\ cusumNeg' = neg
      /\ driftConfidence' = (IF drift THEN Max({10, (driftConfidence * 95) \div 100})
                             ELSE Min({100, driftConfidence + 1}))
      /\ UNCHANGED <<learnerVars, rows>>
  BY DEF Observe
<1>2. /\ seen \in Seq({0, 1}) /\ driftConfidence \in 10 .. 100
      /\ cusumPos = SuffixBest(Gains(seen, TRUE), n) /\ cusumPos \in Int
      /\ cusumNeg = SuffixBest(Gains(seen, FALSE), n) /\ cusumNeg \in Int
  BY DEF DriftInv
<1>t. seen \in Seq({0, 1}) /\ driftConfidence \in 10 .. 100 /\ cusumPos \in Int /\ cusumNeg \in Int
  BY <1>2, Zenon
<1>3. n \in Nat /\ Len(Append(seen, x)) = n + 1 /\ Append(seen, x) \in Seq({0, 1})
  BY <1>t
<1>4. ASSUME NEW up \in BOOLEAN, NEW e \in Int, e = IF (x = 1) = up THEN 49 ELSE -51
      PROVE  SuffixBest(Gains(Append(seen, x), up), n + 1) = Max({0, SuffixBest(Gains(seen, up), n) + e})
  <2> DEFINE f == Gains(seen, up)
             h == Gains(Append(seen, x), up)
  <2>1. /\ \A i \in 1 .. n : f[i] \in Int
        /\ h[n + 1] = e /\ \A i \in 1 .. n : h[i] = f[i]
    BY <1>2, <1>4, GainsFacts, Zenon
  <2> HIDE DEF f, h
  <2>2. SuffixBest(h, n + 1) = Max({0, SuffixBest(f, n) + e})
    <3>1. n \in Nat /\ e \in Int
      BY <1>3
    <3>2. QED
      BY <2>1, <3>1, SuffixGrows
  <2>3. QED
    BY <2>2 DEF f, h
<1>5. pos = SuffixBest(Gains(seen', TRUE), n + 1) /\ neg = SuffixBest(Gains(seen', FALSE), n + 1)
  <2>1. CASE x = 1
    <3>1. cusumPos + delta - 1 = cusumPos + 49 /\ cusumNeg - delta - 1 = cusumNeg + (-51)
      BY <1>t, <2>1
    <3>2. 49 \in Int /\ -51 \in Int /\ 49 = (IF (x = 1) = TRUE THEN 49 ELSE -51) /\ -51 = (IF (x = 1) = FALSE THEN 49 ELSE -51)
      BY <2>1
    <3>3. /\ SuffixBest(Gains(Append(seen, x), TRUE), n + 1) = Max({0, SuffixBest(Gains(seen, TRUE), n) + 49})
          /\ SuffixBest(Gains(Append(seen, x), FALSE), n + 1) = Max({0, SuffixBest(Gains(seen, FALSE), n) + (-51)})
      BY <1>4, <3>2, Zenon
    <3>4. QED
      BY <1>1, <1>2, <3>1, <3>3, Zenon
  <2>2. CASE x = 0
    <3>1. cusumPos + delta - 1 = cusumPos + (-51) /\ cusumNeg - delta - 1 = cusumNeg + 49
      BY <1>t, <2>2
    <3>2. 49 \in Int /\ -51 \in Int /\ -51 = (IF (x = 1) = TRUE THEN 49 ELSE -51) /\ 49 = (IF (x = 1) = FALSE THEN 49 ELSE -51)
      BY <2>2
    <3>3. /\ SuffixBest(Gains(Append(seen, x), TRUE), n + 1) = Max({0, SuffixBest(Gains(seen, TRUE), n) + (-51)})
          /\ SuffixBest(Gains(Append(seen, x), FALSE), n + 1) = Max({0, SuffixBest(Gains(seen, FALSE), n) + 49})
      BY <1>4, <3>2, Zenon
    <3>4. QED
      BY <1>1, <1>2, <3>1, <3>3, Zenon
  <2>3. QED
    BY <2>1, <2>2
<1>6. pos \in Int /\ neg \in Int
  <2> DEFINE a == cusumPos + delta - 1
             b == cusumNeg - delta - 1
  <2>1. a \in Int /\ b \in Int /\ 0 \in Int
    BY <1>t
  <2> HIDE DEF a, b
  <2>2. Max({0, a}) \in Int /\ Max({0, b}) \in Int
    <3>1. Max({0, a}) = IF 0 >= a THEN 0 ELSE a
      BY <2>1, TwoNumbers
    <3>2. Max({0, b}) = IF 0 >= b THEN 0 ELSE b
      BY <2>1, TwoNumbers
    <3>3. QED
      BY <2>1, <3>1, <3>2
  <2>3. QED
    BY <2>2 DEF a, b
<1> HIDE DEF pos, neg, drift
<1>7. driftConfidence' \in 10 .. 100
  <2> DEFINE c == (driftConfidence * 95) \div 100
  <2>1. c \in 0 .. 100
    BY <1>t
  <2> HIDE DEF c
  <2>2. Max({10, c}) = IF 10 >= c THEN 10 ELSE c
    BY <2>1, TwoNumbers
  <2> DEFINE d == driftConfidence + 1
  <2>3. d \in 11 .. 101
    BY <1>t
  <2>4. driftConfidence' = Max({10, c}) \/ driftConfidence' = Min({100, d})
    BY <1>1, Zenon DEF c
  <2> HIDE DEF d
  <2>5. Min({100, d}) = IF 100 <= d THEN 100 ELSE d
    BY <2>3, TwoNumbers
  <2>6. QED
    BY <2>1, <2>2, <2>3, <2>4, <2>5
<1>8. /\ cusumPos' = SuffixBest(Gains(seen', TRUE), Len(seen'))
      /\ cusumNeg' = SuffixBest(Gains(seen', FALSE), Len(seen'))
  <2>1. Len(seen') = n + 1
    BY <1>1, <1>3, Zenon
  <2>2. QED
    BY <1>1, <1>5, <2>1, Zenon
<1>9. DriftInv'
  BY <1>1, <1>3, <1>6, <1>7, <1>8, Zenon DEF DriftInv
<1>10. QED
  BY <1>1, <1>9

\* Every step of the drift keeps them.
LEMMA DriftSteps == ASSUME DriftInv, DriftNext PROVE DriftInv' /\ UNCHANGED <<learnerVars, rows>>
<1>1. CASE ResetDetector
  <2>1. seen' = <<>> /\ cusumPos' = 0 /\ cusumNeg' = 0 /\ driftConfidence' = 100 /\ UNCHANGED <<learnerVars, rows>>
    BY <1>1 DEF ResetDetector
  <2>2. Len(seen') = 0 /\ seen' \in Seq({0, 1})
    BY <2>1
  <2>3. ASSUME NEW f PROVE SuffixBest(f, 0) = 0
    <3>1. SuffixBest(f, 0) = 0 \/ \E k \in 1 .. 0 : SuffixBest(f, 0) = SumFunctionOnSet(f, k .. 0)
      <4>1. 0 \in Nat /\ \A i \in 1 .. 0 : f[i] \in Int
        OBVIOUS
      <4>2. QED
        BY <4>1, SuffixFacts
    <3>2. 1 .. 0 = {}
      OBVIOUS
    <3>3. QED
      BY <3>1, <3>2, Zenon
  <2>4. SuffixBest(Gains(seen', TRUE), Len(seen')) = 0 /\ SuffixBest(Gains(seen', FALSE), Len(seen')) = 0
    BY <2>2, <2>3, Zenon
  <2>5. /\ cusumPos' = SuffixBest(Gains(seen', TRUE), Len(seen'))
        /\ cusumNeg' = SuffixBest(Gains(seen', FALSE), Len(seen'))
    BY <2>1, <2>4, Zenon
  <2>6. cusumPos' \in Int /\ cusumNeg' \in Int /\ driftConfidence' \in 10 .. 100
    BY <2>1
  <2>7. DriftInv'
    BY <2>2, <2>5, <2>6, Zenon DEF DriftInv
  <2>8. QED
    BY <2>1, <2>7
<1>2. QED
  BY <1>1, ObserveKeeps DEF DriftNext

\* Every step of the part, and none.
LEMMA LearningSteps ==
  ASSUME LearningInv, LearnerNext \/ DriftNext \/ AddData \/ UNCHANGED learningVars PROVE LearningInv'
<1>0. LearnerInv /\ DriftInv /\ rows \in 0 .. DataLimit
  BY DEF LearningInv
<1>1. ASSUME UNCHANGED learnerVars PROVE LearnerInv'
  BY <1>0, <1>1 DEF LearnerInv, FirstTradeDecides, learnerVars
<1>2. ASSUME UNCHANGED driftVars PROVE DriftInv'
  BY <1>0, <1>2 DEF DriftInv, driftVars
<1>3. CASE LearnerNext
  BY <1>0, <1>2, <1>3, LearnerSteps DEF LearningInv
<1>4. CASE DriftNext
  BY <1>0, <1>1, <1>4, DriftSteps DEF LearningInv
<1>5. CASE AddData
  <2>1. rows < DataLimit /\ rows' = rows + 1 /\ UNCHANGED <<learnerVars, driftVars>>
    BY <1>5 DEF AddData
  <2>2. rows' \in 0 .. DataLimit
    BY <1>0, <2>1, LearningConstants
  <2>3. QED
    BY <1>1, <1>2, <2>1, <2>2 DEF LearningInv
<1>6. CASE UNCHANGED learningVars
  BY <1>0, <1>1, <1>2, <1>6 DEF LearningInv, learningVars
<1>7. QED
  BY <1>3, <1>4, <1>5, <1>6

\* What the invariant says of the part.
LEMMA LearningSays ==
  ASSUME LearningInv PROVE LearningTypeOK /\ FirstTradeDecides /\ CusumIsBestSuffix /\ ValidationIsUnseen
<1>0. LearnerInv /\ DriftInv /\ rows \in 0 .. DataLimit
  BY DEF LearningInv
<1>1. LearningTypeOK /\ FirstTradeDecides
  BY <1>0 DEF LearnerInv, DriftInv, LearningTypeOK
<1>2. CusumIsBestSuffix
  <2>1. cusumPos = SuffixBest(Gains(seen, TRUE), Len(seen)) /\ cusumNeg = SuffixBest(Gains(seen, FALSE), Len(seen))
    BY <1>0 DEF DriftInv
  <2>2. QED
    BY <2>1, Zenon DEF CusumIsBestSuffix, SuffixBest, Gains
<1>3. ValidationIsUnseen
  <2> DEFINE k == Kept
             v == ValidationWindow
             o == OosWindow
             all == LearningWindow + ValidationWindow + OosWindow
  <2>1. k \in Nat /\ v \in Nat /\ o \in Nat
    <3>1. rows \in Nat /\ all \in Nat
      BY <1>0, LearningConstants
    <3> HIDE DEF all
    <3>2. Min({rows, all}) = IF rows <= all THEN rows ELSE all
      BY <3>1, TwoNumbers
    <3>3. Min({rows, all}) \in Nat
      BY <3>1, <3>2
    <3>4. k = Min({rows, all})
      BY DEF Kept, all
    <3>5. QED
      BY <3>3, <3>4, LearningConstants
  <2>2. /\ LearningData = (IF k < v THEN 1 .. k ELSE 1 .. (k - v))
        /\ ValidationData = (IF k < v THEN {} ELSE (k - v + 1) .. k)
        /\ OosData = (IF k < v + o THEN {} ELSE (k - v - o + 1) .. (k - v))
    BY DEF LearningData, ValidationData, OosData
  <2> HIDE DEF k, v, o
  <2>3. ValidationData \cap LearningData = {}
    BY <2>1, <2>2
  <2>4. OosData \subseteq LearningData
    BY <2>1, <2>2
  <2>5. QED
    BY <2>3, <2>4 DEF ValidationIsUnseen
<1>4. QED
  BY <1>1, <1>2, <1>3
-----------------------------------------------------------------------------
\* Where a call of an operator is, and what it moves.
CallPoints == [step : {"none", "activate", "fallback", "record"}, of : 0 .. MaxVersions, to : 0 .. MaxVersions]

\* What a suspended call will still do is allowed: what it activates or puts on
\* record passed the gates, and so did what it falls back to.
CallIsSound(c) ==
  /\ c.step \in {"activate", "record"} => c.of \in judged
  /\ c.step = "fallback" => c.to \in judged

\* What is active is in S but for what an abandoned promotion left, and before
\* the first of those all of S is.
OnlyActive(S) ==
  /\ In({"active"}) \subseteq S \cup abandoned
  /\ abandoned = {} => S \subseteq In({"active"})

\* One operator who never rolls back: no version is active between the
\* retirement and the activation, then the new one is, and then it is on record.
QuietCall(c) ==
  /\ c.step # "fallback"
  /\ c.step = "none" => OnlyActive({activeVersion} \ {0})
  /\ c.step = "activate" => OnlyActive({})
  /\ c.step = "record" => OnlyActive({c.of})

LifecycleInv ==
  /\ registry \in Registries
  /\ LifecycleTypeOK
  /\ operation \in [1 .. registry.callers -> CallPoints]
  /\ OnlyJudgedTrade
  /\ \A k \in 1 .. registry.callers : CallIsSound(operation[k])
  /\ (registry.callers = 1 /\ ~registry.rollbacks) => QuietCall(operation[1])

ModelStates == {"none", "candidate", "validated", "shadow", "canary", "active", "retired"}
Trading == {"validated", "shadow", "canary", "active"}
LearnerPoints == [step : {"idle", "updating"}, of : {0}]
                 \cup [step : {"registering", "validated", "shadowed"}, of : Versions]

\* The registry begins without versions and calls.
LEMMA LifecycleBegins == LifecycleInit => LifecycleInv
<1> SUFFICES ASSUME LifecycleInit PROVE LifecycleInv
  OBVIOUS
<1>1. /\ registry \in Registries /\ modelState = [v \in Versions |-> "none"] /\ activeVersion = 0
      /\ operation = [c \in 1 .. registry.callers |-> NoCall] /\ judged = {}
      /\ learner = Idle /\ abandoned = {}
  BY DEF LifecycleInit
<1>2. MaxVersions \in Nat /\ registry.callers \in Nat
  BY <1>1, LifecycleConstants
<1>3. NoCall \in CallPoints /\ NoCall.step = "none"
  BY <1>2 DEF NoCall, CallPoints
<1>4. LifecycleTypeOK
  BY <1>1, <1>2 DEF LifecycleTypeOK, Idle
<1>5. \A S : "none" \notin S => In(S) = {}
  BY <1>1 DEF In
<1>6. OnlyJudgedTrade
  BY <1>5 DEF OnlyJudgedTrade
<1>7. \A k \in 1 .. registry.callers : operation[k] = NoCall
  BY <1>1
<1>8. \A k \in 1 .. registry.callers : CallIsSound(operation[k])
  BY <1>7, <1>3 DEF CallIsSound
<1>9. ASSUME registry.callers = 1 PROVE QuietCall(operation[1])
  <2>1. operation[1] = NoCall
    BY <1>7, <1>9
  <2>2. In({"active"}) = {} /\ {activeVersion} \ {0} = {}
    BY <1>5, <1>1
  <2>3. QED
    BY <2>1, <2>2, <1>3 DEF QuietCall, OnlyActive
<1>10. QED
  BY <1>1, <1>3, <1>4, <1>6, <1>8, <1>9 DEF LifecycleInv

\* What the invariant says of the states of the versions, point by point.
LEMMA LifecycleParts ==
  ASSUME LifecycleInv
  PROVE  /\ MaxVersions \in Nat /\ registry.callers \in Nat /\ registry.rollbacks \in BOOLEAN
         /\ modelState \in [Versions -> ModelStates] /\ judged \in SUBSET Versions
         /\ activeVersion \in 0 .. MaxVersions
         /\ learner \in LearnerPoints
         /\ \A v \in Versions : modelState[v] \in Trading => v \in judged
         /\ operation \in [1 .. registry.callers -> CallPoints]
         /\ \A k \in 1 .. registry.callers : operation[k] \in CallPoints /\ CallIsSound(operation[k])
         /\ (registry.callers = 1 /\ ~registry.rollbacks) => QuietCall(operation[1])
<1>1. registry \in Registries
  BY DEF LifecycleInv
<1>2. MaxVersions \in Nat /\ registry.callers \in Nat /\ registry.rollbacks \in BOOLEAN
  BY <1>1, LifecycleConstants
<1>3. modelState \in [Versions -> ModelStates] /\ judged \in SUBSET Versions /\ activeVersion \in 0 .. MaxVersions
      /\ learner \in LearnerPoints
  BY DEF LifecycleInv, LifecycleTypeOK, ModelStates, LearnerPoints
<1>4. ASSUME NEW v \in Versions, modelState[v] \in Trading
      PROVE  v \in judged
  BY <1>4 DEF LifecycleInv, OnlyJudgedTrade, In, Trading
<1>5. /\ operation \in [1 .. registry.callers -> CallPoints]
      /\ \A k \in 1 .. registry.callers : CallIsSound(operation[k])
      /\ (registry.callers = 1 /\ ~registry.rollbacks) => QuietCall(operation[1])
  BY DEF LifecycleInv
<1>6. \A k \in 1 .. registry.callers : operation[k] \in CallPoints
  BY <1>5
<1>7. QED
  BY <1>2, <1>3, <1>4, <1>5, <1>6

\* What the handler of a fill may do to the versions: one that is not active
\* changes its state, and trades only if it was judged.
Judging ==
  /\ modelState' \in [Versions -> ModelStates] /\ judged' \in SUBSET Versions /\ judged \subseteq judged'
  /\ learner' \in LearnerPoints
  /\ \A v \in Versions : \/ modelState'[v] = modelState[v]
                         \/ /\ modelState[v] # "active" /\ modelState'[v] # "active"
                            /\ modelState'[v] \in Trading => v \in judged'

\* Whatever it does of that keeps the invariant.
LEMMA JudgingKeeps ==
  ASSUME LifecycleInv, Judging, UNCHANGED <<registry, activeVersion, operation, abandoned>>
  PROVE  LifecycleInv'
<1>1. ASSUME NEW v \in Versions, modelState'[v] \in Trading PROVE v \in judged'
  <2>1. CASE modelState'[v] = modelState[v]
    BY <1>1, <2>1, LifecycleParts DEF Judging
  <2>2. CASE modelState'[v] # modelState[v]
    BY <1>1, <2>2 DEF Judging
  <2>3. QED
    BY <2>1, <2>2
<1>2. In({"active"})' = In({"active"})
  <2>1. ASSUME NEW v \in Versions PROVE modelState'[v] = "active" <=> modelState[v] = "active"
    BY DEF Judging
  <2>2. QED
    BY <2>1 DEF In
<1>3. OnlyJudgedTrade'
  BY <1>1 DEF OnlyJudgedTrade, In, Trading
<1>4. LifecycleTypeOK'
  BY LifecycleParts DEF LifecycleTypeOK, ModelStates, LearnerPoints, Judging
<1>5. \A k \in 1 .. registry.callers : CallIsSound(operation[k])'
  BY LifecycleParts DEF CallIsSound, Judging
<1>6. (registry.callers = 1 /\ ~registry.rollbacks) => QuietCall(operation[1])'
  BY <1>2, LifecycleParts DEF QuietCall, OnlyActive
<1>7. QED
  BY <1>3, <1>4, <1>5, <1>6, LifecycleParts DEF LifecycleInv

\* A version goes where it trades only with its judgement, or where it does not.
LEMMA VersionMoves ==
  ASSUME LifecycleInv, NEW v \in Versions, NEW s \in ModelStates \ {"active"}, modelState[v] # "active",
         modelState' = [modelState EXCEPT ![v] = s], learner' \in LearnerPoints,
         judged' \in SUBSET Versions, judged \subseteq judged', s \in Trading => v \in judged'
  PROVE  Judging
<1>1. /\ modelState' \in [Versions -> ModelStates]
      /\ modelState'[v] = s /\ \A u \in Versions \ {v} : modelState'[u] = modelState[u]
  BY LifecycleParts
<1>2. QED
  BY <1>1 DEF Judging

\* The first version in a state is in that state.
LEMMA FirstIn ==
  ASSUME LifecycleInv, NEW s \in ModelStates, In({s}) # {}
  PROVE  Min(In({s})) \in Versions /\ modelState[Min(In({s}))] = s
<1>1. MaxVersions \in Nat
  BY LifecycleParts
<1>2. In({s}) \in SUBSET (1 .. MaxVersions) /\ IsFiniteSet(1 .. MaxVersions)
  BY <1>1, UpToN DEF In, Versions
<1>3. In({s}) \in SUBSET Int /\ IsFiniteSet(In({s}))
  <2>1. IsFiniteSet(In({s}))
    BY <1>2, FS_Subset
  <2>2. 1 .. MaxVersions \subseteq Int
    BY <1>1
  <2>3. QED
    BY <1>2, <2>1, <2>2, Zenon
<1>4. Min(In({s})) \in In({s})
  BY <1>3, Extremes
<1>5. QED
  BY <1>4 DEF In

\* Nothing moves but the handler.
LEMMA OnlyHandlerMoves ==
  ASSUME LifecycleInv, UNCHANGED <<modelState, judged>>, learner' \in LearnerPoints
  PROVE  Judging
BY LifecycleParts DEF Judging

\* A pipeline puts the next candidate it judges among the validated.
LEMMA JudgeMoves ==
  ASSUME LifecycleInv, NEW open, Judge(open)
  PROVE  Judging
<1> DEFINE waiting == IF open THEN In({"candidate"}) ELSE {}
<1>1. waiting # {} => waiting = In({"candidate"})
  OBVIOUS
<1>2. /\ waiting = {} => learner' = Idle /\ UNCHANGED <<modelState, judged>>
      /\ waiting # {} => /\ modelState' = [modelState EXCEPT ![Min(waiting)] = "validated"]
                         /\ judged' = judged \cup {Min(waiting)}
                         /\ learner' = [step |-> "validated", of |-> Min(waiting)]
  BY Zenon DEF Judge
<1> HIDE DEF waiting
<1>3. CASE waiting = {}
  BY <1>2, <1>3, OnlyHandlerMoves DEF LearnerPoints, Idle
<1>4. CASE waiting # {}
  <2> DEFINE v == Min(waiting)
  <2>1. waiting = In({"candidate"}) /\ "candidate" \in ModelStates
    BY <1>1, <1>4 DEF ModelStates
  <2>2. v \in Versions /\ modelState[v] = "candidate"
    BY <2>1, <1>4, FirstIn
  <2> HIDE DEF v
  <2>3. /\ modelState' = [modelState EXCEPT ![v] = "validated"] /\ judged' = judged \cup {v}
        /\ learner' = [step |-> "validated", of |-> v]
    BY <1>2, <1>4 DEF v
  <2>4. learner' \in LearnerPoints /\ judged' \in SUBSET Versions /\ "validated" \in ModelStates \ {"active"}
    BY <2>2, <2>3, LifecycleParts DEF LearnerPoints, ModelStates
  <2>5. QED
    BY <2>2, <2>3, <2>4, VersionMoves
<1>5. QED
  BY <1>3, <1>4

\* A fill that is counted may start a pipeline.
LEMMA CountMoves ==
  ASSUME LifecycleInv, NEW open, CountTrade(open)
  PROVE  Judging
<1>1. CASE sinceValidation + 1 < ValidationTrades
  <2>1. learner' = Idle /\ UNCHANGED <<modelState, judged>>
    BY <1>1 DEF CountTrade
  <2>2. QED
    BY <2>1, OnlyHandlerMoves DEF LearnerPoints, Idle
<1>2. CASE ~(sinceValidation + 1 < ValidationTrades)
  BY <1>2, JudgeMoves DEF CountTrade
<1>3. QED
  BY <1>1, <1>2

\* The steps of the handler keep the invariant.
LEMMA OutcomeKeeps ==
  ASSUME LifecycleInv,
         (\E pnl \in BOOLEAN : ProcessOutcome(pnl)) \/ UpdateModels \/ LearnerResumes \/ LearnerFails
  PROVE  LifecycleInv'
<1>1. UNCHANGED <<registry, activeVersion, operation, abandoned>>
  BY DEF ProcessOutcome, UpdateModels, LearnerResumes, LearnerFails, registryVars
<1>2. ASSUME NEW pnl \in BOOLEAN, ProcessOutcome(pnl) PROVE Judging
  <2>1. CASE trades + 1 >= MinTrades
    <3>1. learner' = [step |-> "updating", of |-> 0] /\ UNCHANGED <<modelState, judged>>
      BY <1>2, <2>1 DEF ProcessOutcome
    <3>2. QED
      BY <3>1, OnlyHandlerMoves DEF LearnerPoints
  <2>2. CASE ~(trades + 1 >= MinTrades)
    <3>1. CountTrade(GatesOpen')
      BY <1>2, <2>2 DEF ProcessOutcome
    <3>2. QED
      BY <3>1, CountMoves
  <2>3. QED
    BY <2>1, <2>2
<1>3. ASSUME UpdateModels PROVE Judging
  <2>1. CASE modelVersion' = 0 /\ In({"none"}) # {}
    <3> DEFINE v == Min(In({"none"}))
    <3>1. v \in Versions /\ modelState[v] = "none"
      BY <2>1, FirstIn DEF ModelStates
    <3>2. /\ modelState' = [modelState EXCEPT ![v] = "candidate"] /\ judged' = judged
          /\ learner' = [step |-> "registering", of |-> v]
      BY <1>3, <2>1 DEF UpdateModels
    <3> HIDE DEF v
    <3>3. /\ learner' \in LearnerPoints /\ judged' \in SUBSET Versions
          /\ "candidate" \in ModelStates \ {"active"} /\ "candidate" \notin Trading
      BY <3>1, <3>2, LifecycleParts DEF LearnerPoints, ModelStates, Trading
    <3>4. QED
      BY <3>1, <3>2, <3>3, VersionMoves
  <2>2. CASE ~(modelVersion' = 0 /\ In({"none"}) # {})
    BY <1>3, <2>2, CountMoves DEF UpdateModels
  <2>3. QED
    BY <2>1, <2>2
<1>4. ASSUME LearnerResumes PROVE Judging
  <2>1. CASE learner.step = "registering" /\ CountTrade(GatesOpen)
    BY <2>1, CountMoves
  <2>2. CASE learner.step = "validated" /\ modelState[learner.of] = "validated" /\ ~Judge(GatesOpen)
    <3> DEFINE v == learner.of
    <3>1. v \in Versions
      BY <2>2, LifecycleParts DEF LearnerPoints
    <3>2. /\ modelState' = [modelState EXCEPT ![v] = "shadow"] /\ judged' = judged
          /\ learner' = [learner EXCEPT !.step = "shadowed"]
      BY <1>4, <2>2 DEF LearnerResumes
    <3>3. learner' = [step |-> "shadowed", of |-> v]
      BY <3>2, LifecycleParts DEF LearnerPoints
    <3>4. modelState[v] = "validated"
      BY <2>2
    <3> HIDE DEF v
    <3>5. /\ learner' \in LearnerPoints /\ judged' \in SUBSET Versions /\ v \in judged'
          /\ "shadow" \in ModelStates \ {"active"}
      <4>1. learner' \in LearnerPoints
        BY <3>1, <3>3, Zenon DEF LearnerPoints
      <4>2. judged' \in SUBSET Versions
        BY <3>2, LifecycleParts
      <4>3. v \in judged'
        BY <3>1, <3>2, <3>4, LifecycleParts DEF Trading
      <4>4. QED
        BY <4>1, <4>2, <4>3 DEF ModelStates
    <3>6. QED
      BY <3>1, <3>2, <3>4, <3>5, VersionMoves
  <2>3. CASE Judge(GatesOpen)
    BY <2>3, JudgeMoves
  <2>4. QED
    BY <1>4, <2>1, <2>2, <2>3 DEF LearnerResumes
<1>5. ASSUME LearnerFails PROVE Judging
  <2>1. learner' = Idle /\ UNCHANGED <<modelState, judged>>
    BY <1>5 DEF LearnerFails, registryVars
  <2>2. QED
    BY <2>1, OnlyHandlerMoves DEF LearnerPoints, Idle
<1>6. Judging
  BY <1>2, <1>3, <1>4, <1>5
<1>7. QED
  BY <1>1, <1>6, JudgingKeeps

\* One version changes its state.
LEMMA StateMoves ==
  ASSUME LifecycleInv, NEW v \in Versions, NEW s \in ModelStates,
         modelState' = [modelState EXCEPT ![v] = s], UNCHANGED <<judged, registry, learner>>,
         activeVersion' \in 0 .. MaxVersions,
         s \in Trading => v \in judged
  PROVE  /\ LifecycleTypeOK' /\ OnlyJudgedTrade'
         /\ In({"active"})' = IF s = "active" THEN In({"active"}) \cup {v} ELSE In({"active"}) \ {v}
<1>1. /\ modelState' \in [Versions -> ModelStates]
      /\ modelState'[v] = s /\ \A u \in Versions \ {v} : modelState'[u] = modelState[u]
  BY LifecycleParts
<1>2. LifecycleTypeOK'
  BY <1>1, LifecycleParts DEF LifecycleTypeOK, ModelStates, LearnerPoints
<1>3. ASSUME NEW u \in Versions, modelState'[u] \in Trading PROVE u \in judged'
  BY <1>1, <1>3, LifecycleParts
<1>4. OnlyJudgedTrade'
  BY <1>3 DEF OnlyJudgedTrade, In, Trading
<1>5. In({"active"})' = IF s = "active" THEN In({"active"}) \cup {v} ELSE In({"active"}) \ {v}
  <2>1. CASE s = "active"
    BY <1>1, <2>1 DEF In
  <2>2. CASE s # "active"
    BY <1>1, <2>2 DEF In
  <2>3. QED
    BY <2>1, <2>2
<1>6. QED
  BY <1>2, <1>4, <1>5

\* One call moves on.
LEMMA CallMoves ==
  ASSUME LifecycleInv, NEW c \in 1 .. registry.callers, NEW r \in CallPoints,
         operation' = [operation EXCEPT ![c] = r], UNCHANGED <<judged, registry>>, CallIsSound(r)
  PROVE  /\ operation' \in [1 .. registry.callers -> CallPoints]
         /\ \A k \in 1 .. registry.callers : CallIsSound(operation[k])'
         /\ registry.callers = 1 => c = 1 /\ operation'[1] = r
<1>1. /\ operation' \in [1 .. registry.callers -> CallPoints]
      /\ operation'[c] = r /\ \A k \in 1 .. registry.callers : k # c => operation'[k] = operation[k]
  BY LifecycleParts
<1>2. ASSUME NEW k \in 1 .. registry.callers PROVE CallIsSound(operation[k])'
  BY <1>1, LifecycleParts DEF CallIsSound
<1>3. registry.callers = 1 => c = 1
  BY LifecycleParts
<1>4. QED
  BY <1>1, <1>2, <1>3

\* A shadow and a canary come from where the gates put them.
LEMMA CanaryKeeps ==
  ASSUME LifecycleInv, NEW c \in 1 .. registry.callers, NEW v \in Versions,
         DeployShadow(c, v) \/ DeployCanary(c, v)
  PROVE  LifecycleInv'
<1>1. PICK s \in {"shadow", "canary"} : modelState' = [modelState EXCEPT ![v] = s]
  BY DEF DeployShadow, DeployCanary
<1>2. /\ modelState[v] \in {"validated", "shadow"}
      /\ UNCHANGED <<registry, activeVersion, operation, abandoned, judged, learner>>
  BY DEF DeployShadow, DeployCanary, judgeVars
<1>3. v \in judged /\ s \in ModelStates \ {"active"} /\ judged \in SUBSET Versions /\ learner \in LearnerPoints
  BY <1>1, <1>2, LifecycleParts DEF ModelStates, Trading
<1>4. modelState[v] # "active"
  BY <1>2
<1>5. Judging
  BY <1>1, <1>2, <1>3, <1>4, VersionMoves
<1>6. QED
  BY <1>2, <1>5, JudgingKeeps

\* A promotion retires the version on record, or activates at once.
LEMMA PromoteKeeps ==
  ASSUME LifecycleInv, NEW c \in 1 .. registry.callers, NEW v \in Versions, Promote(c, v)
  PROVE  LifecycleInv'
<1> DEFINE w == IF activeVersion # 0 THEN activeVersion ELSE v
           s == IF activeVersion # 0 THEN "retired" ELSE "active"
           r == [step |-> IF activeVersion # 0 THEN "activate" ELSE "record", of |-> v, to |-> 0]
<1>1. /\ operation[c] = NoCall /\ modelState[v] = "canary"
      /\ modelState' = [modelState EXCEPT ![w] = s] /\ operation' = [operation EXCEPT ![c] = r]
      /\ registry' = registry /\ activeVersion' = activeVersion /\ judged' = judged
      /\ learner' = learner /\ abandoned' = abandoned
  <2>1. CASE activeVersion # 0
    BY <2>1 DEF Promote, Begins, judgeVars
  <2>2. CASE activeVersion = 0
    BY <2>2 DEF Promote, Begins, judgeVars
  <2>3. QED
    BY <2>1, <2>2
<1>2. v \in judged /\ MaxVersions \in Nat /\ activeVersion \in 0 .. MaxVersions /\ v \in 1 .. MaxVersions
  BY <1>1, LifecycleParts DEF Versions, Trading
<1>3. w \in Versions /\ s \in ModelStates /\ r \in CallPoints
  BY <1>2 DEF Versions, ModelStates, CallPoints
<1>4. CallIsSound(r)
  BY <1>2 DEF CallIsSound
<1>5. s \in Trading => w \in judged
  BY <1>2 DEF Trading
<1>6. /\ LifecycleTypeOK' /\ OnlyJudgedTrade'
      /\ In({"active"})' = IF s = "active" THEN In({"active"}) \cup {w} ELSE In({"active"}) \ {w}
  <2> HIDE DEF w, s
  <2>1. QED
    BY <1>1, <1>2, <1>3, <1>5, StateMoves
<1>7. /\ operation' \in [1 .. registry.callers -> CallPoints]
      /\ \A k \in 1 .. registry.callers : CallIsSound(operation[k])'
      /\ registry.callers = 1 => c = 1 /\ operation'[1] = r
  <2> HIDE DEF r
  <2>1. QED
    BY <1>1, <1>3, <1>4, CallMoves
<1>8. ASSUME registry.callers = 1, ~registry.rollbacks PROVE QuietCall(operation[1])'
  <2>1. c = 1 /\ operation'[1] = r
    BY <1>7, <1>8
  <2>2. OnlyActive({activeVersion} \ {0})
    BY <2>1, <1>1, <1>8, LifecycleParts DEF QuietCall, NoCall
  <2>3. CASE activeVersion # 0
    <3>1. OnlyActive({})' /\ r.step = "activate"
      BY <1>1, <1>6, <2>2, <2>3 DEF OnlyActive
    <3>2. QED
      BY <2>1, <3>1 DEF QuietCall
  <2>4. CASE activeVersion = 0
    <3>1. OnlyActive({v})' /\ r.step = "record" /\ r.of = v
      BY <1>1, <1>6, <2>2, <2>4 DEF OnlyActive
    <3>2. QED
      BY <2>1, <3>1 DEF QuietCall
  <2>5. QED
    BY <2>3, <2>4
<1>9. registry' \in Registries
  BY <1>1 DEF LifecycleInv
<1>10. QED
  BY <1>1, <1>6, <1>7, <1>8, <1>9 DEF LifecycleInv

\* A rollback falls back to a version that trades.
LEMMA RollbackKeeps ==
  ASSUME LifecycleInv, NEW c \in 1 .. registry.callers, NEW v \in Versions, Rollback(c, v)
  PROVE  LifecycleInv'
<1> DEFINE earlier == {u \in In({"canary", "shadow"}) : u < v}
           r == [step |-> "fallback", of |-> v, to |-> Max(earlier)]
<1>1. /\ registry.rollbacks /\ earlier # {}
      /\ modelState' = [modelState EXCEPT ![v] = "retired"] /\ operation' = [operation EXCEPT ![c] = r]
      /\ registry' = registry /\ activeVersion' = activeVersion /\ judged' = judged
      /\ learner' = learner
  BY DEF Rollback, judgeVars
<1>2. MaxVersions \in Nat /\ activeVersion \in 0 .. MaxVersions /\ v \in 1 .. MaxVersions
  BY LifecycleParts DEF Versions
<1>3. Max(earlier) \in earlier
  <2>1. earlier \in SUBSET (1 .. MaxVersions) /\ IsFiniteSet(1 .. MaxVersions)
    BY <1>2, UpToN DEF In, Versions
  <2> HIDE DEF earlier
  <2>2. IsFiniteSet(earlier)
    BY <2>1, FS_Subset
  <2>i. earlier \in SUBSET Int
    BY <1>2, <2>1
  <2>3. QED
    BY <1>1, <2>2, <2>i, Extremes
<1>4. ASSUME NEW u \in earlier PROVE u \in judged /\ u \in 0 .. MaxVersions
  BY <1>2, LifecycleParts DEF In, Versions, Trading
<1>5. Max(earlier) \in judged /\ Max(earlier) \in 0 .. MaxVersions
  BY <1>3, <1>4
<1> HIDE DEF earlier
<1>6. r \in CallPoints /\ CallIsSound(r)
  BY <1>2, <1>5 DEF CallPoints, CallIsSound
<1> HIDE DEF r
<1>7. LifecycleTypeOK' /\ OnlyJudgedTrade'
  BY <1>1, <1>2, StateMoves DEF ModelStates, Trading
<1>8. /\ operation' \in [1 .. registry.callers -> CallPoints]
      /\ \A k \in 1 .. registry.callers : CallIsSound(operation[k])'
  BY <1>1, <1>6, CallMoves
<1>9. registry' \in Registries /\ registry'.rollbacks
  BY <1>1 DEF LifecycleInv
<1>10. QED
  BY <1>1, <1>7, <1>8, <1>9 DEF LifecycleInv

\* A suspended call does what it was going to do.
LEMMA ResumeKeeps ==
  ASSUME LifecycleInv, NEW c \in 1 .. registry.callers, Resume(c)
  PROVE  LifecycleInv'
<1> DEFINE o == operation[c]
<1>1. registry' = registry /\ judged' = judged /\ learner' = learner /\ abandoned' = abandoned
  BY DEF Resume, judgeVars
<1>2. /\ o \in CallPoints /\ CallIsSound(o) /\ MaxVersions \in Nat /\ activeVersion \in 0 .. MaxVersions
      /\ judged \in SUBSET Versions
  BY LifecycleParts
<1>3. /\ o.of \in 0 .. MaxVersions /\ o.to \in 0 .. MaxVersions
      /\ o.step \in {"activate", "record"} => o.of \in judged /\ o.of \in Versions
      /\ o.step = "fallback" => o.to \in judged /\ o.to \in Versions
  BY <1>2 DEF CallPoints, CallIsSound
<1>4. CASE o.step = "activate"
  <2> DEFINE r == [o EXCEPT !.step = "record"]
             v == o.of
  <2>1. /\ modelState' = [modelState EXCEPT ![v] = "active"] /\ operation' = [operation EXCEPT ![c] = r]
        /\ activeVersion' = activeVersion
    BY <1>4 DEF Resume
  <2>2. v \in judged /\ v \in Versions
    BY <1>3, <1>4
  <2>3. r \in CallPoints /\ CallIsSound(r) /\ r.step = "record" /\ r.of = v
    BY <1>2, <2>2 DEF CallPoints, CallIsSound
  <2> HIDE DEF r, v
  <2>4. LifecycleTypeOK' /\ OnlyJudgedTrade' /\ In({"active"})' = In({"active"}) \cup {v}
    BY <1>1, <1>2, <2>1, <2>2, StateMoves DEF ModelStates
  <2>5. /\ operation' \in [1 .. registry.callers -> CallPoints]
        /\ \A k \in 1 .. registry.callers : CallIsSound(operation[k])'
        /\ registry.callers = 1 => c = 1 /\ operation'[1] = r
    BY <1>1, <2>1, <2>3, CallMoves
  <2>6. ASSUME registry.callers = 1, ~registry.rollbacks PROVE QuietCall(operation[1])'
    <3>1. c = 1 /\ operation'[1] = r
      BY <2>5, <2>6
    <3>2. OnlyActive({})
      BY <3>1, <1>4, <2>6, LifecycleParts DEF QuietCall
    <3>3. /\ In({"active"})' \subseteq {v} \cup abandoned'
          /\ abandoned' = {} => {v} \subseteq In({"active"})'
      <4>1. In({"active"}) \subseteq {} \cup abandoned
        BY <3>2 DEF OnlyActive
      <4> DEFINE before == In({"active"})
                 after == In({"active"})'
      <4>2. before \subseteq {} \cup abandoned /\ after = before \cup {v} /\ abandoned' = abandoned
        BY <1>1, <2>4, <4>1
      <4> HIDE DEF before, after
      <4>3. after \subseteq {v} \cup abandoned' /\ (abandoned' = {} => {v} \subseteq after)
        BY <4>2
      <4>4. QED
        BY <4>3 DEF after
    <3>4. operation'[1].step = "record" /\ operation'[1].of = v
      BY <3>1, <2>3
    <3>5. QED
      BY <3>3, <3>4 DEF QuietCall, OnlyActive
  <2>7. registry' \in Registries
    BY <1>1 DEF LifecycleInv
  <2>8. QED
    BY <1>1, <2>4, <2>5, <2>6, <2>7 DEF LifecycleInv
<1>5. CASE o.step = "fallback"
  <2> DEFINE r == [step |-> "record", of |-> o.to, to |-> 0]
             v == o.to
  <2>1. /\ modelState' = [modelState EXCEPT ![v] = "canary"] /\ operation' = [operation EXCEPT ![c] = r]
        /\ activeVersion' = activeVersion
    BY <1>5 DEF Resume
  <2>2. v \in judged /\ v \in Versions
    BY <1>3, <1>5
  <2>3. r \in CallPoints /\ CallIsSound(r)
    BY <1>2, <1>3, <2>2 DEF CallPoints, CallIsSound
  <2> HIDE DEF r, v
  <2>4. LifecycleTypeOK' /\ OnlyJudgedTrade'
    BY <1>1, <1>2, <2>1, <2>2, StateMoves DEF ModelStates
  <2>5. /\ operation' \in [1 .. registry.callers -> CallPoints]
        /\ \A k \in 1 .. registry.callers : CallIsSound(operation[k])'
    BY <1>1, <2>1, <2>3, CallMoves
  <2>6. ~(registry.callers = 1 /\ ~registry.rollbacks)
    <3>1. SUFFICES ASSUME registry.callers = 1, ~registry.rollbacks PROVE FALSE
      OBVIOUS
    <3>2. c = 1 /\ QuietCall(operation[1])
      BY <3>1, LifecycleParts
    <3>3. QED
      BY <3>2, <1>5 DEF QuietCall
  <2>7. registry' \in Registries
    BY <1>1 DEF LifecycleInv
  <2>8. QED
    BY <1>1, <2>4, <2>5, <2>6, <2>7 DEF LifecycleInv
<1>6. CASE o.step = "record"
  <2>1. /\ activeVersion' = o.of /\ operation' = [operation EXCEPT ![c] = NoCall] /\ modelState' = modelState
    BY <1>6 DEF Resume
  <2>2. o.of \in judged /\ o.of \in Versions
    BY <1>3, <1>6
  <2>3. NoCall \in CallPoints /\ CallIsSound(NoCall) /\ NoCall.step = "none"
    BY <1>2 DEF CallPoints, CallIsSound, NoCall
  <2>4. LifecycleTypeOK' /\ OnlyJudgedTrade' /\ In({"active"})' = In({"active"})
    <3>1. LifecycleTypeOK /\ OnlyJudgedTrade
      BY DEF LifecycleInv
    <3>2. LifecycleTypeOK'
      BY <1>1, <1>3, <2>1, <3>1 DEF LifecycleTypeOK
    <3>3. OnlyJudgedTrade' /\ In({"active"})' = In({"active"})
      BY <1>1, <2>1, <3>1 DEF OnlyJudgedTrade, In
    <3>4. QED
      BY <3>2, <3>3
  <2> HIDE DEF NoCall
  <2>5. /\ operation' \in [1 .. registry.callers -> CallPoints]
        /\ \A k \in 1 .. registry.callers : CallIsSound(operation[k])'
        /\ registry.callers = 1 => c = 1 /\ operation'[1] = NoCall
    BY <1>1, <2>1, <2>3, CallMoves
  <2>6. ASSUME registry.callers = 1, ~registry.rollbacks PROVE QuietCall(operation[1])'
    <3>1. c = 1 /\ operation'[1] = NoCall
      BY <2>5, <2>6
    <3>2. OnlyActive({o.of})
      BY <3>1, <1>6, <2>6, LifecycleParts DEF QuietCall
    <3>3. {activeVersion'} \ {0} = {o.of}
      BY <2>1, <2>2, <1>2 DEF Versions
    <3>4. OnlyActive({activeVersion} \ {0})'
      BY <1>1, <2>4, <3>2, <3>3 DEF OnlyActive
    <3>5. QED
      BY <3>1, <3>4, <2>3 DEF QuietCall
  <2>7. registry' \in Registries
    BY <1>1 DEF LifecycleInv
  <2>8. QED
    BY <1>1, <2>4, <2>5, <2>6, <2>7 DEF LifecycleInv
<1>7. QED
  BY <1>4, <1>5, <1>6 DEF Resume

\* A call that is cut short leaves the versions as they are.
LEMMA AbandonKeeps ==
  ASSUME LifecycleInv, NEW c \in 1 .. registry.callers, Abandon(c)
  PROVE  LifecycleInv'
<1> DEFINE o == operation[c]
<1>1. /\ UNCHANGED <<registry, modelState, activeVersion, judged, learner>> /\ o.step # "none"
      /\ operation' = [operation EXCEPT ![c] = NoCall] /\ abandoned' = abandoned \cup {o.of}
  BY DEF Abandon, judgeVars
<1>2. NoCall \in CallPoints /\ CallIsSound(NoCall) /\ NoCall.step = "none" /\ o \in CallPoints
  BY LifecycleParts DEF CallPoints, CallIsSound, NoCall
<1>3. LifecycleTypeOK' /\ OnlyJudgedTrade' /\ In({"active"})' = In({"active"}) /\ registry' \in Registries
  BY <1>1 DEF LifecycleInv, LifecycleTypeOK, OnlyJudgedTrade, In
<1> HIDE DEF NoCall
<1>4. /\ operation' \in [1 .. registry.callers -> CallPoints]
      /\ \A k \in 1 .. registry.callers : CallIsSound(operation[k])'
      /\ registry.callers = 1 => c = 1 /\ operation'[1] = NoCall
  BY <1>1, <1>2, CallMoves
<1>5. ASSUME registry.callers = 1, ~registry.rollbacks PROVE QuietCall(operation[1])'
  <2>1. c = 1 /\ operation'[1] = NoCall /\ QuietCall(o)
    BY <1>4, <1>5, LifecycleParts
  <2>2. In({"active"}) \subseteq {o.of} \cup abandoned
    BY <1>1, <1>2, <2>1 DEF QuietCall, OnlyActive, CallPoints
  <2>3. OnlyActive({activeVersion} \ {0})'
    BY <1>1, <1>3, <2>2 DEF OnlyActive
  <2>4. QED
    BY <2>1, <2>3, <1>2 DEF QuietCall
<1>6. QED
  BY <1>1, <1>3, <1>4, <1>5 DEF LifecycleInv

\* Every step of the registry and its operators keeps the invariant.
LEMMA LifecycleSteps ==
  ASSUME LifecycleInv, LifecycleNext \/ UNCHANGED lifecycleVars
  PROVE  LifecycleInv'
<1>1. CASE UNCHANGED lifecycleVars
  <2>1. /\ UNCHANGED <<registry, modelState, activeVersion, operation, abandoned, judged, learner>>
    BY <1>1 DEF lifecycleVars, registryVars, judgeVars
  <2>2. Judging
    BY <2>1, LifecycleParts, OnlyHandlerMoves
  <2>3. QED
    BY <2>1, <2>2, JudgingKeeps
<1>2. ASSUME (\E pnl \in BOOLEAN : ProcessOutcome(pnl)) \/ UpdateModels \/ LearnerResumes \/ LearnerFails
      PROVE  LifecycleInv'
  BY <1>2, OutcomeKeeps
<1>3. ASSUME NEW c \in 1 .. registry.callers, Resume(c) PROVE LifecycleInv'
  BY <1>3, ResumeKeeps
<1>4. ASSUME NEW c \in 1 .. registry.callers, NEW v \in Versions, DeployShadow(c, v) \/ DeployCanary(c, v)
      PROVE  LifecycleInv'
  BY <1>4, CanaryKeeps
<1>5. ASSUME NEW c \in 1 .. registry.callers, NEW v \in Versions, Promote(c, v) PROVE LifecycleInv'
  BY <1>5, PromoteKeeps
<1>6. ASSUME NEW c \in 1 .. registry.callers, NEW v \in Versions, Rollback(c, v) PROVE LifecycleInv'
  BY <1>6, RollbackKeeps
<1>7. ASSUME NEW c \in 1 .. registry.callers, Abandon(c) PROVE LifecycleInv'
  BY <1>7, AbandonKeeps
<1>8. QED
  BY <1>1, <1>2, <1>3, <1>4, <1>5, <1>6, <1>7, Zenon DEF LifecycleNext

\* What the invariant says of the versions.
LEMMA LifecycleSays ==
  ASSUME LifecycleInv
  PROVE  LifecycleTypeOK /\ OnlyJudgedTrade /\ QuietOperatorHasOneActive
<1>1. LifecycleTypeOK /\ OnlyJudgedTrade
  BY DEF LifecycleInv
<1>2. ASSUME registry.callers = 1, ~registry.rollbacks, operation[1] = NoCall
      PROVE  OnlyActive({activeVersion} \ {0})
  BY <1>2, LifecycleParts DEF QuietCall, NoCall
<1>3. QED
  BY <1>1, <1>2 DEF QuietOperatorHasOneActive, OnlyActive
-----------------------------------------------------------------------------
(***************************************************************************)
(* SignalPool: a signal that trades is not condemned, unless it was        *)
(* deployed, traded past the factory or grew too old since the pool was    *)
(* evaluated; histories of errors never get shorter; trades in the window  *)
(* are a cooldown apart, and each is in the history.                       *)
(***************************************************************************)
States == {"generated", "validated", "deployed", "monitored", "killed", "rejected"}
Scores == [count : Nat, returns : Nat, sum : Int, squares : Int, peak : Int, dip : Int, missed : Int]
Signals == [of : Proposals, state : States, made : {"factory", "caller"}, created : Nat, score : Scores]
Worths == {p.size * p.price : p \in Proposals}
Turns == [symbol : AlphaSymbols, value : Worths, at : Nat]
Dones == [signal : Nat, cooling : BOOLEAN, at : Nat, value : Worths]

\* To be condemned at a time.
CondemnedAt(s, now) ==
  /\ s.score.count >= MinKill
  /\ \/ PoorSharpe(s.score) \/ s.score.dip > MaxDip
     \/ s.score.missed > MaxMissed * s.score.count \/ -s.score.missed > MaxMissed * s.score.count
     \/ now - s.created > MaxAge \/ s.score.count > MaxTrades

\* What the pool holds of a signal it has examined.
Merits(s, now) == ~ (Active(s) /\ CondemnedAt(s, now))

PoolInv ==
  /\ signals \in Seq(Signals) /\ told \in SUBSET (DOMAIN signals) /\ alphaTime \in Nat
  /\ \A i \in DOMAIN signals : i \in unexamined \/ Merits(signals[i], alphaTime)
OutcomeInv ==
  /\ recorded \in Nat
  /\ outcomes \in [AlphaSymbols -> Seq(Errors)]
  /\ \A s \in AlphaSymbols : Len(outcomes[s]) <= VarianceWindow /\ Len(outcomes[s]) <= recorded
  /\ \A i \in DOMAIN signals :
       signals[i].made = "factory" => Len(outcomes[signals[i].of.symbol]) >= MinStable
TurnInv ==
  /\ alphaTime \in Nat
  /\ turnover \in Seq(Turns) /\ traded \in Seq(Dones)
  /\ \A j \in DOMAIN turnover : turnover[j].at <= alphaTime
  /\ \A j \in DOMAIN turnover : \E k \in DOMAIN traded : ~ traded[k].cooling /\ traded[k].at = turnover[j].at
  /\ TurnoverSpaced
SignalInv == factory \in Factories /\ PoolInv /\ OutcomeInv /\ TurnInv

\* The pool begins without signals.
LEMMA SignalBegins == AlphaInit => SignalInv
<1> SUFFICES ASSUME AlphaInit PROVE SignalInv
  OBVIOUS
<1>1. /\ outcomes = [s \in AlphaSymbols |-> <<>>] /\ recorded = 0 /\ factory \in Factories
      /\ turnover = <<>> /\ traded = <<>> /\ signals = <<>> /\ told = {} /\ alphaTime = 0
  BY DEF AlphaInit
<1>2. DOMAIN signals = {} /\ DOMAIN turnover = {} /\ DOMAIN traded = {}
  BY <1>1
<1>3. PoolInv
  BY <1>1, <1>2 DEF PoolInv
<1>4. OutcomeInv
  <2>1. \A s \in AlphaSymbols : outcomes[s] = <<>> /\ Len(outcomes[s]) = 0
    BY <1>1
  <2>2. outcomes \in [AlphaSymbols -> Seq(Errors)]
    BY <1>1
  <2>3. QED
    BY <1>1, <1>2, <2>1, <2>2, SignalConstants DEF OutcomeInv
<1>5. TurnInv
  <2>1. ToSet(traded) = {}
    BY <1>2 DEF ToSet
  <2>2. TurnoverSpaced
    BY <1>2, <2>1 DEF TurnoverSpaced
  <2>3. turnover \in Seq(Turns) /\ traded \in Seq(Dones)
    BY <1>1
  <2>4. alphaTime \in Nat
    BY <1>1
  <2>5. QED
    BY <1>2, <2>2, <2>3, <2>4 DEF TurnInv
<1>6. QED
  BY <1>1, <1>3, <1>4, <1>5 DEF SignalInv

\* The six stages are in the order of a signal's life.
LEMMA Stages ==
  /\ Stage("generated") = 1 /\ Stage("validated") = 2 /\ Stage("deployed") = 3
  /\ Stage("monitored") = 4 /\ Stage("killed") = 5 /\ Stage("rejected") = 6
<1>1. /\ LifeOf[1] = "generated" /\ LifeOf[2] = "validated" /\ LifeOf[3] = "deployed"
      /\ LifeOf[4] = "monitored" /\ LifeOf[5] = "killed" /\ LifeOf[6] = "rejected"
  BY DEF LifeOf
<1>2. \A n \in 1 .. 6 : n = 1 \/ n = 2 \/ n = 3 \/ n = 4 \/ n = 5 \/ n = 6
  OBVIOUS
<1>3. \A n, m \in 1 .. 6 : LifeOf[n] = LifeOf[m] => n = m
  BY <1>1, <1>2
<1>4. ASSUME NEW m \in 1 .. 6 PROVE Stage(LifeOf[m]) = m
  <2>1. Stage(LifeOf[m]) = CHOOSE n \in 1 .. 6 : LifeOf[n] = LifeOf[m]
    BY DEF Stage
  <2>2. QED
    BY <1>3, <2>1
<1>5. 1 \in 1 .. 6 /\ 2 \in 1 .. 6 /\ 3 \in 1 .. 6 /\ 4 \in 1 .. 6 /\ 5 \in 1 .. 6 /\ 6 \in 1 .. 6
  OBVIOUS
<1>6. QED
  BY <1>1, <1>4, <1>5

\* Each state has a stage.
LEMMA StagesKnown == \A s \in States : Stage(s) \in Int
BY Stages DEF States

\* A signal moved on, or was validated again.
Onto(state, next) == Stage(next) >= Stage(state) \/ next = "validated"

\* A signal that stays moves on, and so does one that is killed while it trades.
LEMMA StaysOnto == \A s \in States : Onto(s, s)
BY StagesKnown DEF Onto

\* What a trade makes of a score.
LEMMA ScoredIsScore ==
  ASSUME NEW m \in Scores, NEW profit \in Int, NEW error \in Int PROVE Scored(m, profit, error) \in Scores
<1>1. /\ m.count \in Nat /\ m.returns \in Nat /\ m.sum \in Int /\ m.squares \in Int /\ m.peak \in Int
      /\ m.dip \in Int /\ m.missed \in Int
  BY DEF Scores
<1> DEFINE top == IF profit = 0 THEN m.peak
                   ELSE IF m.returns = 0 THEN profit ELSE Max({m.peak, m.sum + profit})
           dip == IF m.returns = 0 THEN 0 ELSE Max({m.dip, m.peak - m.sum - profit})
<1>2. m.sum + profit \in Int /\ m.peak - m.sum - profit \in Int
  BY <1>1
<1>3. top \in Int /\ dip \in Int
  <2>1. Max({m.peak, m.sum + profit}) \in Int
    BY <1>1, <1>2, AtMostBoth
  <2>2. Max({m.dip, m.peak - m.sum - profit}) \in Int
    BY <1>1, <1>2, AtMostBoth
  <2>3. QED
    BY <1>1, <2>1, <2>2
<1> HIDE DEF top, dip
<1>4. profit * profit \in Int
  OBVIOUS
<1>5. Scored(m, profit, error) =
        [count |-> m.count + 1, returns |-> IF profit = 0 THEN m.returns ELSE m.returns + 1,
         sum |-> m.sum + profit, squares |-> m.squares + profit * profit,
         peak |-> top, dip |-> dip, missed |-> m.missed + error]
  BY Zenon DEF Scored, top, dip
<1>6. QED
  BY <1>1, <1>3, <1>4, <1>5 DEF Scores

\* An evaluation leaves a signal or kills it, and leaves none that is condemned.
LEMMA KilledFacts ==
  ASSUME NEW pool \in Seq(Signals)
  PROVE  /\ Killed(pool) \in Seq(Signals) /\ DOMAIN Killed(pool) = DOMAIN pool
         /\ Victims(pool) \in SUBSET (DOMAIN pool)
         /\ \A i \in DOMAIN pool :
              /\ Killed(pool)[i].of = pool[i].of /\ Killed(pool)[i].made = pool[i].made
              /\ Killed(pool)[i].state = pool[i].state
                   \/ (Active(pool[i]) /\ Killed(pool)[i].state = "killed")
              /\ Merits(Killed(pool)[i], alphaTime)
<1>1. Len(pool) \in Nat /\ DOMAIN pool = 1 .. Len(pool)
  OBVIOUS
<1> DEFINE kill(i) == IF Active(pool[i]) /\ Condemned(pool[i])
                      THEN [pool[i] EXCEPT !.state = "killed"] ELSE pool[i]
<1>2. Killed(pool) = [i \in 1 .. Len(pool) |-> kill(i)]
  BY <1>1 DEF Killed
<1>3. ASSUME NEW i \in 1 .. Len(pool)
      PROVE  /\ kill(i) \in Signals /\ kill(i).of = pool[i].of /\ kill(i).made = pool[i].made
             /\ kill(i).state = pool[i].state \/ (Active(pool[i]) /\ kill(i).state = "killed")
             /\ Merits(kill(i), alphaTime)
  <2>1. pool[i] \in Signals
    BY <1>1
  <2>2. CASE Active(pool[i]) /\ Condemned(pool[i])
    <3>1. kill(i) = [pool[i] EXCEPT !.state = "killed"]
      BY <2>2
    <3> HIDE DEF kill
    <3>2. /\ kill(i) \in Signals /\ kill(i).of = pool[i].of /\ kill(i).made = pool[i].made
          /\ kill(i).state = "killed"
      BY <2>1, <3>1 DEF Signals, States
    <3>3. QED
      BY <2>2, <3>2 DEF Merits, Active
  <2>3. CASE ~ (Active(pool[i]) /\ Condemned(pool[i]))
    <3>1. kill(i) = pool[i]
      BY <2>3
    <3> HIDE DEF kill
    <3>2. Condemned(pool[i]) <=> CondemnedAt(pool[i], alphaTime)
      BY Zenon DEF Condemned, CondemnedAt
    <3>3. QED
      BY <2>1, <2>3, <3>1, <3>2, Zenon DEF Merits
  <2>4. QED
    BY <2>2, <2>3
<1> HIDE DEF kill
<1>4. Killed(pool) \in Seq(Signals) /\ DOMAIN Killed(pool) = DOMAIN pool
  BY <1>1, <1>2, <1>3
<1>5. \A i \in DOMAIN pool : Killed(pool)[i] = kill(i)
  BY <1>1, <1>2
<1>6. Victims(pool) \in SUBSET (DOMAIN pool)
  BY DEF Victims
<1>7. QED
  BY <1>1, <1>3, <1>4, <1>5, <1>6

\* The parts of the signals of a pool.
LEMMA SignalParts ==
  ASSUME NEW q \in Seq(Signals)
  PROVE  \A j \in DOMAIN q : /\ q[j] \in Signals /\ q[j].of \in Proposals /\ q[j].state \in States
                             /\ q[j].score \in Scores /\ q[j].created \in Nat
<1>1. \A j \in DOMAIN q : q[j] \in Signals
  OBVIOUS
<1>2. \A s \in Signals : s.of \in Proposals /\ s.state \in States /\ s.score \in Scores /\ s.created \in Nat
  BY DEF Signals
<1>3. QED
  BY <1>1, <1>2

\* A pool whose signals moved on, one of which may be new.
Onward ==
  /\ PoolInv' /\ DOMAIN signals \subseteq DOMAIN signals'
  /\ \A i \in DOMAIN signals : /\ signals'[i].of = signals[i].of /\ signals'[i].made = signals[i].made
                               /\ Onto(signals[i].state, signals'[i].state)

\* A signal that is new does not trade.
LEMMA NewMoves ==
  ASSUME PoolInv, NEW p \in Proposals, NEW state \in {"generated", "validated"},
         NEW made \in {"factory", "caller"}, signals' = Append(signals, Created(p, state, made)),
         UNCHANGED <<told, unexamined, alphaTime>>
  PROVE  Onward
<1> DEFINE s == Created(p, state, made)
<1>0. signals \in Seq(Signals) /\ told \in SUBSET (DOMAIN signals) /\ alphaTime \in Nat
      /\ \A i \in DOMAIN signals : i \in unexamined \/ Merits(signals[i], alphaTime)
  BY DEF PoolInv
<1>1. Unscored \in Scores
  BY DEF Unscored, Scores
<1>2. s \in Signals /\ s.state = state
  BY <1>0, <1>1 DEF Created, Signals, States
<1>3. Merits(s, alphaTime)
  BY <1>2 DEF Merits, Active
<1> HIDE DEF s
<1> DEFINE n == Len(signals)
<1>5. /\ n \in Nat /\ DOMAIN signals = 1 .. n /\ signals' = Append(signals, s)
  BY <1>0 DEF s
<1>6. /\ signals' \in Seq(Signals) /\ DOMAIN signals' = 1 .. n + 1 /\ signals'[n + 1] = s
      /\ \A i \in 1 .. n : signals'[i] = signals[i]
  BY <1>0, <1>2, <1>5
<1> HIDE DEF n
<1>7. \A i \in 1 .. n + 1 : i \in 1 .. n \/ i = n + 1
  BY <1>5
<1>8. 1 .. n \subseteq 1 .. n + 1
  BY <1>5
<1>9. \A i \in 1 .. n + 1 : i \in unexamined \/ Merits(signals'[i], alphaTime)
  BY <1>0, <1>3, <1>5, <1>6, <1>7
<1>10. PoolInv'
  BY <1>0, <1>5, <1>6, <1>8, <1>9, Zenon DEF PoolInv
<1>11. \A i \in 1 .. n : signals[i].state \in States
  BY <1>0, <1>5, SignalParts
<1>12. \A i \in 1 .. n : Onto(signals[i].state, signals'[i].state)
  BY <1>6, <1>11, StaysOnto
<1>13. QED
  BY <1>5, <1>6, <1>8, <1>10, <1>12 DEF Onward

\* One signal moves to a later state, or has another score.
LEMMA OneMoves ==
  ASSUME PoolInv, NEW i \in DOMAIN signals, NEW s \in Signals, s.of = signals[i].of, s.made = signals[i].made,
         Onto(signals[i].state, s.state), signals' = [signals EXCEPT ![i] = s],
         \/ unexamined' = unexamined \cup {i}
         \/ unexamined' = unexamined /\ (Merits(signals[i], alphaTime) => Merits(s, alphaTime)),
         UNCHANGED <<told, alphaTime>>
  PROVE  Onward
<1>1. signals \in Seq(Signals) /\ told \in SUBSET (DOMAIN signals) /\ alphaTime \in Nat
      /\ \A j \in DOMAIN signals : j \in unexamined \/ Merits(signals[j], alphaTime)
  BY DEF PoolInv
<1>2. /\ signals' \in Seq(Signals) /\ DOMAIN signals' = DOMAIN signals /\ signals'[i] = s
      /\ \A j \in DOMAIN signals : j # i => signals'[j] = signals[j]
  BY <1>1
<1>3. \A j \in DOMAIN signals' : j \in unexamined' \/ Merits(signals'[j], alphaTime)
  BY <1>1, <1>2
<1>4. \A j \in DOMAIN signals : signals[j].state \in States
  BY <1>1, SignalParts
<1>5. \A j \in DOMAIN signals : Onto(signals[j].state, signals'[j].state)
  BY <1>2, <1>4, StaysOnto
<1>6. PoolInv'
  BY <1>1, <1>2, <1>3, Zenon DEF PoolInv
<1>7. QED
  BY <1>2, <1>5, <1>6 DEF Onward

\* A signal changes its state: where it begins to trade it is yet to be examined.
LEMMA SignalStateMoves ==
  ASSUME PoolInv, NEW i \in DOMAIN signals, NEW state \in States, Onto(signals[i].state, state),
         signals' = [signals EXCEPT ![i].state = state],
         \/ unexamined' = unexamined \cup {i}
         \/ unexamined' = unexamined /\ (state \in {"deployed", "monitored"} => signals[i].state = "deployed"),
         UNCHANGED <<told, alphaTime>>
  PROVE  Onward
<1> DEFINE s == [signals[i] EXCEPT !.state = state]
<1>1. signals[i] \in Signals
  BY DEF PoolInv
<1>2. /\ s \in Signals /\ s.state = state /\ s.of = signals[i].of /\ s.made = signals[i].made
      /\ s.score = signals[i].score /\ s.created = signals[i].created
  BY <1>1 DEF Signals
<1>3. signals' = [signals EXCEPT ![i] = s]
  OBVIOUS
<1> HIDE DEF s
<1>4. CondemnedAt(s, alphaTime) <=> CondemnedAt(signals[i], alphaTime)
  BY <1>2, Zenon DEF CondemnedAt
<1>5. (state \in {"deployed", "monitored"} => signals[i].state = "deployed")
        => (Merits(signals[i], alphaTime) => Merits(s, alphaTime))
  BY <1>2, <1>4 DEF Merits, Active
<1>6. QED
  BY <1>2, <1>3, <1>5, OneMoves

\* An evaluation leaves a pool without condemned signals.
LEMMA EvaluationMoves ==
  ASSUME PoolInv, NEW pool \in Seq(Signals), DOMAIN pool = DOMAIN signals,
         \A i \in DOMAIN pool :
           /\ pool[i].of = signals[i].of /\ pool[i].made = signals[i].made
           /\ pool[i].state = signals[i].state \/ (Active(signals[i]) /\ pool[i].state = "killed"),
         signals' = Killed(pool), told' \in SUBSET (DOMAIN signals), UNCHANGED alphaTime
  PROVE  Onward /\ DOMAIN signals' = DOMAIN signals
<1>1. /\ signals' \in Seq(Signals) /\ DOMAIN signals' = DOMAIN pool
      /\ \A i \in DOMAIN pool :
           /\ signals'[i].of = pool[i].of /\ signals'[i].made = pool[i].made
           /\ signals'[i].state = pool[i].state \/ (Active(pool[i]) /\ signals'[i].state = "killed")
           /\ Merits(signals'[i], alphaTime)
  BY KilledFacts
<1>2. alphaTime \in Nat /\ signals \in Seq(Signals)
  BY DEF PoolInv
<1>3. PoolInv'
  BY <1>1, <1>2, Zenon DEF PoolInv
<1>4. \A i \in DOMAIN signals : signals[i].state \in States
  BY <1>2, SignalParts
<1>5. \A i \in DOMAIN signals :
        signals'[i].state = signals[i].state \/ (Active(signals[i]) /\ signals'[i].state = "killed")
  BY <1>1 DEF Active
<1>6. \A i \in DOMAIN signals : Onto(signals[i].state, signals'[i].state)
  <2>1. TAKE i \in DOMAIN signals
  <2>2. CASE signals'[i].state = signals[i].state
    BY <1>4, <2>2, StaysOnto
  <2>3. CASE Active(signals[i]) /\ signals'[i].state = "killed"
    BY <2>3, Stages DEF Active, Onto
  <2>4. QED
    BY <1>5, <2>2, <2>3
<1>7. QED
  BY <1>1, <1>3, <1>6 DEF Onward

\* An evaluation kills what is condemned.
LEMMA EvaluateMoves == ASSUME PoolInv, EvaluateAllKills PROVE Onward /\ DOMAIN signals' = DOMAIN signals
<1>1. signals' = Killed(signals) /\ told' = told \cup Victims(signals) /\ UNCHANGED alphaTime
  BY DEF EvaluateAllKills
<1>2. signals \in Seq(Signals) /\ told \in SUBSET (DOMAIN signals)
  BY DEF PoolInv
<1>3. Victims(signals) \in SUBSET (DOMAIN signals)
  BY <1>2, KilledFacts
<1>4. told' \in SUBSET (DOMAIN signals)
  BY <1>1, <1>2, <1>3
<1>5. QED
  BY <1>1, <1>2, <1>4, EvaluationMoves

\* A trade is in the score of one signal.
LEMMA WithTradeFacts ==
  ASSUME signals \in Seq(Signals), NEW i \in DOMAIN signals, NEW profit \in Int, NEW error \in Int
  PROVE  \E s \in Signals :
           /\ s.of = signals[i].of /\ s.made = signals[i].made /\ s.state = signals[i].state
           /\ WithTrade(i, profit, error) = [signals EXCEPT ![i] = s]
<1> DEFINE m == Scored(signals[i].score, profit, error)
           s == [signals[i] EXCEPT !.score = m]
<1>1. signals[i] \in Signals /\ signals[i].score \in Scores
  BY SignalParts
<1>2. m \in Scores
  BY <1>1, ScoredIsScore
<1>3. WithTrade(i, profit, error) = [signals EXCEPT ![i] = s]
  BY Zenon DEF WithTrade
<1> HIDE DEF m
<1>4. s \in Signals /\ s.of = signals[i].of /\ s.made = signals[i].made /\ s.state = signals[i].state
  BY <1>1, <1>2 DEF Signals
<1> HIDE DEF s
<1>5. QED
  BY <1>3, <1>4

\* A trade through the factory scores a signal, and evaluates the pool.
LEMMA TradeMoves ==
  ASSUME PoolInv, NEW i \in DOMAIN signals, NEW profit \in Int, NEW error \in Int,
         RecordSignalTrade(i, profit, error)
  PROVE  Onward /\ DOMAIN signals' = DOMAIN signals
<1> DEFINE scored == WithTrade(i, profit, error)
           once == Killed(scored)
<1>1. signals' = Killed(once) /\ told' = told \cup Victims(once) /\ UNCHANGED alphaTime
  BY DEF RecordSignalTrade
<1>2. signals \in Seq(Signals) /\ told \in SUBSET (DOMAIN signals)
  BY DEF PoolInv
<1>3. PICK s \in Signals : /\ s.of = signals[i].of /\ s.made = signals[i].made /\ s.state = signals[i].state
                           /\ scored = [signals EXCEPT ![i] = s]
  BY <1>2, WithTradeFacts
<1> HIDE DEF scored
<1>4. /\ scored \in Seq(Signals) /\ DOMAIN scored = DOMAIN signals
      /\ \A j \in DOMAIN signals : /\ scored[j].of = signals[j].of /\ scored[j].made = signals[j].made
                                   /\ scored[j].state = signals[j].state
  BY <1>2, <1>3
<1>5. /\ once \in Seq(Signals) /\ DOMAIN once = DOMAIN signals
      /\ \A j \in DOMAIN signals :
           /\ once[j].of = signals[j].of /\ once[j].made = signals[j].made
           /\ once[j].state = signals[j].state \/ (Active(signals[j]) /\ once[j].state = "killed")
  BY <1>4, KilledFacts DEF Active
<1> HIDE DEF once
<1>6. Victims(once) \in SUBSET (DOMAIN signals)
  BY <1>5, KilledFacts
<1>7. told' \in SUBSET (DOMAIN signals)
  BY <1>1, <1>2, <1>6
<1>8. QED
  BY <1>1, <1>5, <1>7, EvaluationMoves

\* A trade past the factory leaves its signal to be examined.
LEMMA PastMoves ==
  ASSUME PoolInv, NEW i \in DOMAIN signals, NEW profit \in Int, NEW error \in Int,
         RecordOnSignal(i, profit, error)
  PROVE  Onward /\ DOMAIN signals' = DOMAIN signals
<1>1. signals' = WithTrade(i, profit, error) /\ unexamined' = unexamined \cup {i} /\ UNCHANGED <<told, alphaTime>>
  BY DEF RecordOnSignal
<1>2. signals \in Seq(Signals)
  BY DEF PoolInv
<1>3. PICK s \in Signals : /\ s.of = signals[i].of /\ s.made = signals[i].made /\ s.state = signals[i].state
                           /\ signals' = [signals EXCEPT ![i] = s]
  BY <1>1, <1>2, WithTradeFacts
<1>4. Onto(signals[i].state, s.state)
  BY <1>2, <1>3, SignalParts, StaysOnto
<1>5. Onward
  BY <1>1, <1>3, <1>4, OneMoves
<1>6. QED
  BY <1>3, <1>5

\* A day makes the signals that grow too old ones to be examined.
LEMMA TickMoves == ASSUME PoolInv, AlphaTick PROVE Onward
<1>1. /\ alphaTime' = alphaTime + 1 /\ UNCHANGED <<signals, told>>
      /\ unexamined' = unexamined \cup {i \in DOMAIN signals : alphaTime' - signals[i].created = MaxAge + 1}
  BY DEF AlphaTick
<1>2. signals \in Seq(Signals) /\ told \in SUBSET (DOMAIN signals) /\ alphaTime \in Nat
      /\ \A i \in DOMAIN signals : i \in unexamined \/ Merits(signals[i], alphaTime)
  BY DEF PoolInv
<1>3. \A i \in DOMAIN signals' : i \in unexamined' \/ Merits(signals'[i], alphaTime')
  <2>1. SUFFICES ASSUME NEW i \in DOMAIN signals, i \notin unexamined' PROVE Merits(signals[i], alphaTime')
    BY <1>1
  <2>2. /\ signals[i].created \in Nat /\ MaxAge \in Nat /\ i \notin unexamined
        /\ alphaTime' - signals[i].created # MaxAge + 1
    BY <1>1, <1>2, <2>1, SignalParts, SignalConstants
  <2>3. alphaTime' - signals[i].created > MaxAge => alphaTime - signals[i].created > MaxAge
    BY <1>1, <1>2, <2>2
  <2>4. CondemnedAt(signals[i], alphaTime') => CondemnedAt(signals[i], alphaTime)
    BY <2>3, Zenon DEF CondemnedAt
  <2>5. QED
    BY <1>2, <2>2, <2>4 DEF Merits
<1>4. PoolInv'
  <2>1. alphaTime' \in Nat
    BY <1>1, <1>2
  <2>2. QED
    BY <1>1, <1>2, <1>3, <2>1, Zenon DEF PoolInv
<1>5. \A j \in DOMAIN signals : Onto(signals[j].state, signals'[j].state)
  BY <1>1, <1>2, SignalParts, StaysOnto
<1>6. QED
  BY <1>1, <1>4, <1>5 DEF Onward

\* A pool that is left.
LEMMA NothingMoves == ASSUME PoolInv, UNCHANGED <<signals, told, unexamined, alphaTime>> PROVE Onward
<1>1. PoolInv'
  BY Zenon DEF PoolInv
<1>2. \A j \in DOMAIN signals : Onto(signals[j].state, signals'[j].state)
  BY SignalParts, StaysOnto DEF PoolInv
<1>3. QED
  BY <1>1, <1>2 DEF Onward

\* What is too old leaves at the front.
LEMMA RecentFacts ==
  ASSUME NEW T, NEW q \in Seq(T)
  PROVE  /\ RecentTrades(q) \in Seq(T)
         /\ \E d \in 0 .. Len(q) : /\ Len(RecentTrades(q)) = Len(q) - d
                                   /\ \A i \in DOMAIN RecentTrades(q) : d + i \in DOMAIN q /\ RecentTrades(q)[i] = q[d + i]
<1> DEFINE n == Len(q)
           S == {i \in DOMAIN q : \A j \in 1 .. i : q[j].at < alphaTime - TurnoverWindow}
           d == Cardinality(S)
           r == SubSeq(q, d + 1, n)
<1>1. n \in Nat /\ DOMAIN q = 1 .. n /\ S \subseteq 1 .. n
  OBVIOUS
<1>2. IsFiniteSet(1 .. n) /\ Cardinality(1 .. n) = n
  BY <1>1, UpToN
<1> HIDE DEF n, S
<1>3. d \in 0 .. n
  <2> DEFINE Indexes == 1 .. n
  <2>0. S \in SUBSET Indexes /\ IsFiniteSet(Indexes) /\ Cardinality(Indexes) = n
    BY <1>1, <1>2
  <2> HIDE DEF Indexes
  <2>1. IsFiniteSet(S) /\ Cardinality(S) <= n
    BY <2>0, FS_Subset
  <2>2. d \in Nat
    BY <2>1, FS_CardinalityType
  <2>3. QED
    BY <1>1, <2>1, <2>2
<1>4. RecentTrades(q) = r
  BY DEF RecentTrades, r, d, S, n
<1> HIDE DEF d
<1>5. r \in Seq(T) /\ Len(r) = n - d /\ \A i \in 1 .. n - d : r[i] = q[d + i]
  <2> DEFINE a == d + 1
  <2>1. a \in 1 .. n + 1 /\ n = Len(q) /\ n \in Nat /\ n - a + 1 = n - d
        /\ \A i \in 1 .. n - d : a + i - 1 = d + i
    BY <1>1, <1>3 DEF n
  <2> HIDE DEF a
  <2>2. /\ SubSeq(q, a, n) \in Seq(T) /\ Len(SubSeq(q, a, n)) = n - a + 1
        /\ \A i \in 1 .. n - a + 1 : SubSeq(q, a, n)[i] = q[a + i - 1]
    BY <2>1
  <2>3. QED
    BY <2>1, <2>2 DEF a
<1>6. \A i \in 1 .. n - d : d + i \in 1 .. n
  BY <1>1, <1>3
<1>7. DOMAIN r = 1 .. n - d
  BY <1>1, <1>3, <1>5
<1>8. n = Len(q)
  BY DEF n
<1> HIDE DEF r
<1>9. QED
  BY <1>1, <1>3, <1>4, <1>5, <1>6, <1>7, <1>8

\* Trades of one symbol are a cooldown apart.
Spaced(q) ==
  \A i, j \in DOMAIN q : (i < j /\ q[i].symbol = q[j].symbol) => q[j].at - q[i].at >= TurnoverCooldown

\* What is left of a window that is spaced is spaced.
LEMMA RecentSpaced ==
  ASSUME NEW q \in Seq(Turns), NEW limit \in Nat, \A i \in DOMAIN q : q[i].at <= limit, Spaced(q)
  PROVE  /\ RecentTrades(q) \in Seq(Turns) /\ Spaced(RecentTrades(q))
         /\ \A i \in DOMAIN RecentTrades(q) : /\ RecentTrades(q)[i].at <= limit
                                              /\ \E j \in DOMAIN q : RecentTrades(q)[i] = q[j]
<1> DEFINE w == RecentTrades(q)
<1>1. PICK d \in 0 .. Len(q) : Len(w) = Len(q) - d /\ \A i \in DOMAIN w : d + i \in DOMAIN q /\ w[i] = q[d + i]
  BY RecentFacts
<1>2. w \in Seq(Turns)
  BY RecentFacts
<1> HIDE DEF w
<1>3. \A i, j \in DOMAIN w : i < j => d + i < d + j
  <2>1. DOMAIN w = 1 .. Len(w) /\ Len(w) \in Nat /\ d \in Nat
    BY <1>2
  <2>2. QED
    BY <2>1
<1>4. ASSUME NEW i \in DOMAIN w, NEW j \in DOMAIN w, i < j, w[i].symbol = w[j].symbol
      PROVE  w[j].at - w[i].at >= TurnoverCooldown
  <2>1. d + i \in DOMAIN q /\ d + j \in DOMAIN q /\ d + i < d + j /\ w[i] = q[d + i] /\ w[j] = q[d + j]
    BY <1>1, <1>3, <1>4
  <2>2. QED
    BY <1>4, <2>1 DEF Spaced
<1>5. \A i \in DOMAIN w : w[i].at <= limit /\ \E j \in DOMAIN q : w[i] = q[j]
  BY <1>1
<1>6. Spaced(w)
  BY <1>4 DEF Spaced
<1>7. QED
  BY <1>2, <1>5, <1>6 DEF w

-----------------------------------------------------------------------------
\* A history of errors that gets one more is as long as it was, or longer.
LEMMA OutcomeKept ==
  ASSUME OutcomeInv, signals \in Seq(Signals), NEW s \in AlphaSymbols, NEW error \in Errors, RecordOutcome(s, error)
  PROVE  OutcomeInv'
<1> DEFINE q == Append(outcomes[s], error)
           w == IF Len(q) > VarianceWindow THEN Tail(q) ELSE q
<1>1. /\ recorded' = recorded + 1 /\ outcomes' = [outcomes EXCEPT ![s] = w]
      /\ UNCHANGED signals
  BY DEF RecordOutcome
<1>2. /\ recorded \in Nat /\ outcomes \in [AlphaSymbols -> Seq(Errors)]
      /\ \A x \in AlphaSymbols : Len(outcomes[x]) <= VarianceWindow /\ Len(outcomes[x]) <= recorded
      /\ \A i \in DOMAIN signals :
           signals[i].made = "factory" => Len(outcomes[signals[i].of.symbol]) >= MinStable
  BY DEF OutcomeInv
<1>3. outcomes[s] \in Seq(Errors)
  BY <1>2
<1>4. q \in Seq(Errors) /\ Len(q) = Len(outcomes[s]) + 1 /\ Len(outcomes[s]) \in Nat
  BY <1>3
<1> DEFINE m == Len(outcomes[s])
<1>5. w \in Seq(Errors) /\ (Len(w) = m \/ Len(w) = m + 1) /\ Len(w) <= VarianceWindow
  <2> HIDE DEF q
  <2>1. q # <<>>
    BY <1>4
  <2>2. Tail(q) \in Seq(Errors) /\ Len(Tail(q)) = Len(q) - 1
    BY <1>4, <2>1
  <2>3. m <= VarianceWindow /\ VarianceWindow \in Nat /\ m \in Nat /\ Len(q) = m + 1
    BY <1>2, <1>4, SignalConstants
  <2> HIDE DEF m
  <2>4. CASE Len(q) > VarianceWindow
    BY <2>2, <2>3, <2>4
  <2>5. CASE ~ (Len(q) > VarianceWindow)
    BY <1>4, <2>3, <2>5
  <2>6. QED
    BY <2>4, <2>5
<1> HIDE DEF w, q
<1>6. /\ outcomes' \in [AlphaSymbols -> Seq(Errors)] /\ outcomes'[s] = w
      /\ \A x \in AlphaSymbols : x # s => outcomes'[x] = outcomes[x]
  BY <1>1, <1>2, <1>5
<1>7. \A x \in AlphaSymbols : Len(outcomes[x]) \in Nat
  BY <1>2
<1>8. recorded' \in Nat
  BY <1>1, <1>2
<1>9. ASSUME NEW x \in AlphaSymbols
      PROVE  /\ Len(outcomes'[x]) <= VarianceWindow /\ Len(outcomes'[x]) <= recorded'
             /\ Len(outcomes'[x]) >= Len(outcomes[x])
  <2>1. m <= recorded /\ Len(outcomes[x]) <= recorded /\ Len(outcomes[x]) <= VarianceWindow
    BY <1>2
  <2>2. CASE x = s
    <3>1. Len(outcomes'[x]) = Len(w) /\ m = Len(outcomes[x])
      BY <1>6, <2>2
    <3>2. m \in Nat /\ recorded \in Nat
      BY <1>2, <1>7
    <3> HIDE DEF m
    <3>3. QED
      BY <1>1, <1>5, <2>1, <3>1, <3>2
  <2>3. CASE x # s
    <3>1. outcomes'[x] = outcomes[x] /\ Len(outcomes[x]) \in Nat /\ recorded \in Nat
      BY <1>2, <1>6, <1>7, <2>3
    <3>2. QED
      BY <1>1, <2>1, <3>1
  <2>4. QED
    BY <2>2, <2>3
<1>10. ASSUME NEW i \in DOMAIN signals, signals[i].made = "factory"
       PROVE  Len(outcomes'[signals[i].of.symbol]) >= MinStable
  <2> DEFINE x == signals[i].of.symbol
  <2>1. signals[i].of \in Proposals
    BY SignalParts
  <2>2. x \in AlphaSymbols
    BY <2>1 DEF AlphaSymbols
  <2>3. Len(outcomes[x]) >= MinStable /\ MinStable \in Nat
    BY <1>2, <1>10, SignalConstants
  <2> HIDE DEF x
  <2>4. Len(outcomes[x]) \in Nat /\ Len(outcomes'[x]) >= Len(outcomes[x]) /\ outcomes'[x] \in Seq(Errors)
    BY <1>6, <1>7, <1>9, <2>2
  <2>5. Len(outcomes'[x]) \in Nat
    BY <2>4
  <2>6. QED
    BY <2>3, <2>4, <2>5 DEF x
<1>11. QED
  BY <1>1, <1>6, <1>8, <1>9, <1>10 DEF OutcomeInv

\* A signal of the factory is made where there is a history.
LEMMA NewHasHistory ==
  ASSUME OutcomeInv, signals \in Seq(Signals), NEW p \in Proposals, NEW state, NEW made,
         signals' = Append(signals, Created(p, state, made)), UNCHANGED <<outcomes, recorded>>,
         made = "factory" => Len(outcomes[p.symbol]) >= MinStable
  PROVE  OutcomeInv'
<1> DEFINE n == Len(signals)
           s == Created(p, state, made)
<1>3. s.of = p /\ s.made = made
  BY DEF Created
<1> HIDE DEF s
<1>4. /\ n \in Nat /\ DOMAIN signals = 1 .. n /\ signals' = Append(signals, s)
  BY DEF s
<1>5. /\ DOMAIN signals' = 1 .. n + 1 /\ signals'[n + 1] = s
      /\ \A i \in 1 .. n : signals'[i] = signals[i]
  BY <1>4
<1> HIDE DEF n
<1>6. \A i \in 1 .. n + 1 : i \in 1 .. n \/ i = n + 1
  BY <1>4
<1>7. \A i \in DOMAIN signals :
        signals[i].made = "factory" => Len(outcomes[signals[i].of.symbol]) >= MinStable
  BY DEF OutcomeInv
<1>8. \A i \in 1 .. n + 1 :
        signals'[i].made = "factory" => Len(outcomes[signals'[i].of.symbol]) >= MinStable
  BY <1>3, <1>4, <1>5, <1>6, <1>7
<1>9. QED
  BY <1>5, <1>8 DEF OutcomeInv

\* Signals that are of what they were of have the history they had.
LEMMA HistoryStays ==
  ASSUME OutcomeInv, UNCHANGED <<outcomes, recorded>>, DOMAIN signals' = DOMAIN signals,
         \A i \in DOMAIN signals : signals'[i].of = signals[i].of /\ signals'[i].made = signals[i].made
  PROVE  OutcomeInv'
BY DEF OutcomeInv
-----------------------------------------------------------------------------
\* Where nothing is recorded, only time passes and what is too old leaves.
LEMMA WindowShrinks ==
  ASSUME TurnInv, turnover' = turnover \/ turnover' = RecentTrades(turnover), UNCHANGED traded,
         alphaTime' \in Nat, alphaTime' >= alphaTime
  PROVE  TurnInv'
<1>1. /\ alphaTime \in Nat /\ turnover \in Seq(Turns) /\ traded \in Seq(Dones)
      /\ \A j \in DOMAIN turnover : turnover[j].at <= alphaTime
      /\ \A j \in DOMAIN turnover : \E k \in DOMAIN traded : ~ traded[k].cooling /\ traded[k].at = turnover[j].at
  BY DEF TurnInv
<1>2. /\ \A i, j \in DOMAIN turnover : (i < j /\ turnover[i].symbol = turnover[j].symbol) =>
            turnover[j].at - turnover[i].at >= TurnoverCooldown
      /\ \A t \in {x \in ToSet(traded) : x.cooling} :
            \E u \in ToSet(traded) : ~ u.cooling /\ u.at \in t.at - TurnoverCooldown + 1 .. t.at
  BY DEF TurnInv, TurnoverSpaced
<1>3. /\ turnover' \in Seq(Turns)
      /\ \A i \in DOMAIN turnover' : turnover'[i].at <= alphaTime /\ \E j \in DOMAIN turnover : turnover'[i] = turnover[j]
      /\ \A i, j \in DOMAIN turnover' : (i < j /\ turnover'[i].symbol = turnover'[j].symbol) =>
            turnover'[j].at - turnover'[i].at >= TurnoverCooldown
  <2>1. CASE turnover' = turnover
    BY <1>1, <1>2, <2>1
  <2>2. CASE turnover' = RecentTrades(turnover)
    <3> DEFINE w == RecentTrades(turnover)
    <3>1. alphaTime \in Nat /\ turnover \in Seq(Turns)
      BY <1>1
    <3>2. /\ w \in Seq(Turns) /\ \A i \in DOMAIN w : w[i].at <= alphaTime /\ \E j \in DOMAIN turnover : w[i] = turnover[j]
          /\ \A i, j \in DOMAIN w : (i < j /\ w[i].symbol = w[j].symbol) => w[j].at - w[i].at >= TurnoverCooldown
      <4>1. \A i \in DOMAIN turnover : turnover[i].at <= alphaTime
        BY <1>1
      <4>2. Spaced(turnover)
        BY <1>2 DEF Spaced
      <4>3. QED
        BY <3>1, <4>1, <4>2, RecentSpaced, Zenon DEF Spaced
    <3> HIDE DEF w
    <3>3. turnover' = w
      BY <2>2 DEF w
    <3>4. QED
      BY <3>2, <3>3
  <2>3. QED
    BY <2>1, <2>2
<1>4. \A j \in DOMAIN turnover' : \E k \in DOMAIN traded' : ~ traded'[k].cooling /\ traded'[k].at = turnover'[j].at
  BY <1>1, <1>3
<1>5. \A j \in DOMAIN turnover' : turnover'[j].at <= alphaTime'
  <2>1. \A j \in DOMAIN turnover' : turnover'[j].at \in Nat
    <3>1. \A j \in DOMAIN turnover' : turnover'[j] \in Turns
      BY <1>3
    <3>2. \A t \in Turns : t.at \in Nat
      BY DEF Turns
    <3>3. QED
      BY <3>1, <3>2
  <2>2. alphaTime' >= alphaTime /\ alphaTime \in Int /\ alphaTime' \in Int
    BY <1>1
  <2>3. QED
    BY <1>3, <2>1, <2>2
<1>7. TurnoverSpaced'
  BY <1>2, <1>3 DEF TurnoverSpaced
<1>8. QED
  BY <1>1, <1>3, <1>4, <1>5, <1>7 DEF TurnInv

\* A trade is recorded where none of its symbol cools.
LEMMA TurnKept ==
  ASSUME TurnInv, signals \in Seq(Signals), NEW i \in DOMAIN signals, RecordTurnover(i)
  PROVE  TurnInv'
<1> DEFINE p == signals[i].of
           v == p.size * p.price
           trade == [symbol |-> p.symbol, value |-> v, at |-> alphaTime]
           cooling == \E j \in DOMAIN turnover :
                        turnover[j].symbol = p.symbol /\ alphaTime - turnover[j].at < TurnoverCooldown
           done == [signal |-> i, cooling |-> cooling, at |-> alphaTime, value |-> v]
           longer == Append(turnover, trade)
<1>1. /\ traded' = Append(traded, done)
      /\ turnover' = IF cooling THEN turnover ELSE RecentTrades(longer)
      /\ UNCHANGED alphaTime
  BY DEF RecordTurnover
<1>2. /\ alphaTime \in Nat /\ turnover \in Seq(Turns) /\ traded \in Seq(Dones)
      /\ \A j \in DOMAIN turnover : turnover[j].at <= alphaTime
      /\ \A j \in DOMAIN turnover : \E k \in DOMAIN traded : ~ traded[k].cooling /\ traded[k].at = turnover[j].at
  BY DEF TurnInv
<1>3. /\ \A a, b \in DOMAIN turnover : (a < b /\ turnover[a].symbol = turnover[b].symbol) =>
            turnover[b].at - turnover[a].at >= TurnoverCooldown
      /\ \A t \in {x \in ToSet(traded) : x.cooling} :
            \E u \in ToSet(traded) : ~ u.cooling /\ u.at \in t.at - TurnoverCooldown + 1 .. t.at
  BY DEF TurnInv, TurnoverSpaced
<1>4. p \in Proposals /\ i \in Nat /\ v \in Worths /\ p.symbol \in AlphaSymbols /\ alphaTime \in Nat
      /\ TurnoverCooldown \in Nat
  <2>1. p \in Proposals /\ i \in Nat
    <3>1. DOMAIN signals = 1 .. Len(signals) /\ Len(signals) \in Nat
      OBVIOUS
    <3>2. QED
      BY <3>1, SignalParts
  <2>2. v \in Worths /\ p.symbol \in AlphaSymbols
    <3> HIDE DEF p
    <3>1. QED
      BY <2>1, Zenon DEF Worths, AlphaSymbols
  <2>3. QED
    BY <1>2, <2>1, <2>2, SignalConstants
<1>t. \A j \in DOMAIN turnover : turnover[j].at \in Nat
  <2>1. \A j \in DOMAIN turnover : turnover[j] \in Turns
    BY <1>2
  <2>2. \A t \in Turns : t.at \in Nat
    BY DEF Turns
  <2>3. QED
    BY <2>1, <2>2
<1> HIDE DEF v
<1>5. trade \in Turns /\ trade.at = alphaTime /\ trade.symbol = p.symbol
  <2> HIDE DEF p
  <2>1. QED
    BY <1>4 DEF Turns
<1> DEFINE cools == cooling
<1>6. cools \in BOOLEAN
  OBVIOUS
<1>7. done = [signal |-> i, cooling |-> cools, at |-> alphaTime, value |-> v]
  OBVIOUS
<1>c. cools <=> \E j \in DOMAIN turnover :
                  turnover[j].symbol = p.symbol /\ alphaTime - turnover[j].at < TurnoverCooldown
  OBVIOUS
<1> HIDE DEF cools, trade, done
<1>8. done \in Dones /\ done.cooling = cools /\ done.at = alphaTime
  <2>1. [signal |-> i, cooling |-> cools, at |-> alphaTime, value |-> v] \in Dones
    BY <1>4, <1>6, Zenon DEF Dones
  <2>2. QED
    BY <1>7, <2>1
<1> HIDE DEF p
<1> DEFINE n == Len(turnover)
           m == Len(traded)
<1>9. /\ n \in Nat /\ DOMAIN turnover = 1 .. n /\ longer \in Seq(Turns) /\ DOMAIN longer = 1 .. n + 1
      /\ longer[n + 1] = trade /\ \A j \in 1 .. n : longer[j] = turnover[j]
  BY <1>2, <1>5
<1>10. /\ m \in Nat /\ DOMAIN traded = 1 .. m /\ traded' \in Seq(Dones) /\ DOMAIN traded' = 1 .. m + 1
       /\ traded'[m + 1] = done /\ \A k \in 1 .. m : traded'[k] = traded[k]
  BY <1>1, <1>2, <1>8
<1> HIDE DEF longer, n, m
<1>11. \A j \in 1 .. n + 1 : j \in 1 .. n \/ j = n + 1
  BY <1>9
<1>12. 1 .. n \subseteq 1 .. n + 1 /\ 1 .. m \subseteq 1 .. m + 1 /\ m + 1 \in 1 .. m + 1
  BY <1>9, <1>10
<1>13. /\ ToSet(traded) \subseteq ToSet(traded') /\ done \in ToSet(traded')
       /\ \A t \in ToSet(traded') : t \in ToSet(traded) \/ t = done
       /\ \A k \in DOMAIN traded : traded[k] \in ToSet(traded')
  <2>1. \A k \in 1 .. m + 1 : k \in 1 .. m \/ k = m + 1
    BY <1>10
  <2>2. QED
    BY <1>10, <1>12, <2>1 DEF ToSet
<1>14. CASE cools
  <2>1. turnover' = turnover
    BY <1>1, <1>14 DEF cools
  <2>2. PICK j \in DOMAIN turnover : alphaTime - turnover[j].at < TurnoverCooldown
    BY <1>c, <1>14
  <2>3. PICK k \in DOMAIN traded : ~ traded[k].cooling /\ traded[k].at = turnover[j].at
    BY <1>2
  <2>4. traded[k].at \in alphaTime - TurnoverCooldown + 1 .. alphaTime
    BY <1>2, <1>4, <1>t, <2>2, <2>3
  <2>5. \A t \in {x \in ToSet(traded') : x.cooling} :
          \E u \in ToSet(traded') : ~ u.cooling /\ u.at \in t.at - TurnoverCooldown + 1 .. t.at
    <3>1. TAKE t \in {x \in ToSet(traded') : x.cooling}
    <3>2. CASE t \in ToSet(traded)
      BY <1>3, <1>13, <3>2
    <3>3. CASE t = done
      BY <1>8, <1>13, <2>3, <2>4, <3>3
    <3>4. QED
      BY <1>13, <3>2, <3>3
  <2>6. TurnoverSpaced'
    BY <1>3, <2>1, <2>5 DEF TurnoverSpaced
  <2>7. \A x \in DOMAIN turnover' : \E y \in DOMAIN traded' : ~ traded'[y].cooling /\ traded'[y].at = turnover'[x].at
    BY <1>2, <1>10, <1>12, <2>1
  <2>8. QED
    BY <1>1, <1>2, <1>10, <2>1, <2>6, <2>7 DEF TurnInv
<1>15. CASE ~ cools
  <2>1. turnover' = RecentTrades(longer)
    BY <1>1, <1>15 DEF cools
  <2>2. \A j \in DOMAIN longer : longer[j].at <= alphaTime
    BY <1>2, <1>4, <1>5, <1>9, <1>11
  <2>3. ASSUME NEW a \in DOMAIN longer, NEW b \in DOMAIN longer, a < b, longer[a].symbol = longer[b].symbol
        PROVE  longer[b].at - longer[a].at >= TurnoverCooldown
    <3>1. a \in 1 .. n
      BY <1>9, <2>3
    <3>2. CASE b \in 1 .. n
      BY <1>3, <1>9, <2>3, <3>1, <3>2
    <3>3. CASE b = n + 1
      <4>1. longer[b].at = alphaTime /\ longer[a] = turnover[a] /\ turnover[a].symbol = p.symbol
            /\ a \in DOMAIN turnover
        BY <1>5, <1>9, <2>3, <3>1, <3>3
      <4>2. ~ (alphaTime - turnover[a].at < TurnoverCooldown)
        BY <1>c, <1>15, <4>1
      <4>3. turnover[a].at \in Nat
        BY <1>t, <4>1
      <4>4. QED
        BY <1>4, <4>1, <4>2, <4>3
    <3>4. QED
      BY <1>9, <1>11, <3>2, <3>3
  <2>4. /\ turnover' \in Seq(Turns)
        /\ \A x \in DOMAIN turnover' : turnover'[x].at <= alphaTime /\ \E j \in DOMAIN longer : turnover'[x] = longer[j]
        /\ \A x, y \in DOMAIN turnover' : (x < y /\ turnover'[x].symbol = turnover'[y].symbol) =>
              turnover'[y].at - turnover'[x].at >= TurnoverCooldown
    <3> DEFINE w == RecentTrades(longer)
    <3>1. Spaced(longer)
      BY <2>3 DEF Spaced
    <3>2. alphaTime \in Nat /\ longer \in Seq(Turns)
      BY <1>4, <1>9
    <3>3. /\ w \in Seq(Turns) /\ \A x \in DOMAIN w : w[x].at <= alphaTime /\ \E j \in DOMAIN longer : w[x] = longer[j]
          /\ Spaced(w)
      BY <2>2, <3>1, <3>2, RecentSpaced, Zenon
    <3> HIDE DEF w
    <3>4. turnover' = w
      BY <2>1 DEF w
    <3>5. QED
      BY <3>3, <3>4 DEF Spaced
  <2>5. \A j \in DOMAIN longer : \E k \in DOMAIN traded' : ~ traded'[k].cooling /\ traded'[k].at = longer[j].at
    <3>1. TAKE j \in DOMAIN longer
    <3>2. CASE j \in 1 .. n
      BY <1>2, <1>9, <1>10, <1>12, <3>2
    <3>3. CASE j = n + 1
      BY <1>5, <1>8, <1>9, <1>10, <1>12, <1>15, <3>3
    <3>4. QED
      BY <1>9, <1>11, <3>2, <3>3
  <2>6. \A x \in DOMAIN turnover' : \E k \in DOMAIN traded' : ~ traded'[k].cooling /\ traded'[k].at = turnover'[x].at
    BY <2>4, <2>5
  <2>7. \A t \in {x \in ToSet(traded') : x.cooling} :
          \E u \in ToSet(traded') : ~ u.cooling /\ u.at \in t.at - TurnoverCooldown + 1 .. t.at
    <3>1. TAKE t \in {x \in ToSet(traded') : x.cooling}
    <3>2. t \in ToSet(traded)
      BY <1>8, <1>13, <1>15
    <3>3. QED
      BY <1>3, <1>13, <3>2
  <2>8. TurnoverSpaced'
    BY <2>4, <2>7 DEF TurnoverSpaced
  <2>9. QED
    BY <1>1, <1>2, <1>10, <2>4, <2>6, <2>8 DEF TurnInv
<1>16. QED
  BY <1>14, <1>15

-----------------------------------------------------------------------------
\* Every step of the part, and none.
LEMMA SignalSteps ==
  ASSUME SignalInv, AlphaNext \/ UNCHANGED alphaVars
  PROVE  SignalInv' /\ \A i \in DOMAIN signals : Onto(signals[i].state, signals'[i].state)
<1>0. /\ factory \in Factories /\ PoolInv /\ OutcomeInv /\ TurnInv /\ signals \in Seq(Signals)
      /\ alphaTime \in Nat /\ Errors \subseteq Int /\ Profits \subseteq Int
      /\ factory.proposals \subseteq Proposals
  BY SignalConstants DEF SignalInv, PoolInv
<1>s. \A i \in DOMAIN signals : signals[i].state \in States
  BY <1>0, SignalParts
<1>1. ASSUME NEW p \in Proposals, NEW state \in {"generated", "validated"}, NEW made \in {"factory", "caller"},
             signals' = Append(signals, Created(p, state, made)),
             made = "factory" => Len(outcomes[p.symbol]) >= MinStable,
             turnover' = turnover \/ turnover' = RecentTrades(turnover),
             UNCHANGED <<factory, outcomes, recorded, traded, told, unexamined, alphaTime>>
      PROVE  SignalInv' /\ \A i \in DOMAIN signals : Onto(signals[i].state, signals'[i].state)
  <2>1. Onward
    BY <1>0, <1>1, NewMoves
  <2>2. OutcomeInv'
    BY <1>0, <1>1, NewHasHistory
  <2>3. TurnInv'
    BY <1>0, <1>1, WindowShrinks
  <2>4. QED
    BY <1>0, <1>1, <2>1, <2>2, <2>3 DEF SignalInv, Onward
<1>2. ASSUME Onward, DOMAIN signals' = DOMAIN signals,
             UNCHANGED <<factory, outcomes, recorded, turnover, traded>>, alphaTime' \in {alphaTime, alphaTime + 1}
      PROVE  SignalInv' /\ \A i \in DOMAIN signals : Onto(signals[i].state, signals'[i].state)
  <2>1. OutcomeInv'
    BY <1>0, <1>2, HistoryStays DEF Onward
  <2>2. alphaTime' \in Nat /\ alphaTime' >= alphaTime
    BY <1>0, <1>2
  <2>3. TurnInv'
    BY <1>0, <1>2, <2>2, WindowShrinks
  <2>4. QED
    BY <1>0, <1>2, <2>1, <2>3 DEF SignalInv, Onward
<1>3. CASE Generate
  <2>1. PICK p \in factory.proposals :
          /\ Passes(p) /\ signals' = Append(signals, Created(p, "validated", "factory"))
          /\ turnover' = RecentTrades(turnover)
          /\ UNCHANGED <<factory, outcomes, recorded, traded, told, unexamined, alphaTime>>
    BY <1>3, Zenon DEF Generate
  <2>2. p \in Proposals /\ Len(outcomes[p.symbol]) >= MinStable
    BY <1>0, <2>1 DEF Passes, StabilityPasses
  <2>3. QED
    BY <1>1, <2>1, <2>2
<1>4. CASE CreateSignal
  <2>1. PICK p \in factory.proposals :
          /\ signals' = Append(signals, Created(p, "generated", "caller"))
          /\ UNCHANGED <<factory, outcomes, recorded, turnover, traded, told, unexamined, alphaTime>>
    BY <1>4, Zenon DEF CreateSignal
  <2>2. p \in Proposals
    BY <1>0, <2>1
  <2>3. QED
    BY <1>1, <2>1, <2>2
<1>5. CASE EvaluateAllKills
  <2>1. UNCHANGED <<factory, outcomes, recorded, turnover, traded, alphaTime>>
    BY <1>5 DEF EvaluateAllKills
  <2>2. QED
    BY <1>0, <1>2, <1>5, <2>1, EvaluateMoves
<1>6. ASSUME NEW i \in DOMAIN signals, Deploy(i) \/ Monitor(i) \/ \E passed \in BOOLEAN : ValidateSignal(i, passed)
      PROVE  SignalInv' /\ \A j \in DOMAIN signals : Onto(signals[j].state, signals'[j].state)
  <2>1. ASSUME NEW state \in States, Onto(signals[i].state, state),
               signals' = [signals EXCEPT ![i].state = state],
               \/ unexamined' = unexamined \cup {i}
               \/ unexamined' = unexamined /\ (state \in {"deployed", "monitored"} => signals[i].state = "deployed"),
               UNCHANGED <<factory, outcomes, recorded, turnover, traded, told, alphaTime>>
        PROVE  SignalInv' /\ \A j \in DOMAIN signals : Onto(signals[j].state, signals'[j].state)
    <3>1. Onward
      BY <1>0, <2>1, SignalStateMoves
    <3>2. DOMAIN signals' = DOMAIN signals
      BY <2>1
    <3>3. QED
      BY <1>2, <2>1, <3>1, <3>2
  <2>2. CASE Deploy(i)
    <3>1. /\ signals[i].state = "validated" /\ signals' = [signals EXCEPT ![i].state = "deployed"]
          /\ unexamined' = unexamined \cup {i}
          /\ UNCHANGED <<factory, outcomes, recorded, turnover, traded, told, alphaTime>>
      BY <2>2 DEF Deploy
    <3>2. "deployed" \in States /\ Onto(signals[i].state, "deployed")
      BY <3>1, Stages DEF Onto, States
    <3>3. QED
      BY <2>1, <3>1, <3>2
  <2>3. CASE Monitor(i)
    <3>1. /\ signals[i].state = "deployed" /\ signals' = [signals EXCEPT ![i].state = "monitored"]
          /\ UNCHANGED <<factory, outcomes, recorded, turnover, traded, told, unexamined, alphaTime>>
      BY <2>3 DEF Monitor
    <3>2. "monitored" \in States /\ Onto(signals[i].state, "monitored")
      BY <3>1, Stages DEF Onto, States
    <3>3. QED
      BY <2>1, <3>1, <3>2
  <2>4. ASSUME NEW passed \in BOOLEAN, ValidateSignal(i, passed)
        PROVE  SignalInv' /\ \A j \in DOMAIN signals : Onto(signals[j].state, signals'[j].state)
    <3> DEFINE state == IF passed THEN "validated" ELSE "rejected"
    <3>1. /\ signals' = [signals EXCEPT ![i].state = state]
          /\ UNCHANGED <<factory, outcomes, recorded, turnover, traded, told, unexamined, alphaTime>>
      BY <2>4 DEF ValidateSignal
    <3>2. state \in States /\ state \in {"validated", "rejected"}
      BY DEF States
    <3> HIDE DEF state
    <3>3. Onto(signals[i].state, state)
      BY <1>s, <3>2, Stages DEF Onto, States
    <3>4. QED
      BY <2>1, <3>1, <3>2, <3>3
  <2>5. QED
    BY <1>6, <2>2, <2>3, <2>4
<1>7. ASSUME NEW i \in DOMAIN signals, NEW profit \in Profits, NEW error \in Errors,
             RecordSignalTrade(i, profit, error) \/ RecordOnSignal(i, profit, error)
      PROVE  SignalInv' /\ \A j \in DOMAIN signals : Onto(signals[j].state, signals'[j].state)
  <2>1. UNCHANGED <<factory, outcomes, recorded, turnover, traded, alphaTime>>
    BY <1>7, Zenon DEF RecordSignalTrade, RecordOnSignal
  <2>2. profit \in Int /\ error \in Int
    BY <1>0
  <2>3. Onward /\ DOMAIN signals' = DOMAIN signals
    BY <1>0, <1>7, <2>2, TradeMoves, PastMoves
  <2>4. QED
    BY <1>2, <2>1, <2>3
<1>8. ASSUME NEW i \in DOMAIN signals, RecordTurnover(i)
      PROVE  SignalInv' /\ \A j \in DOMAIN signals : Onto(signals[j].state, signals'[j].state)
  <2>1. UNCHANGED <<factory, outcomes, recorded, signals, told, unexamined, alphaTime>>
    BY <1>8, Zenon DEF RecordTurnover
  <2>2. Onward /\ OutcomeInv'
    BY <1>0, <2>1, NothingMoves, HistoryStays
  <2>3. TurnInv'
    BY <1>0, <1>8, TurnKept
  <2>4. QED
    BY <1>0, <2>1, <2>2, <2>3 DEF SignalInv, Onward
<1>9. CASE AlphaTick
  <2>1. alphaTime' = alphaTime + 1 /\ UNCHANGED <<factory, outcomes, recorded, turnover, traded, signals>>
    BY <1>9 DEF AlphaTick
  <2>2. Onward
    BY <1>0, <1>9, TickMoves
  <2>3. QED
    BY <1>2, <2>1, <2>2
<1>10. ASSUME NEW s \in AlphaSymbols, NEW error \in Errors, RecordOutcome(s, error)
      PROVE  SignalInv' /\ \A j \in DOMAIN signals : Onto(signals[j].state, signals'[j].state)
  <2>1. UNCHANGED <<factory, turnover, traded, signals, told, unexamined, alphaTime>>
    BY <1>10, Zenon DEF RecordOutcome
  <2>2. Onward
    BY <1>0, <2>1, NothingMoves
  <2>3. OutcomeInv'
    BY <1>0, <1>10, OutcomeKept
  <2>4. TurnInv'
    BY <1>0, <2>1, WindowShrinks
  <2>5. QED
    BY <1>0, <2>1, <2>2, <2>3, <2>4 DEF SignalInv, Onward
<1>11. CASE UNCHANGED alphaVars
  <2>1. UNCHANGED <<factory, outcomes, recorded, turnover, traded, signals, told, unexamined, alphaTime>>
    BY <1>11 DEF alphaVars
  <2>2. Onward
    BY <1>0, <2>1, NothingMoves
  <2>3. DOMAIN signals' = DOMAIN signals
    BY <2>1
  <2>4. QED
    BY <1>2, <2>1, <2>2, <2>3
<1>12. QED
  BY <1>3, <1>4, <1>5, <1>6, <1>7, <1>8, <1>9, <1>10, <1>11, Zenon DEF AlphaNext

\* What the invariant says of the part.
LEMMA SignalSays ==
  ASSUME SignalInv PROVE SignalTypeOK /\ NoneOutlivesItsMerit /\ HistoryFirst /\ TurnoverSpaced
<1>0. PoolInv /\ OutcomeInv /\ TurnInv
  BY DEF SignalInv
<1>1. /\ signals \in Seq(Signals) /\ told \in SUBSET (DOMAIN signals) /\ alphaTime \in Nat
      /\ \A i \in DOMAIN signals : i \in unexamined \/ Merits(signals[i], alphaTime)
  BY <1>0 DEF PoolInv
<1>2. \A i \in DOMAIN signals : /\ signals[i].of \in Proposals /\ signals[i].state \in States
                                /\ signals[i].score \in Scores /\ signals[i].created \in Nat
  BY <1>1, SignalParts
<1>3. /\ recorded \in Nat
      /\ outcomes \in [AlphaSymbols -> Seq(Errors)]
      /\ \A s \in AlphaSymbols : Len(outcomes[s]) <= VarianceWindow /\ Len(outcomes[s]) <= recorded
      /\ \A i \in DOMAIN signals :
           signals[i].made = "factory" => Len(outcomes[signals[i].of.symbol]) >= MinStable
  BY <1>0 DEF OutcomeInv
<1>4. SignalTypeOK
  <2>1. \A s \in AlphaSymbols : outcomes[s] \in BoundedSeq(Errors, VarianceWindow)
    <3>1. VarianceWindow \in Nat /\ \A s \in AlphaSymbols : outcomes[s] \in Seq(Errors)
      BY <1>3, SignalConstants
    <3>2. QED
      BY <1>3, <3>1, BoundedSequence
  <2>2. outcomes \in [AlphaSymbols -> BoundedSeq(Errors, VarianceWindow)]
    BY <1>3, <2>1
  <2>3. QED
    BY <1>1, <1>2, <1>3, <2>2 DEF SignalTypeOK, States
<1>5. NoneOutlivesItsMerit
  <2>1. SUFFICES ASSUME NEW i \in DOMAIN signals, i \notin unexamined, Active(signals[i]),
                        signals[i].score.count >= MinKill
                 PROVE  LET m == signals[i].score IN
                        /\ m.count >= SharpeTrades => m.sum > 0 /\ m.returns >= MinReturns
                        /\ m.dip <= MaxDip /\ m.missed \in -(MaxMissed * m.count) .. MaxMissed * m.count
                        /\ alphaTime - signals[i].created <= MaxAge /\ m.count <= MaxTrades
    BY DEF NoneOutlivesItsMerit
  <2> DEFINE m == signals[i].score
             born == signals[i].created
             most == MaxMissed * m.count
  <2>2. m \in Scores /\ born \in Nat /\ m.count >= MinKill /\ ~ CondemnedAt(signals[i], alphaTime)
    BY <1>1, <1>2, <2>1 DEF Merits
  <2>3. /\ ~ PoorSharpe(m) /\ ~ (m.dip > MaxDip) /\ ~ (m.count > MaxTrades)
        /\ ~ (m.missed > most) /\ ~ (-m.missed > most) /\ ~ (alphaTime - born > MaxAge)
    BY <2>2, Zenon DEF CondemnedAt
  <2>4. /\ m.count \in Nat /\ m.returns \in Nat /\ m.sum \in Int /\ m.dip \in Int /\ m.missed \in Int
        /\ MinReturns \in Nat /\ MaxDip \in Nat /\ MaxTrades \in Nat /\ MaxMissed \in Nat /\ MaxAge \in Nat
        /\ SharpeTrades \in Nat
    <3> HIDE DEF m
    <3>1. QED
      BY <2>2, SignalConstants DEF Scores
  <2>5. most \in Int
    BY <2>4
  <2> HIDE DEF m, born, most
  <2>6. m.count >= SharpeTrades => ~ (m.returns < MinReturns) /\ ~ (m.sum <= 0)
    BY <2>3, Zenon DEF PoorSharpe
  <2>7. /\ m.count >= SharpeTrades => m.sum > 0 /\ m.returns >= MinReturns
        /\ m.dip <= MaxDip /\ m.missed \in -most .. most /\ alphaTime - born <= MaxAge /\ m.count <= MaxTrades
    <3>1. alphaTime \in Int /\ born \in Int
      BY <1>1, <2>2
    <3>2. m.count >= SharpeTrades => m.sum > 0 /\ m.returns >= MinReturns
      BY <2>4, <2>6
    <3>3. m.dip <= MaxDip /\ m.count <= MaxTrades
      BY <2>3, <2>4
    <3>4. m.missed <= most /\ -most <= m.missed
      BY <2>3, <2>4, <2>5
    <3>5. alphaTime - born <= MaxAge
      BY <2>3, <2>4, <3>1
    <3>6. m.missed \in -most .. most
      BY <2>4, <2>5, <3>4
    <3>7. QED
      BY <3>2, <3>3, <3>5, <3>6
  <2>8. QED
    BY <2>7 DEF m, born, most
<1>6. HistoryFirst
  <2>1. SUFFICES ASSUME NEW i \in DOMAIN signals, signals[i].made = "factory"
                 PROVE  recorded >= MinStable /\ Len(outcomes[signals[i].of.symbol]) >= MinStable
    BY DEF HistoryFirst
  <2> DEFINE s == signals[i].of.symbol
  <2>2. s \in AlphaSymbols
    BY <1>2 DEF AlphaSymbols
  <2>3. Len(outcomes[s]) >= MinStable /\ MinStable \in Nat
    BY <1>3, <2>1, SignalConstants
  <2> HIDE DEF s
  <2>4. outcomes[s] \in Seq(Errors) /\ Len(outcomes[s]) <= recorded /\ recorded \in Nat
    BY <1>3, <2>2
  <2>5. Len(outcomes[s]) \in Nat
    BY <2>4
  <2>6. QED
    BY <2>3, <2>4, <2>5 DEF s
<1>7. QED
  BY <1>0, <1>4, <1>5, <1>6 DEF TurnInv
-----------------------------------------------------------------------------
(***************************************************************************)
(* DecisionPipeline: the ranges of what is in the queues, so that an edge  *)
(* stays below its costs; a cached regime that is no older than its        *)
(* lifetime; and the key that two processors write.                        *)
(***************************************************************************)
Markets == {"unknown", "volatile", "trending", "ranging"}
Features == [ofi : -100 .. 100, volatility : Nat, score : 0 .. 100, depth : Int, spread : Int]
Directed == [direction : -1 .. 1, strength : 0 .. 100, confidence : 0 .. 100, edge : -500 .. 500, regime : Markets]
Estimates == [return : {n \in Int : n <= 0}, cost : Nat, confidence : 0 .. 100]

\* A regime in the cache is the one in the key, unless its write failed.
CacheIsWritten == regimeCached >= 0 => unwritten \/ regimeKey.at = regimeCached

PathInv ==
  /\ pipelineTime \in 0 .. MaxPipelineTime /\ booked \in 0 .. MaxBooks /\ heardCount \in 0 .. MaxHeard
  /\ toAlpha \in Seq(Features) /\ toRegime \in Seq(Features)
  /\ toEstimate \in Seq(Directed) /\ toDecide \in Seq(Estimates)
  /\ \A d \in decided : d.verdict = "REJECT" /\ d.estimate.return <= 0
  /\ regimeKey.market \in Markets /\ regimeCached \in Int /\ CacheIsWritten /\ RegimeIsRenewed

\* The elements of a sequence are those it has.
Listed(q) == q \in Seq(ToSet(q))

KeyInv ==
  /\ fills \in 0 .. MaxFills /\ reconciled \in 0 .. MaxReconciled
  /\ DOMAIN holding = {"gap", "score"}
  /\ \A w \in {"gap", "score"} : holding[w].at \in {"idle", "set"} /\ Listed(holding[w].read)
  /\ Listed(gapKey) /\ entered \in Nat /\ overlapped \in BOOLEAN
  /\ OnlyOverlapsLose
PipelineInv == PathInv /\ KeyInv

\* Both paths begin with empty queues.
LEMMA PipelineBegins == SignalInit /\ TruthInit => PipelineInv
<1> SUFFICES ASSUME SignalInit, TruthInit PROVE PipelineInv
  OBVIOUS
<1>1. PathInv
  <2>1. /\ pipelineTime = 0 /\ booked = 0 /\ heardCount = 0
        /\ toAlpha = <<>> /\ toRegime = <<>> /\ toEstimate = <<>> /\ toDecide = <<>>
        /\ regimeKey = [market |-> "unknown", at |-> -1] /\ regimeCached = -1 /\ regimeSeen = -1
        /\ decided = {}
    BY DEF SignalInit
  <2>2. toAlpha \in Seq(Features) /\ toRegime \in Seq(Features) /\ toEstimate \in Seq(Directed) /\ toDecide \in Seq(Estimates)
    BY <2>1
  <2>3. regimeKey.market = "unknown"
    BY <2>1
  <2>4. QED
    BY <2>1, <2>2, <2>3, PipelineConstants DEF PathInv, Markets, CacheIsWritten, RegimeIsRenewed
<1>2. KeyInv
  <2>1. /\ fills = 0 /\ reconciled = 0 /\ gapKey = <<>> /\ holding = [w \in {"gap", "score"} |-> Away]
        /\ entered = 0 /\ overlapped = FALSE
    BY DEF TruthInit
  <2>2. \A w \in {"gap", "score"} : holding[w].at = "idle" /\ holding[w].read = <<>>
    BY <2>1 DEF Away
  <2>3. Listed(<<>>) /\ Len(<<>>) = 0
    BY DEF Listed
  <2>4. Listed(gapKey) /\ \A w \in {"gap", "score"} : Listed(holding[w].read)
    BY <2>1, <2>2, <2>3
  <2>5. OnlyOverlapsLose
    BY <2>1, <2>3 DEF OnlyOverlapsLose
  <2>6. DOMAIN holding = {"gap", "score"}
    BY <2>1
  <2>7. fills \in 0 .. MaxFills /\ reconciled \in 0 .. MaxReconciled /\ entered \in Nat
    BY <2>1, PipelineConstants
  <2>b. overlapped \in BOOLEAN
    BY <2>1
  <2>8. QED
    BY <2>b, <2>2, <2>4, <2>5, <2>6, <2>7 DEF KeyInv
<1>3. QED
  BY <1>1, <1>2 DEF PipelineInv

-----------------------------------------------------------------------------
\* The magnitude of a number, and what it is capped at.
LEMMA MagnitudeFacts ==
  ASSUME NEW n \in Int
  PROVE  Magnitude(n) \in Nat /\ (n \in -100 .. 100 => Magnitude(n) <= 100)
BY DEF Magnitude

\* What is capped is in its range.
LEMMA CappedFacts ==
  ASSUME NEW n \in Nat PROVE Capped(n, 100) \in 0 .. 100
<1>1. Min({n, 100}) = IF n <= 100 THEN n ELSE 100
  BY TwoNumbers
<1>2. QED
  BY <1>1 DEF Capped

\* The score of a book is a percentage.
LEMMA MicrostructureFacts ==
  ASSUME NEW b \in Books PROVE Microstructure(b) \in 0 .. 100
<1> DEFINE s == Max({0, 100 - 10 * b.bps})
           o == Magnitude(b.ofi)
           v == Max({0, 100 - b.volatility})
<1>1. b.ofi \in -100 .. 100 /\ b.ofi \in Int /\ b.bps \in Nat /\ b.volatility \in Nat
  BY PipelineConstants
<1>2. s \in 0 .. 100
  <2>1. 100 - 10 * b.bps \in Int /\ 100 - 10 * b.bps <= 100
    BY <1>1
  <2>2. s = IF 0 >= 100 - 10 * b.bps THEN 0 ELSE 100 - 10 * b.bps
    BY <2>1, TwoNumbers
  <2>3. QED
    BY <2>1, <2>2
<1>3. v \in 0 .. 100
  <2>1. 100 - b.volatility \in Int /\ 100 - b.volatility <= 100
    BY <1>1
  <2>2. v = IF 0 >= 100 - b.volatility THEN 0 ELSE 100 - b.volatility
    BY <2>1, TwoNumbers
  <2>3. QED
    BY <2>1, <2>2
<1>4. o \in 0 .. 100
  BY <1>1 DEF Magnitude
<1> HIDE DEF s, o, v
<1>5. (40 * s + 30 * (100 - o) + 30 * v) \div 100 \in 0 .. 100
  BY <1>2, <1>3, <1>4
<1>6. QED
  BY <1>5 DEF Microstructure, s, o, v

\* A percentage of a percentage.
LEMMA PercentOfPercent ==
  ASSUME NEW a \in Int, NEW b \in Int, 0 <= a, a <= 100, 0 <= b, b <= 100
  PROVE  a * b \in Int /\ 0 <= a * b /\ a * b <= 10000
<1>1. a * b <= 100 * b /\ 0 <= a * b
  OBVIOUS
<1>2. QED
  BY <1>1

\* The figures of a signal, from features.
LEMMA AlphaFacts ==
  ASSUME NEW f \in Features
  PROVE  /\ FiltersPassed(f) \in 0 .. 3 /\ Direction(f) \in -1 .. 1 /\ Strength(f) \in 0 .. 100
         /\ AlphaConfidence(f) \in 0 .. 100 /\ AlphaEdge(f) \in -500 .. 500
<1>1. f.ofi \in Int /\ f.score \in 0 .. 100 /\ f.depth \in Int /\ f.spread \in Int
  BY DEF Features
<1>2. FiltersPassed(f) \in 0 .. 3
  <2> DEFINE X == {"ofi", "depth", "quality"}
             P == {x \in X : CASE x = "ofi" -> Magnitude(f.ofi) >= 30
                               [] x = "depth" -> Magnitude(f.depth) >= 150
                               [] OTHER -> f.score >= 40}
  <2>1. IsFiniteSet(X) /\ Cardinality(X) = 3
    <3>1. IsFiniteSet({"ofi"}) /\ Cardinality({"ofi"}) = 1
      BY FS_Singleton
    <3>2. IsFiniteSet({"ofi"} \cup {"depth"}) /\ Cardinality({"ofi"} \cup {"depth"}) = 2
      <4>1. "depth" \notin {"ofi"}
        OBVIOUS
      <4> DEFINE Z == {"ofi"}
      <4>2. IsFiniteSet(Z) /\ Cardinality(Z) = 1 /\ "depth" \notin Z
        BY <3>1, <4>1
      <4> HIDE DEF Z
      <4>3. IsFiniteSet(Z \cup {"depth"}) /\ Cardinality(Z \cup {"depth"}) = Cardinality(Z) + 1
        BY <4>2, FS_AddElement
      <4>4. QED
        BY <4>2, <4>3 DEF Z
    <3> DEFINE Y == {"ofi"} \cup {"depth"}
    <3>3. "quality" \notin Y /\ X = Y \cup {"quality"} /\ IsFiniteSet(Y) /\ Cardinality(Y) = 2
      BY <3>2
    <3> HIDE DEF Y, X
    <3>4. QED
      BY <3>3, FS_AddElement
  <2>2. P \in SUBSET X
    OBVIOUS
  <2>3. FiltersPassed(f) = Cardinality(P)
    BY DEF FiltersPassed
  <2> HIDE DEF P, X
  <2>4. IsFiniteSet(P) /\ Cardinality(P) <= Cardinality(X)
    BY <2>1, <2>2, FS_Subset
  <2>5. Cardinality(P) \in Nat
    BY <2>4, FS_CardinalityType
  <2>6. QED
    BY <2>1, <2>3, <2>4, <2>5
<1>3. Direction(f) \in -1 .. 1
  BY DEF Direction, Signed
<1>4. Strength(f) \in 0 .. 100
  <2> DEFINE a == Capped((100 * Magnitude(f.ofi)) \div 30, 100)
             b == Capped((100 * Magnitude(f.depth)) \div 150, 100)
             c == Capped((100 * Magnitude(f.spread)) \div 150, 100)
  <2>1. ASSUME NEW n \in Nat PROVE (100 * n) \div 30 \in Nat /\ (100 * n) \div 150 \in Nat
    OBVIOUS
  <2>2. Magnitude(f.ofi) \in Nat /\ Magnitude(f.depth) \in Nat /\ Magnitude(f.spread) \in Nat
    BY <1>1, MagnitudeFacts
  <2>3. a \in 0 .. 100 /\ b \in 0 .. 100 /\ c \in 0 .. 100
    BY <2>1, <2>2, CappedFacts
  <2> HIDE DEF a, b, c
  <2>4. (50 * a + 30 * b + 20 * c) \div 100 \in 0 .. 100
    BY <2>3
  <2>5. QED
    BY <2>4 DEF Strength, a, b, c
<1>5. AlphaConfidence(f) \in 0 .. 100
  <2> DEFINE s == f.score
             n == FiltersPassed(f)
  <2>1. s \in 0 .. 100 /\ n \in 0 .. 3
    BY <1>1, <1>2
  <2>2. AlphaConfidence(f) = (s * n) \div 3
    BY DEF AlphaConfidence
  <2> HIDE DEF s, n
  <2>3. n = 0 \/ n = 1 \/ n = 2 \/ n = 3
    BY <2>1
  <2>4. s * n \in 0 .. 300
    BY <2>1, <2>3
  <2> DEFINE p == s * n
  <2>5. p \in 0 .. 300 /\ AlphaConfidence(f) = p \div 3
    BY <2>2, <2>4
  <2> HIDE DEF p
  <2>6. QED
    BY <2>5
<1>6. AlphaEdge(f) \in -500 .. 500
  <2> DEFINE s == Strength(f)
             c == AlphaConfidence(f)
             d == Direction(f)
             e == (500 * s * c) \div 10000
  <2>1. AlphaEdge(f) = IF c < 50 THEN 0 ELSE d * e
    BY DEF AlphaEdge
  <2>2. s \in 0 .. 100 /\ c \in 0 .. 100 /\ d \in -1 .. 1
    BY <1>3, <1>4, <1>5
  <2> HIDE DEF s, c, d
  <2> DEFINE p == s * c
  <2>3. p \in 0 .. 10000 /\ 500 * s * c = 500 * p
    <3>1. s \in Int /\ c \in Int /\ 0 <= s /\ s <= 100 /\ 0 <= c /\ c <= 100
      BY <2>2
    <3>2. p \in Int /\ 0 <= p /\ p <= 10000
      BY <3>1, PercentOfPercent
    <3>3. 500 * s * c = 500 * p
      BY <3>1
    <3> HIDE DEF p
    <3>4. QED
      BY <3>2, <3>3
  <2>4. e = (500 * p) \div 10000
    BY <2>3
  <2> HIDE DEF p, e
  <2>5. e \in 0 .. 500
    BY <2>3, <2>4
  <2>6. d = -1 \/ d = 0 \/ d = 1
    BY <2>2
  <2>7. d * e \in -500 .. 500
    BY <2>5, <2>6
  <2>8. QED
    BY <2>1, <2>7
<1>7. QED
  BY <1>2, <1>3, <1>4, <1>5, <1>6

\* An edge of five basis points does not pay for eleven.
LEMMA NoReturn ==
  ASSUME NEW s \in Directed
  PROVE  /\ TotalCost(s) \in Nat
         /\ ((s.edge - TotalCost(s)) * s.strength * s.confidence) \div 10000 \in {n \in Int : n <= 0}
<1> DEFINE e == s.edge
           a == s.strength
           b == s.confidence
           net == e - TotalCost(s)
           p == a * b
<1>1. e \in -500 .. 500 /\ a \in 0 .. 100 /\ b \in 0 .. 100
  BY DEF Directed
<1>2. TotalCost(s) = 1100 + a
  BY <1>1 DEF TotalCost
<1> HIDE DEF e, a, b
<1>3. net \in Int /\ net < 0 /\ TotalCost(s) \in Nat
  BY <1>1, <1>2
<1>4. p \in 0 .. 10000
  <2>1. a \in Int /\ b \in Int /\ 0 <= a /\ a <= 100 /\ 0 <= b /\ b <= 100
    BY <1>1
  <2>2. p \in Int /\ 0 <= p /\ p <= 10000
    BY <2>1, PercentOfPercent
  <2> HIDE DEF p
  <2>3. QED
    BY <2>2
<1>5. net * a * b = net * p
  BY <1>1, <1>3
<1> HIDE DEF net, p
<1>6. net * p \in Int /\ net * p <= 0
  BY <1>3, <1>4
<1> DEFINE q == net * p
<1>7. q \in Int /\ q <= 0
  BY <1>6
<1> HIDE DEF q
<1>8. q \div 10000 \in Int /\ q \div 10000 <= 0
  BY <1>7
<1>9. (net * a * b) \div 10000 \in {n \in Int : n <= 0}
  BY <1>5, <1>8 DEF q
<1>10. QED
  BY <1>3, <1>9 DEF net, e, a, b
-----------------------------------------------------------------------------
\* A queue gets one more element, or loses its first.
LEMMA QueueFacts ==
  ASSUME NEW T, NEW q \in Seq(T)
  PROVE  /\ \A e \in T : Append(q, e) \in Seq(T)
         /\ q # <<>> => Tail(q) \in Seq(T) /\ Head(q) \in T
OBVIOUS

\* What hears an event queues features, or what stands for them.
LEMMA HeardFacts ==
  ASSUME toAlpha \in Seq(Features), toRegime \in Seq(Features), heardCount \in 0 .. MaxHeard,
         NEW rest \in Seq(Features), NEW f \in Features, Heard(rest, f) \/ Unheard(rest)
  PROVE  toAlpha' \in Seq(Features) /\ toRegime' \in Seq(Features) /\ heardCount' \in 0 .. MaxHeard
<1>1. CASE Heard(rest, f)
  <2>1. /\ heardCount < MaxHeard /\ heardCount' = heardCount + 1
        /\ toAlpha' = Append(rest, f) /\ toRegime' = Append(toRegime, f)
    BY <1>1 DEF Heard
  <2>2. toAlpha' \in Seq(Features) /\ toRegime' \in Seq(Features)
    BY <2>1, QueueFacts
  <2>3. heardCount' \in 0 .. MaxHeard
    BY <2>1, PipelineConstants
  <2>4. QED
    BY <2>2, <2>3
<1>2. CASE Unheard(rest)
  BY <1>2 DEF Unheard
<1>3. QED
  BY <1>1, <1>2

\* An event without features is heard as one with features.
LEMMA NoFeaturesAreFeatures == NoFeatures \in Features
BY DEF NoFeatures, Features

\* Copies of an element make a queue longer.
LEMMA CopiesFacts ==
  ASSUME NEW T, NEW q \in Seq(T), NEW e \in T, NEW copies \in Copies(e)
  PROVE  q \o copies \in Seq(T)
<1>1. copies = <<e>> \/ copies = <<e, e>>
  BY DEF Copies
<1>2. <<e>> \in Seq(T) /\ <<e, e>> \in Seq(T)
  OBVIOUS
<1>3. q \o <<e>> \in Seq(T) /\ q \o <<e, e>> \in Seq(T)
  BY <1>2
<1>4. QED
  BY <1>1, <1>3, Zenon

\* Every step of the signal path, and none, keeps its invariant.
LEMMA PathSteps ==
  ASSUME PathInv, SignalNext \/ UNCHANGED signalPath PROVE PathInv'
<1>0. /\ pipelineTime \in 0 .. MaxPipelineTime /\ booked \in 0 .. MaxBooks /\ heardCount \in 0 .. MaxHeard
      /\ toAlpha \in Seq(Features) /\ toRegime \in Seq(Features)
      /\ toEstimate \in Seq(Directed) /\ toDecide \in Seq(Estimates)
      /\ \A d \in decided : d.verdict = "REJECT" /\ d.estimate.return <= 0
      /\ regimeKey.market \in Markets /\ regimeCached \in Int /\ CacheIsWritten /\ RegimeIsRenewed
      /\ NoFeatures \in Features
  BY NoFeaturesAreFeatures DEF PathInv
<1>1. CASE ComputeFeatures
  <2>1. PICK b \in Books :
    LET f == [ofi |-> b.ofi, volatility |-> b.volatility, score |-> Microstructure(b),
              depth |-> IF booked' < MinHistory THEN 0 ELSE b.depth,
              spread |-> IF booked' < MinHistory THEN 0 ELSE b.spread] IN
    /\ booked < MaxBooks /\ booked' = booked + 1
    /\ Heard(toAlpha, f) \/ Unheard(toAlpha)
    /\ UNCHANGED <<pipelineTime, toEstimate, toDecide, regimeFacts, decided, truthPath>>
    BY <1>1, Zenon DEF ComputeFeatures
  <2> DEFINE f == [ofi |-> b.ofi, volatility |-> b.volatility, score |-> Microstructure(b),
                   depth |-> IF booked' < MinHistory THEN 0 ELSE b.depth,
                   spread |-> IF booked' < MinHistory THEN 0 ELSE b.spread]
  <2>2. /\ booked < MaxBooks /\ booked' = booked + 1
        /\ Heard(toAlpha, f) \/ Unheard(toAlpha)
        /\ UNCHANGED <<pipelineTime, toEstimate, toDecide, regimeFacts, decided>>
    BY <2>1
  <2>3. f \in Features
    <3>1. /\ b.ofi \in -100 .. 100 /\ b.depth \in Int /\ b.spread \in Int /\ b.volatility \in Nat
          /\ Microstructure(b) \in 0 .. 100
      BY PipelineConstants, MicrostructureFacts
    <3>2. QED
      BY <3>1 DEF Features
  <2> HIDE DEF f
  <2>4. toAlpha' \in Seq(Features) /\ toRegime' \in Seq(Features) /\ heardCount' \in 0 .. MaxHeard
    BY <1>0, <2>2, <2>3, HeardFacts
  <2>5. booked' \in 0 .. MaxBooks
    BY <1>0, <2>2, PipelineConstants
  <2>6. QED
    BY <1>0, <2>2, <2>4, <2>5 DEF PathInv, CacheIsWritten, RegimeIsRenewed, regimeFacts
<1>2. CASE OtherEvent
  <2>1. /\ Heard(toAlpha, NoFeatures)
        /\ UNCHANGED <<pipelineTime, booked, toEstimate, toDecide, regimeFacts, decided>>
    BY <1>2 DEF OtherEvent
  <2>2. toAlpha' \in Seq(Features) /\ toRegime' \in Seq(Features) /\ heardCount' \in 0 .. MaxHeard
    BY <1>0, <2>1, HeardFacts
  <2>3. QED
    BY <1>0, <2>1, <2>2 DEF PathInv, CacheIsWritten, RegimeIsRenewed, regimeFacts
<1>3. CASE GenerateSignal
  <2> DEFINE f == Head(toAlpha)
             s == [direction |-> Direction(f), strength |-> Strength(f), confidence |-> AlphaConfidence(f),
                   edge |-> AlphaEdge(f), regime |-> regimeKey.market]
  <2>1. /\ toAlpha # <<>>
        /\ \/ Heard(Tail(toAlpha), NoFeatures) /\ toEstimate' = Append(toEstimate, s)
           \/ Unheard(Tail(toAlpha)) /\ UNCHANGED toEstimate
        /\ UNCHANGED <<pipelineTime, booked, toDecide, regimeFacts, decided>>
    BY <1>3 DEF GenerateSignal
  <2>2. Tail(toAlpha) \in Seq(Features) /\ f \in Features
    BY <1>0, <2>1, QueueFacts
  <2> HIDE DEF f
  <2>3. s \in Directed
    <3>1. /\ Direction(f) \in -1 .. 1 /\ Strength(f) \in 0 .. 100 /\ AlphaConfidence(f) \in 0 .. 100
          /\ AlphaEdge(f) \in -500 .. 500
      BY <2>2, AlphaFacts
    <3>2. QED
      BY <1>0, <3>1, Zenon DEF Directed
  <2> HIDE DEF s
  <2>4. toEstimate' \in Seq(Directed)
    <3>1. Append(toEstimate, s) \in Seq(Directed)
      BY <1>0, <2>3, QueueFacts
    <3>2. QED
      BY <1>0, <2>1, <3>1
  <2>5. toAlpha' \in Seq(Features) /\ toRegime' \in Seq(Features) /\ heardCount' \in 0 .. MaxHeard
    BY <1>0, <2>1, <2>2, HeardFacts
  <2>6. QED
    BY <1>0, <2>1, <2>4, <2>5 DEF PathInv, CacheIsWritten, RegimeIsRenewed, regimeFacts
<1>4. CASE DetectRegime
  <2> DEFINE f == Head(toRegime)
             valid == regimeCached >= 0 /\ pipelineTime - regimeCached < CacheTtl
  <2>1. /\ toRegime # <<>> /\ toRegime' = Tail(toRegime) /\ regimeSeen' = pipelineTime
        /\ \/ valid /\ UNCHANGED <<regimeCached, regimeKey, unwritten>>
           \/ /\ ~ valid /\ regimeCached' = pipelineTime
              /\ \/ regimeKey' = [market |-> MarketRegime(f), at |-> pipelineTime] /\ unwritten' = FALSE
                 \/ unwritten' = TRUE /\ UNCHANGED regimeKey
        /\ UNCHANGED <<pipelineTime, booked, heardCount, toAlpha, toEstimate, toDecide, decided>>
    BY <1>4 DEF DetectRegime
  <2>2. toRegime' \in Seq(Features)
    BY <1>0, <2>1, QueueFacts
  <2>3. MarketRegime(f) \in Markets
    BY DEF MarketRegime, Markets
  <2>4. regimeKey'.market \in Markets /\ regimeCached' \in Int
    BY <1>0, <2>1, <2>3
  <2>5. CacheIsWritten' /\ RegimeIsRenewed'
    <3>1. CASE valid /\ UNCHANGED <<regimeCached, regimeKey, unwritten>>
      BY <1>0, <2>1, <3>1 DEF CacheIsWritten, RegimeIsRenewed
    <3>2. CASE regimeCached' = pipelineTime /\ (unwritten' = TRUE \/ regimeKey'.at = pipelineTime)
      BY <1>0, <2>1, <3>2, PipelineConstants DEF CacheIsWritten, RegimeIsRenewed
    <3>3. CASE regimeCached' = pipelineTime /\ regimeKey' = [market |-> MarketRegime(f), at |-> pipelineTime]
      <4>1. regimeKey'.at = pipelineTime
        BY <3>3
      <4>2. QED
        BY <3>2, <3>3, <4>1
    <3> HIDE DEF valid
    <3>4. QED
      BY <2>1, <3>1, <3>2, <3>3, Zenon
  <2>6. QED
    BY <1>0, <2>1, <2>2, <2>4, <2>5 DEF PathInv
<1>5. CASE Estimate
  <2> DEFINE s == Head(toEstimate)
             return == ((s.edge - TotalCost(s)) * s.strength * s.confidence) \div 10000
             e == [return |-> return, cost |-> TotalCost(s), confidence |-> s.confidence]
  <2>1. /\ toEstimate # <<>> /\ toEstimate' = Tail(toEstimate)
        /\ \/ Heard(toAlpha, NoFeatures) /\ \E copies \in Copies(e) : toDecide' = toDecide \o copies
           \/ Unheard(toAlpha) /\ UNCHANGED toDecide
        /\ UNCHANGED <<pipelineTime, booked, regimeFacts, decided>>
    BY <1>5 DEF Estimate
  <2>2. toEstimate' \in Seq(Directed) /\ s \in Directed
    BY <1>0, <2>1, QueueFacts
  <2> HIDE DEF s
  <2>3. e \in Estimates
    <3>1. return \in {n \in Int : n <= 0} /\ TotalCost(s) \in Nat
      BY <2>2, NoReturn
    <3>2. s.confidence \in 0 .. 100
      BY <2>2 DEF Directed
    <3> HIDE DEF return
    <3>3. QED
      BY <3>1, <3>2, Zenon DEF Estimates
  <2> HIDE DEF e
  <2>4. toDecide' \in Seq(Estimates)
    <3>1. \A copies \in Copies(e) : toDecide \o copies \in Seq(Estimates)
      BY <1>0, <2>3, CopiesFacts
    <3>2. QED
      BY <1>0, <2>1, <3>1
  <2>5. toAlpha' \in Seq(Features) /\ toRegime' \in Seq(Features) /\ heardCount' \in 0 .. MaxHeard
    BY <1>0, <2>1, HeardFacts
  <2>6. QED
    BY <1>0, <2>1, <2>2, <2>4, <2>5 DEF PathInv, CacheIsWritten, RegimeIsRenewed, regimeFacts
<1>6. CASE DecideOnEstimate
  <2> DEFINE e == Head(toDecide)
             d == [estimate |-> e, verdict |-> Verdict(e)]
  <2>1. /\ toDecide # <<>> /\ toDecide' = Tail(toDecide) /\ decided' = decided \cup {d}
        /\ Heard(toAlpha, NoFeatures) \/ Unheard(toAlpha)
        /\ UNCHANGED <<pipelineTime, booked, toEstimate, regimeFacts>>
    BY <1>6 DEF DecideOnEstimate
  <2>2. toDecide' \in Seq(Estimates) /\ e \in Estimates
    BY <1>0, <2>1, QueueFacts
  <2> HIDE DEF e
  <2>3. e.return \in Int /\ e.return <= 0
    BY <2>2 DEF Estimates
  <2>4. Verdict(e) = "REJECT"
    BY <2>3 DEF Verdict
  <2>5. d.verdict = "REJECT" /\ d.estimate = e
    BY <2>4
  <2> HIDE DEF d
  <2>6. \A x \in decided' : x.verdict = "REJECT" /\ x.estimate.return <= 0
    BY <1>0, <2>1, <2>3, <2>5
  <2>7. toAlpha' \in Seq(Features) /\ toRegime' \in Seq(Features) /\ heardCount' \in 0 .. MaxHeard
    BY <1>0, <2>1, HeardFacts
  <2>8. QED
    BY <1>0, <2>1, <2>2, <2>6, <2>7 DEF PathInv, CacheIsWritten, RegimeIsRenewed, regimeFacts
<1>7. CASE PipelineTick
  <2>1. /\ pipelineTime < MaxPipelineTime /\ pipelineTime' = pipelineTime + 1
        /\ UNCHANGED <<booked, heardCount, toAlpha, toRegime, toEstimate, toDecide, regimeFacts, decided>>
    BY <1>7 DEF PipelineTick
  <2>2. pipelineTime' \in 0 .. MaxPipelineTime
    BY <1>0, <2>1, PipelineConstants
  <2>3. QED
    BY <1>0, <2>1, <2>2 DEF PathInv, CacheIsWritten, RegimeIsRenewed, regimeFacts
<1>8. CASE UNCHANGED signalPath
  BY <1>8 DEF PathInv, CacheIsWritten, RegimeIsRenewed, signalPath, regimeFacts
<1>9. QED
  BY <1>1, <1>2, <1>3, <1>4, <1>5, <1>6, <1>7, <1>8 DEF SignalNext

-----------------------------------------------------------------------------
\* One more element, and the last of a sequence.
LEMMA ListedMore ==
  ASSUME NEW q, Listed(q), NEW e
  PROVE  Len(q) \in Nat /\ Listed(Append(q, e)) /\ Len(Append(q, e)) = Len(q) + 1
<1> DEFINE T == ToSet(q) \cup {e}
           r == Append(q, e)
<1>1. q \in Seq(ToSet(q)) /\ Len(q) \in Nat
  BY DEF Listed
<1>2. \A i \in 1 .. Len(q) : q[i] \in T
  BY <1>1 DEF ToSet
<1>3. q \in Seq(T)
  <2> HIDE DEF T
  <2>1. QED
    BY <1>1, <1>2, SequenceType
<1>4. e \in T
  OBVIOUS
<1> HIDE DEF T
<1>5. r \in Seq(T) /\ Len(r) = Len(q) + 1
  BY <1>3, <1>4
<1> HIDE DEF r
<1>6. r \in Seq(ToSet(r))
  <2>1. DOMAIN r = 1 .. Len(r)
    BY <1>5
  <2>2. \A i \in 1 .. Len(r) : r[i] \in ToSet(r)
    BY <2>1 DEF ToSet
  <2>3. QED
    BY <1>5, <2>2, SequenceType
<1>7. QED
  BY <1>1, <1>5, <1>6 DEF Listed, r

\* The last elements of a list are listed.
LEMMA ListedLast ==
  ASSUME NEW q, Listed(q), NEW n \in Nat \ {0}
  PROVE  Listed(LastOf(q, n)) /\ (Len(q) <= n => Len(LastOf(q, n)) = Len(q))
<1> DEFINE m == Len(q)
           a == IF 1 >= m - n + 1 THEN 1 ELSE m - n + 1
           r == SubSeq(q, a, m)
<1>1. q \in Seq(ToSet(q)) /\ m \in Nat /\ n \in Nat /\ n >= 1
  BY DEF Listed
<1>2. LastOf(q, n) = r
  <2>1. m - n + 1 \in Int
    BY <1>1
  <2>2. Max({1, m - n + 1}) = a
    BY <2>1, TwoNumbers
  <2>3. QED
    BY <2>2 DEF LastOf
<1>3. a \in 1 .. m + 1 /\ (m <= n => a = 1)
  <2> HIDE DEF m
  <2>1. QED
    BY <1>1
<1> HIDE DEF a
<1>4. r \in Seq(ToSet(q)) /\ Len(r) = m - a + 1
  BY <1>1, <1>3
<1> HIDE DEF r
<1>5. Listed(r)
  <2>1. DOMAIN r = 1 .. Len(r)
    BY <1>4
  <2>2. \A i \in 1 .. Len(r) : r[i] \in ToSet(r)
    BY <2>1 DEF ToSet
  <2>3. QED
    BY <1>4, <2>2, SequenceType DEF Listed
<1>6. m <= n => Len(r) = m
  <2> HIDE DEF m
  <2>1. QED
    BY <1>1, <1>3, <1>4
<1>7. QED
  BY <1>2, <1>5, <1>6

\* What the two writers hold.
HeldWell(f) ==
  /\ DOMAIN f = {"gap", "score"}
  /\ \A x \in {"gap", "score"} : f[x].at \in {"idle", "set"} /\ Listed(f[x].read)

\* What one writer holds leaves what the other one holds.
LEMMA HeldAnew ==
  ASSUME NEW f, HeldWell(f), NEW w \in {"gap", "score"}, NEW h, h.at \in {"idle", "set"}, Listed(h.read)
  PROVE  HeldWell([f EXCEPT ![w] = h])
<1> DEFINE g == [f EXCEPT ![w] = h]
<1>1. DOMAIN f = {"gap", "score"} /\ \A x \in {"gap", "score"} : f[x].at \in {"idle", "set"} /\ Listed(f[x].read)
  BY DEF HeldWell
<1>2. DOMAIN g = {"gap", "score"} /\ g[w] = h /\ \A x \in {"gap", "score"} : x # w => g[x] = f[x]
  BY <1>1
<1> HIDE DEF g
<1>3. \A x \in {"gap", "score"} : g[x].at \in {"idle", "set"} /\ Listed(g[x].read)
  <2>1. TAKE x \in {"gap", "score"}
  <2>2. CASE x = w
    BY <1>2, <2>2
  <2>3. CASE x # w
    BY <1>1, <1>2, <2>3
  <2>4. QED
    BY <2>2, <2>3
<1>4. QED
  BY <1>2, <1>3 DEF HeldWell, g

\* Every step of the truth path, and none, keeps its invariant.
LEMMA KeySteps ==
  ASSUME KeyInv, TruthNext \/ UNCHANGED truthPath PROVE KeyInv'
<1>0. /\ fills \in 0 .. MaxFills /\ reconciled \in 0 .. MaxReconciled
      /\ DOMAIN holding = {"gap", "score"}
      /\ \A w \in {"gap", "score"} : holding[w].at \in {"idle", "set"} /\ Listed(holding[w].read)
      /\ Listed(gapKey) /\ entered \in Nat /\ overlapped \in BOOLEAN
      /\ OnlyOverlapsLose /\ MaxFills \in Nat /\ MaxReconciled \in Nat
  BY PipelineConstants DEF KeyInv
<1>1. CASE RecordFilled
  <2>1. fills < MaxFills /\ fills' = fills + 1 /\ UNCHANGED <<reconciled, gapKey, holding, entered, overlapped>>
    BY <1>1 DEF RecordFilled
  <2>2. fills' \in 0 .. MaxFills
    BY <1>0, <2>1
  <2>3. QED
    BY <1>0, <2>1, <2>2 DEF KeyInv, OnlyOverlapsLose
<1>2. CASE Reconciled
  <2>1. reconciled < MaxReconciled /\ reconciled' = reconciled + 1
        /\ UNCHANGED <<fills, gapKey, holding, entered, overlapped>>
    BY <1>2 DEF Reconciled
  <2>2. reconciled' \in 0 .. MaxReconciled
    BY <1>0, <2>1
  <2>3. QED
    BY <1>0, <2>1, <2>2 DEF KeyInv, OnlyOverlapsLose
<1>3. CASE MeasureTruth \/ NoteTruth \/ UNCHANGED truthPath
  <2>1. UNCHANGED <<fills, reconciled, gapKey, holding, entered, overlapped>>
    BY <1>3 DEF MeasureTruth, NoteTruth, truthPath
  <2>2. QED
    BY <1>0, <2>1 DEF KeyInv, OnlyOverlapsLose
<1>4. HeldWell(holding)
  BY <1>0 DEF HeldWell
<1>5. CASE MeasureGap
  <2> DEFINE h == [at |-> "set", read |-> gapKey, entry |-> Gap(Head(toGap).value)]
  <2>1. UNCHANGED <<fills, reconciled, gapKey, entered, overlapped>>
        /\ (UNCHANGED holding \/ holding' = [holding EXCEPT !["gap"] = h])
    BY <1>5 DEF MeasureGap
  <2>2. h.at \in {"idle", "set"} /\ Listed(h.read)
    BY <1>0
  <2> HIDE DEF h
  <2>3. HeldWell(holding')
    <3>1. HeldWell([holding EXCEPT !["gap"] = h])
      BY <1>4, <2>2, HeldAnew
    <3>2. QED
      BY <1>4, <2>1, <3>1
  <2>4. QED
    BY <1>0, <2>1, <2>3 DEF KeyInv, OnlyOverlapsLose, HeldWell
<1>6. CASE NoteScore
  <2> DEFINE h == [at |-> "set", read |-> gapKey, entry |-> Head(toScore)]
  <2>1. UNCHANGED <<fills, reconciled, gapKey, entered, overlapped>>
        /\ holding' = [holding EXCEPT !["score"] = h]
    BY <1>6 DEF NoteScore
  <2>2. h.at \in {"idle", "set"} /\ Listed(h.read)
    BY <1>0
  <2> HIDE DEF h
  <2>3. HeldWell(holding')
    <3>1. HeldWell([holding EXCEPT !["score"] = h])
      BY <1>4, <2>2, HeldAnew
    <3>2. QED
      BY <2>1, <3>1
  <2>4. QED
    BY <1>0, <2>1, <2>3 DEF KeyInv, OnlyOverlapsLose, HeldWell
<1>7. ASSUME NEW w \in {"gap", "score"}, WriteKey(w) PROVE KeyInv'
  <2> DEFINE window == IF w = "gap" THEN GapWindow ELSE ScoreWindow
             read == holding[w].read
             more == Append(read, [by |-> w, entry |-> holding[w].entry])
  <2>1. /\ holding' = [holding EXCEPT ![w] = Away]
        /\ \/ /\ gapKey' = LastOf(more, window)
              /\ entered' = entered + 1 /\ overlapped' = (overlapped \/ read # gapKey)
           \/ UNCHANGED <<gapKey, entered, overlapped>>
        /\ UNCHANGED <<fills, reconciled>>
    BY <1>7 DEF WriteKey
  <2>2. Away.at \in {"idle", "set"} /\ Listed(Away.read)
    BY DEF Away, Listed
  <2>3. HeldWell(holding')
    <3>1. HeldWell([holding EXCEPT ![w] = Away])
      BY <1>4, <2>2, HeldAnew
    <3>2. QED
      BY <2>1, <3>1
  <2>w. CASE UNCHANGED <<gapKey, entered, overlapped>>
    BY <1>0, <2>1, <2>3, <2>w DEF KeyInv, OnlyOverlapsLose, HeldWell
  <2>c. CASE /\ gapKey' = LastOf(more, window)
             /\ entered' = entered + 1 /\ overlapped' = (overlapped \/ read # gapKey)
    <3>4. Listed(read)
      BY <1>0
    <3>5. window \in Nat \ {0} /\ GapWindow \in Nat \ {0} /\ ScoreWindow \in Nat \ {0}
          /\ (window = GapWindow \/ window = ScoreWindow)
      BY PipelineConstants
    <3> HIDE DEF read, window
    <3>6. Listed(more) /\ Len(more) = Len(read) + 1 /\ Len(read) \in Nat
      BY <3>4, ListedMore
    <3> HIDE DEF more
    <3>7. Listed(gapKey') /\ (Len(more) <= window => Len(gapKey') = Len(more))
      BY <2>c, <3>5, <3>6, ListedLast
    <3>8. overlapped' \in BOOLEAN
      BY <2>c
    <3>9. entered' \in Nat
      BY <1>0, <2>c
    <3>10. OnlyOverlapsLose'
      <4> DEFINE least == Min({GapWindow, ScoreWindow})
      <4>1. least \in Int /\ least <= GapWindow /\ least <= ScoreWindow
        BY <3>5, AtMostBoth
      <4> HIDE DEF least
      <4>2. SUFFICES ASSUME ~ overlapped', entered' <= least PROVE Len(gapKey') = entered'
        BY DEF OnlyOverlapsLose, least
      <4>3. ~ overlapped /\ read = gapKey
        BY <2>c, <4>2
      <4>4. entered <= least
        BY <1>0, <2>c, <4>1, <4>2
      <4>5. Len(gapKey) = entered
        BY <1>0, <4>3, <4>4 DEF OnlyOverlapsLose, least
      <4>6. Len(more) = entered + 1
        BY <3>6, <4>3, <4>5
      <4>7. least <= window
        BY <3>5, <4>1
      <4>8. Len(more) <= window
        BY <1>0, <2>c, <3>5, <4>1, <4>2, <4>6, <4>7
      <4>9. QED
        BY <2>c, <3>7, <4>6, <4>8
    <3>11. QED
      BY <1>0, <2>1, <2>3, <3>7, <3>8, <3>9, <3>10 DEF KeyInv, HeldWell
  <2>q. QED
    BY <2>1, <2>w, <2>c
<1>8. QED
  BY <1>1, <1>2, <1>3, <1>5, <1>6, <1>7 DEF TruthNext

-----------------------------------------------------------------------------
\* A step of one path leaves the other.
LEMMA PathsApart ==
  /\ SignalNext => UNCHANGED truthPath
  /\ TruthNext => UNCHANGED signalPath
<1>1. ASSUME SignalNext PROVE UNCHANGED truthPath
  <2>1. ComputeFeatures \/ OtherEvent \/ GenerateSignal => UNCHANGED truthPath
    BY Zenon DEF ComputeFeatures, OtherEvent, GenerateSignal
  <2>2. DetectRegime \/ Estimate => UNCHANGED truthPath
    BY Zenon DEF DetectRegime, Estimate
  <2>3. DecideOnEstimate \/ PipelineTick => UNCHANGED truthPath
    BY Zenon DEF DecideOnEstimate, PipelineTick
  <2>4. QED
    BY <1>1, <2>1, <2>2, <2>3, Zenon DEF SignalNext
<1>2. ASSUME TruthNext PROVE UNCHANGED signalPath
  BY <1>2, Zenon DEF TruthNext, RecordFilled, Reconciled, MeasureTruth, NoteTruth, MeasureGap, NoteScore, WriteKey
<1>3. QED
  BY <1>1, <1>2

\* Every step of the part, and none.
LEMMA PipelineSteps ==
  ASSUME PipelineInv, SignalNext \/ TruthNext \/ UNCHANGED pipelineVars PROVE PipelineInv'
<1>1. SignalNext \/ UNCHANGED signalPath
  BY PathsApart DEF pipelineVars
<1>2. TruthNext \/ UNCHANGED truthPath
  BY PathsApart DEF pipelineVars
<1>3. QED
  BY <1>1, <1>2, PathSteps, KeySteps DEF PipelineInv

\* What the invariant says of the part.
LEMMA PipelineSays ==
  ASSUME PipelineInv PROVE PipelineTypeOK /\ NothingIsWorthItsCost /\ RegimeIsRenewed /\ OnlyOverlapsLose
<1>1. PathInv /\ KeyInv
  BY DEF PipelineInv
<1>2. PipelineTypeOK
  BY <1>1 DEF PathInv, KeyInv, PipelineTypeOK, Markets
<1>3. NothingIsWorthItsCost
  BY <1>1 DEF PathInv, NothingIsWorthItsCost
<1>4. QED
  BY <1>1, <1>2, <1>3 DEF PathInv, KeyInv
-----------------------------------------------------------------------------
(***************************************************************************)
(* Windows of ticks, their sums and medians.                               *)
(***************************************************************************)

\* A window keeps what its elements have, and its length is that of a step.
LEMMA PushedFacts ==
  ASSUME NEW T, NEW q \in Seq(T), Len(q) <= DepthWindow, NEW e \in T
  PROVE  /\ Pushed(q, e) \in Seq(T) /\ Len(Pushed(q, e)) <= DepthWindow
         /\ Len(Pushed(q, e)) = (IF Len(q) < DepthWindow THEN Len(q) + 1 ELSE Len(q))
         /\ Len(Pushed(q, e)) >= 1 /\ Last(Pushed(q, e)) = e
<1>0. DepthWindow \in Nat /\ DepthWindow >= 1 /\ Len(q) \in Nat
  BY RegimeConstants
<1>1. CASE Len(q) < DepthWindow
  <2>1. Pushed(q, e) = Append(q, e)
    BY <1>1 DEF Pushed
  <2>2. Append(q, e) \in Seq(T) /\ Len(Append(q, e)) = Len(q) + 1 /\ Append(q, e)[Len(q) + 1] = e
    OBVIOUS
  <2>3. QED
    BY <1>0, <1>1, <2>1, <2>2 DEF Last
<1>2. CASE ~ (Len(q) < DepthWindow)
  <2> DEFINE r == Tail(q)
  <2>1. Pushed(q, e) = Append(r, e)
    BY <1>2 DEF Pushed
  <2>2. q # <<>>
    BY <1>0, <1>2
  <2>3. r \in Seq(T) /\ Len(r) = Len(q) - 1
    BY <2>2
  <2> HIDE DEF r
  <2>4. Append(r, e) \in Seq(T) /\ Len(Append(r, e)) = Len(r) + 1 /\ Append(r, e)[Len(r) + 1] = e
    BY <2>3
  <2>5. QED
    BY <1>0, <1>2, <2>1, <2>3, <2>4 DEF Last
<1>3. QED
  BY <1>1, <1>2

\* The total of positive numbers is positive.
LEMMA TotalIsPositive ==
  ASSUME NEW q \in Seq(Nat \ {0}), Len(q) >= 1
  PROVE  TotalOf(q) \in Nat /\ TotalOf(q) > 0
<1> DEFINE S == 1 .. Len(q)
<1>1. Len(q) \in Nat /\ DOMAIN q = S /\ \A i \in S : q[i] \in Nat /\ q[i] >= 1
  OBVIOUS
<1>2. IsFiniteSet(S) /\ Cardinality(S) = Len(q)
  BY <1>1, UpToN
<1>3. TotalOf(q) = SumFunctionOnSet(q, S)
  BY <1>1 DEF TotalOf, SumFunction
<1>4. q # <<>>
  OBVIOUS
<1>5. 1 \in S
  BY <1>1
<1> HIDE DEF S
<1>6. \A i \in S : q[i] \in Int
  BY <1>1
<1>7. SumFunctionOnSet(q, S) = q[1] + SumFunctionOnSet(q, S \ {1})
  BY <1>2, <1>5, <1>6, SumWithout
<1>8. SumFunctionOnSet([i \in S \ {1} |-> 0], S \ {1}) = 0
  BY <1>2, FS_RemoveElement, SumOfZeros
<1>9. SumFunctionOnSet([i \in S \ {1} |-> 0], S \ {1}) <= SumFunctionOnSet(q, S \ {1})
  <2> DEFINE R == S \ {1}
             z == [i \in R |-> 0]
  <2>0. IsFiniteSet(R)
    BY <1>2, FS_RemoveElement
  <2>1. \A i \in R : z[i] \in Int /\ q[i] \in Int /\ z[i] <= q[i]
    BY <1>1
  <2> HIDE DEF R, z
  <2>2. SumFunctionOnSet(z, R) <= SumFunctionOnSet(q, R)
    BY <2>0, <2>1, SumMonotone
  <2>3. QED
    BY <2>2 DEF R, z
<1>10. SumFunctionOnSet(q, S \ {1}) \in Int
  BY <1>2, <1>6, FS_RemoveElement, SumType
<1>11. q[1] \in Nat /\ q[1] >= 1
  BY <1>1, <1>5
<1>12. QED
  BY <1>3, <1>7, <1>8, <1>9, <1>10, <1>11

\* One of the numbers is the k-th.
LEMMA PlacedIsOne ==
  ASSUME NEW T \in SUBSET Int, NEW q \in Seq(T), NEW k \in Nat, 1 <= k, k <= Len(q)
  PROVE  Placed(q, k) \in T
<1> DEFINE S == 1 .. Len(q)
           below(i) == Cardinality({j \in S : q[j] < q[i]})
           upTo(i) == Cardinality({j \in S : q[j] <= q[i]})
<1>0. Len(q) \in Nat /\ DOMAIN q = S /\ \A i \in S : q[i] \in T
  OBVIOUS
<1>1. Len(q) \in Nat /\ DOMAIN q = S /\ q \in [S -> Int] /\ \A i \in S : q[i] \in T
  <2>1. q = [i \in S |-> q[i]]
    OBVIOUS
  <2> HIDE DEF S
  <2>2. \A i \in S : q[i] \in Int
    BY <1>0
  <2>3. [i \in S |-> q[i]] \in [S -> Int]
    BY <2>2
  <2>4. q \in [S -> Int]
    BY <2>1, <2>3, Zenon
  <2>5. QED
    BY <1>0, <2>4
<1>2. IsFiniteSet(S) /\ Cardinality(S) = Len(q)
  BY <1>1, UpToN
<1> HIDE DEF S
<1>3. k - 1 \in Nat /\ k - 1 < Cardinality(S)
  BY <1>2
<1>4. PICK i \in S : \E under, among \in SUBSET S :
        /\ \A j \in S : (j \in under <=> q[j] < q[i]) /\ (j \in among <=> q[j] <= q[i])
        /\ Cardinality(under) <= k - 1 /\ k - 1 < Cardinality(among)
  <2> DEFINE m == k - 1
  <2>1. IsFiniteSet(S) /\ q \in [S -> Int] /\ m \in Nat /\ m < Cardinality(S)
    BY <1>1, <1>2, <1>3
  <2> HIDE DEF m
  <2>2. \E i \in S : \E under, among \in SUBSET S :
          /\ \A j \in S : (j \in under <=> q[j] < q[i]) /\ (j \in among <=> q[j] <= q[i])
          /\ Cardinality(under) <= m /\ m < Cardinality(among)
    BY <2>1, OrderStatistic, Zenon
  <2>3. QED
    BY <2>2, Zenon DEF m
<1>5. PICK under \in SUBSET S, among \in SUBSET S :
        /\ \A j \in S : (j \in under <=> q[j] < q[i]) /\ (j \in among <=> q[j] <= q[i])
        /\ Cardinality(under) <= k - 1 /\ k - 1 < Cardinality(among)
  BY <1>4
<1>6. under = {j \in S : q[j] < q[i]} /\ among = {j \in S : q[j] <= q[i]}
  BY <1>5
<1>7. Cardinality(under) \in Nat /\ Cardinality(among) \in Nat
  BY <1>2, FS_Subset, FS_CardinalityType
<1>8. Cardinality(under) < k /\ k <= Cardinality(among)
  BY <1>5, <1>7
<1>9. below(i) < k /\ k <= upTo(i)
  BY <1>6, <1>8
<1>10. Placed(q, k) = q[CHOOSE j \in S : below(j) < k /\ k <= upTo(j)]
  BY <1>1 DEF Placed
<1> HIDE DEF below, upTo
<1>11. (CHOOSE j \in S : below(j) < k /\ k <= upTo(j)) \in S
  BY <1>9
<1>12. QED
  BY <1>1, <1>10, <1>11

\* The median of positive numbers is positive.
LEMMA MedianIsPositive ==
  ASSUME NEW q \in Seq(Nat \ {0}), Len(q) >= 1
  PROVE  DoubleMedian(q) \in Nat /\ DoubleMedian(q) > 0
<1> DEFINE n == Len(q)
<1>1. n \in Nat /\ n >= 1
  OBVIOUS
<1>2. /\ (n + 1) \div 2 \in Nat /\ 1 <= (n + 1) \div 2 /\ (n + 1) \div 2 <= n
      /\ n \div 2 + 1 \in Nat /\ 1 <= n \div 2 + 1 /\ n \div 2 + 1 <= n
  <2> HIDE DEF n
  <2>1. QED
    BY <1>1
<1>3. Nat \ {0} \in SUBSET Int
  OBVIOUS
<1>4. Placed(q, (n + 1) \div 2) \in Nat \ {0} /\ Placed(q, n \div 2 + 1) \in Nat \ {0}
  BY <1>2, <1>3, PlacedIsOne
<1>5. DoubleMedian(q) = Placed(q, (n + 1) \div 2) + Placed(q, n \div 2 + 1)
  BY DEF DoubleMedian
<1>6. QED
  BY <1>4, <1>5
-----------------------------------------------------------------------------
(***************************************************************************)
(* The figures of a regime.                                                *)
(***************************************************************************)

\* What is clipped lies between the ends.
LEMMA ClippedWithin ==
  ASSUME NEW n \in Int, NEW low \in Int, NEW high \in Int, low <= high
  PROVE  Clipped(n, low, high) = IF n <= low THEN low ELSE IF n <= high THEN n ELSE high
<1>1. Min({n, high}) = IF n <= high THEN n ELSE high
  BY TwoNumbers
<1> DEFINE m == Min({n, high})
<1>2. m \in Int /\ m = IF n <= high THEN n ELSE high
  BY <1>1
<1> HIDE DEF m
<1>3. Max({low, m}) = IF low >= m THEN low ELSE m
  BY <1>2, TwoNumbers
<1>4. Clipped(n, low, high) = Max({low, m})
  BY DEF Clipped, m
<1>5. QED
  BY <1>2, <1>3, <1>4

\* Flows that are all nothing press on nothing: the pressure is that of the spread.
LEMMA PressureFacts ==
  ASSUME NEW s \in Seq(Nat \ {0}), Len(s) >= 1, NEW f \in Seq({0}), Len(f) = Len(s),
         NEW base, base.spread \in Nat
  PROVE  /\ Pressure(s, f, base) \in Int /\ -50 <= Pressure(s, f, base) /\ Pressure(s, f, base) <= 100
         /\ base.spread # 0 /\ 2 * Last(s) <= base.spread => Pressure(s, f, base) <= 0
<1> DEFINE spread == base.spread
           total == TotalOf(s)
           last == Last(s)
           ratio == IF spread = 0 THEN (100 * last * Len(s)) \div total ELSE (200 * last) \div spread
           from == Max({1, Len(f) - 4})
           recent == SubSeq(f, from, Len(f))
           flow == IF Len(f) < PressureReady THEN 0 ELSE TotalOf(recent) \div Len(recent)
           n == (ratio - 100) \div 2 - flow
<1>1. /\ total \in Nat /\ total > 0 /\ last \in Nat /\ Len(s) \in Nat /\ Len(f) \in Nat /\ spread \in Nat
      /\ Len(f) >= 1
  <2>1. s # <<>> /\ Len(s) \in Nat
    OBVIOUS
  <2>2. Last(s) \in Nat
    BY <2>1 DEF Last
  <2>3. QED
    BY <2>1, <2>2, TotalIsPositive
<1>2. flow = 0
  <2>1. from \in Int /\ 1 <= from /\ from <= Len(f)
    <3>1. Len(f) - 4 \in Int
      BY <1>1
    <3>2. Max({1, Len(f) - 4}) = IF 1 >= Len(f) - 4 THEN 1 ELSE Len(f) - 4
      BY <3>1, TwoNumbers
    <3>3. QED
      BY <1>1, <3>2
  <2> HIDE DEF from
  <2>2. /\ recent \in Seq({0}) /\ Len(recent) = Len(f) - from + 1
    BY <1>1, <2>1
  <2>3. TotalOf(recent) = 0
    <3> DEFINE S == 1 .. Len(recent)
    <3> HIDE DEF recent
    <3>1. DOMAIN recent = S /\ (\A i \in S : recent[i] = 0) /\ Len(recent) \in Nat
      BY <2>2
    <3>2. IsFiniteSet(S)
      BY <3>1, UpToN
    <3> HIDE DEF S
    <3>3. SumFunctionOnSet(recent, S) = 0
      BY <3>1, <3>2, SumOfZeros
    <3>4. QED
      BY <3>1, <3>3 DEF TotalOf, SumFunction
  <2>4. Len(recent) \in Nat /\ Len(recent) > 0
    BY <1>1, <2>1, <2>2
  <2> HIDE DEF recent
  <2>5. QED
    BY <2>3, <2>4
<1>3. ratio \in Nat /\ (spread # 0 /\ 2 * last <= spread => ratio <= 100)
  <2>1. CASE spread = 0
    <3> DEFINE a == 100 * last * Len(s)
    <3> HIDE DEF last, total
    <3>1. a \in Nat
      <4>1. 100 * last \in Nat /\ Len(s) \in Nat
        BY <1>1
      <4>2. ASSUME NEW x \in Nat, NEW y \in Nat PROVE x * y \in Nat
        OBVIOUS
      <4>3. QED
        BY <4>1, <4>2
    <3> HIDE DEF a
    <3>2. a \div total \in Nat
      BY <1>1, <3>1
    <3>3. QED
      BY <2>1, <3>2 DEF a
  <2>2. CASE spread # 0
    <3>1. ratio = (200 * last) \div spread
      BY <2>2
    <3> DEFINE r == (200 * last) \div spread
    <3>2. 200 * last \in Nat
      BY <1>1
    <3> HIDE DEF last, spread, total
    <3>3. r \in Nat /\ r * spread <= 200 * last
      <4>1. ASSUME NEW x \in Nat, NEW y \in Nat \ {0} PROVE x \div y \in Nat /\ (x \div y) * y <= x
        OBVIOUS
      <4>2. spread \in Nat \ {0}
        BY <1>1, <2>2
      <4>3. QED
        BY <3>2, <4>1, <4>2
    <3>4. ASSUME 2 * last <= spread, r >= 101 PROVE FALSE
      <4> HIDE DEF r
      <4>1. 101 * spread <= r * spread
        BY <1>1, <3>3, <3>4
      <4>2. QED
        BY <1>1, <2>2, <3>3, <3>4, <4>1
    <3> HIDE DEF r
    <3>5. 2 * last <= spread => r <= 100
      BY <3>3, <3>4
    <3>6. QED
      BY <3>1, <3>3, <3>5 DEF r
  <2>3. QED
    BY <2>1, <2>2
<1> HIDE DEF ratio, flow
<1>4. n \in Int /\ -50 <= n /\ (ratio <= 100 => n <= 0)
  BY <1>2, <1>3
<1>5. Pressure(s, f, base) = IF Len(s) < PressureReady THEN 0 ELSE Clipped(n, 0 - 100, 100)
  BY Zenon DEF Pressure, n, flow, ratio
<1> HIDE DEF n
<1>6. /\ Clipped(n, 0 - 100, 100) \in Int /\ -50 <= Clipped(n, 0 - 100, 100) /\ Clipped(n, 0 - 100, 100) <= 100
      /\ n <= 0 => Clipped(n, 0 - 100, 100) <= 0
  <2>1. 0 - 100 \in Int /\ 100 \in Int /\ 0 - 100 <= 100 /\ 0 - 100 <= 0 /\ -50 <= 100 /\ -50 \in Int /\ 0 \in Int
    OBVIOUS
  <2> DEFINE low == 0 - 100
  <2>l. low \in Int /\ low <= -50 /\ low <= 100
    OBVIOUS
  <2> HIDE DEF low
  <2>2. Clipped(n, low, 100) = IF n <= low THEN low ELSE IF n <= 100 THEN n ELSE 100
    BY <1>4, <2>l, ClippedWithin
  <2>3. /\ Clipped(n, low, 100) \in Int /\ -50 <= Clipped(n, low, 100) /\ Clipped(n, low, 100) <= 100
        /\ n <= 0 => Clipped(n, low, 100) <= 0
    BY <1>4, <2>l, <2>2
  <2>4. QED
    BY <2>3 DEF low
<1>7. QED
  BY <1>3, <1>4, <1>5, <1>6

\* Half of a ratio that is at most twice.
LEMMA ResilienceFacts ==
  ASSUME NEW T, NEW q \in Seq(T), Len(q) >= 1, \A r \in T : r.bid \in Nat \ {0}
  PROVE  Resilience(q) \in 0 .. 100
<1> DEFINE n == Len(q)
           cut == SubSeq(q, n - ResilienceWindow + 1, n)
           recent == Bids(cut)
<1>0. n \in Nat /\ ResilienceWindow \in Nat /\ ResilienceWindow >= 1
  BY RegimeConstants
<1>1. CASE n < ResilienceWindow
  BY <1>1 DEF Resilience
<1>2. CASE ~ (n < ResilienceWindow)
  <2>1. cut \in Seq(T) /\ Len(cut) = ResilienceWindow /\ DOMAIN cut = 1 .. Len(cut)
    BY <1>0, <1>2
  <2> HIDE DEF cut
  <2>2. \A i \in 1 .. Len(cut) : cut[i] \in T
    BY <2>1
  <2>3. \A i \in 1 .. Len(cut) : cut[i].bid \in Nat \ {0}
    BY <2>2
  <2>4. recent = [i \in 1 .. Len(cut) |-> cut[i].bid]
    BY <2>1 DEF Bids
  <2>5. recent \in Seq(Nat \ {0}) /\ Len(recent) = ResilienceWindow
    BY <1>0, <2>1, <2>3, <2>4
  <2> HIDE DEF recent
  <2>6. Last(recent) \in Nat
    BY <1>0, <2>5 DEF Last
  <2> DEFINE m == DoubleMedian(recent)
             r == (200 * Last(recent)) \div m
  <2>7. m \in Nat /\ m > 0
    BY <1>0, <2>5, MedianIsPositive
  <2> HIDE DEF m
  <2>8. r \in Int
    BY <2>6, <2>7
  <2> HIDE DEF r
  <2>8a. Clipped(r, 0, 200) = IF r <= 0 THEN 0 ELSE IF r <= 200 THEN r ELSE 200
    BY <2>8, ClippedWithin
  <2>9. Clipped(r, 0, 200) \in Int /\ 0 <= Clipped(r, 0, 200) /\ Clipped(r, 0, 200) <= 200
    BY <2>8, <2>8a
  <2>10. Resilience(q) = Clipped(r, 0, 200) \div 2
    BY <1>2, Zenon DEF Resilience, r, m, recent, cut
  <2> DEFINE c == Clipped(r, 0, 200)
  <2>c. c \in Int /\ 0 <= c /\ c <= 200
    BY <2>9
  <2> HIDE DEF c
  <2>11. c \div 2 \in 0 .. 100
    BY <2>c
  <2>12. QED
    BY <2>10, <2>11 DEF c
<1>3. QED
  BY <1>1, <1>2

\* A risk is a percentage.
LEMMA RiskIsPercentage ==
  ASSUME NEW market, NEW v \in Nat, NEW liquidity, NEW pressure \in -100 .. 100
  PROVE  Risk(market, v, liquidity, pressure) \in 0 .. 100
<1> DEFINE a == CASE market = "crisis" -> 40 [] market = "high_volatility" -> 25 [] OTHER -> 0
           b == VolatilityRisk(v)
           c == CASE liquidity = "stressed" -> 20 [] liquidity = "scarce" -> 10 [] OTHER -> 0
           p == Max({pressure, 0 - pressure})
           d == (15 * p) \div 100
           sum == a + b + c + d
<1>1. a \in Nat /\ c \in Nat /\ b \in Nat
  BY DEF VolatilityRisk
<1>2. p \in Int /\ p >= 0
  <2>1. 0 - pressure \in Int /\ pressure \in Int
    OBVIOUS
  <2>2. p = IF pressure >= 0 - pressure THEN pressure ELSE 0 - pressure
    BY <2>1, TwoNumbers
  <2>3. QED
    BY <2>1, <2>2
<1> HIDE DEF a, b, c, p
<1>3. d \in Nat
  BY <1>2
<1> HIDE DEF d
<1>4. sum \in Nat
  BY <1>1, <1>3
<1>5. Risk(market, v, liquidity, pressure) = Min({100, sum})
  BY DEF Risk, a, b, c, p, d
<1> HIDE DEF sum
<1>6. Min({100, sum}) = IF 100 <= sum THEN 100 ELSE sum
  BY <1>4, TwoNumbers
<1>7. QED
  BY <1>4, <1>5, <1>6

\* A scale is between a tenth and all, and at most a half where volatility is high.
LEMMA ScaleFacts ==
  ASSUME NEW risk \in 0 .. 100, NEW v \in Nat, NEW resilience \in 0 .. 100
  PROVE  /\ PositionScale(risk, v, resilience) \in 10 .. 100
         /\ v >= 20 => PositionScale(risk, v, resilience) <= 50
<1> DEFINE base == (200 - risk) \div 2
           by == IF v >= 40 THEN base \div 4 ELSE IF v >= 20 THEN base \div 2 ELSE base
           n == IF resilience < 30 THEN by \div 2 ELSE by
<1>1. base \in 0 .. 100
  OBVIOUS
<1> HIDE DEF base
<1>2. by \in 0 .. 100 /\ (v >= 20 => by <= 50)
  BY <1>1
<1> HIDE DEF by
<1>3. n \in 0 .. 100 /\ (v >= 20 => n <= 50)
  BY <1>2
<1> HIDE DEF n
<1>4. Max({10, n}) = IF 10 >= n THEN 10 ELSE n
  BY <1>3, TwoNumbers
<1>5. PositionScale(risk, v, resilience) = Max({10, n})
  BY Zenon DEF PositionScale, n, by, base
<1>6. QED
  BY <1>3, <1>4, <1>5
-----------------------------------------------------------------------------
(***************************************************************************)
(* RegimeDetection: windows of one length, flows that are all nothing, a   *)
(* baseline that is a number, and the last report, whose figures are those *)
(* of the windows it came from.                                            *)
(***************************************************************************)
Depths == [bid : Nat \ {0}, ask : Nat \ {0}]

RegimeInv ==
  /\ ticks \in 0 .. MaxTicks
  /\ book \in Seq(Depths) /\ spreads \in Seq(Nat \ {0}) /\ flows \in Seq({0})
  /\ Len(book) <= DepthWindow /\ Len(spreads) = Len(book) /\ Len(flows) = Len(book)
  /\ baseline.depth \in Nat /\ baseline.spread \in Nat
  /\ "age" \in DOMAIN predicted /\ predicted.age \in Nat
  /\ RegimeTypeOK /\ CautionSurvives /\ PressureIsSpread /\ PredictionIsFresh

\* The classifier begins without ticks.
LEMMA RegimeBegins == RegimeInit => RegimeInv
<1> SUFFICES ASSUME RegimeInit PROVE RegimeInv
  OBVIOUS
<1>1. /\ ticks = 0 /\ book = <<>> /\ spreads = <<>> /\ flows = <<>>
      /\ baseline = [depth |-> 0, spread |-> 0] /\ predicted = NoPrediction
      /\ regime = [market |-> "unknown", volatility |-> 20, liquidity |-> "normal", pressure |-> 0,
                   resilience |-> 50, risk |-> 0, caution |-> FALSE, scale |-> 100, kronos |-> NoPrediction]
  BY DEF RegimeInit
<1>2. /\ ticks \in 0 .. MaxTicks /\ Len(book) = 0 /\ Len(spreads) = 0 /\ Len(flows) = 0 /\ DepthWindow \in Nat
      /\ Ttl > 0
  BY <1>1, RegimeConstants
<1>3. book \in Seq(Depths) /\ spreads \in Seq(Nat \ {0}) /\ flows \in Seq({0})
  BY <1>1
<1>4. /\ baseline.depth = 0 /\ baseline.spread = 0 /\ predicted.age = 0 /\ "age" \in DOMAIN predicted
      /\ regime.liquidity = "normal" /\ regime.pressure = 0 /\ regime.resilience = 50 /\ regime.risk = 0
      /\ regime.scale = 100 /\ regime.kronos.age = 0
  BY <1>1 DEF NoPrediction
<1>5. RegimeTypeOK
  BY <1>2, <1>4 DEF RegimeTypeOK
<1>6. CautionSurvives /\ PressureIsSpread /\ PredictionIsFresh
  BY <1>1, <1>2, <1>4 DEF CautionSurvives, PressureIsSpread, PredictionIsFresh
<1>7. QED
  BY <1>2, <1>3, <1>4, <1>5, <1>6 DEF RegimeInv

\* An imbalance is that of a book with itself.
LEMMA ImbalanceIsNothing ==
  ASSUME NEW q \in Seq(Depths), Last(q) \in Depths PROVE Imbalance(q) = 0
<1> DEFINE b == Last(q).bid
           a == Last(q).ask
<1>1. b \in Nat /\ b > 0 /\ a \in Nat /\ a > 0
  BY DEF Depths
<1>2. Imbalance(q) = (95 * ((b - b) - (a - a))) \div (b + a)
  BY Zenon DEF Imbalance, a, b
<1> HIDE DEF a, b
<1>3. (95 * ((b - b) - (a - a))) = 0 /\ b + a \in Nat /\ b + a > 0
  BY <1>1
<1>4. QED
  BY <1>2, <1>3

\* A baseline is a number: what it was, or the medians of the windows.
LEMMA BaselineFacts ==
  ASSUME NEW q \in Seq(Depths), NEW s \in Seq(Nat \ {0}), Len(s) = Len(q),
         baseline.depth \in Nat, baseline.spread \in Nat
  PROVE  BaselineAfter(q, s).depth \in Nat /\ BaselineAfter(q, s).spread \in Nat
<1>1. CASE baseline.depth = 0 /\ Len(q) >= BaselineAt
  <2> DEFINE r == Bids(q)
  <2>1. Len(q) \in Nat /\ Len(q) >= 1
    BY <1>1, RegimeConstants
  <2>2. \A i \in 1 .. Len(q) : q[i].bid \in Nat \ {0}
    <3>1. \A i \in 1 .. Len(q) : q[i] \in Depths
      OBVIOUS
    <3>2. \A d \in Depths : d.bid \in Nat \ {0}
      BY DEF Depths
    <3>3. QED
      BY <3>1, <3>2
  <2>3. r = [i \in 1 .. Len(q) |-> q[i].bid]
    BY DEF Bids
  <2>4. r \in Seq(Nat \ {0}) /\ Len(r) = Len(q)
    BY <2>1, <2>2, <2>3
  <2> HIDE DEF r
  <2>5. DoubleMedian(r) \in Nat /\ DoubleMedian(s) \in Nat
    BY <2>1, <2>4, MedianIsPositive
  <2>6. BaselineAfter(q, s) = [depth |-> DoubleMedian(r), spread |-> DoubleMedian(s)]
    BY <1>1 DEF BaselineAfter, r
  <2>7. QED
    BY <2>5, <2>6
<1>2. CASE ~ (baseline.depth = 0 /\ Len(q) >= BaselineAt)
  BY <1>2 DEF BaselineAfter
<1>3. QED
  BY <1>1, <1>2

\* What one tick leaves.
Classified(q, s, f, base, market, v, liquidity) ==
  LET pressure == Pressure(s, f, base)
      risk == Risk(market, v, liquidity, pressure) IN
  /\ book' = q /\ spreads' = s /\ flows' = f /\ baseline' = base
  /\ regime' = [market |-> market, volatility |-> v, liquidity |-> liquidity, pressure |-> pressure,
                resilience |-> Resilience(q), risk |-> risk, caution |-> Caution(market, v, risk),
                scale |-> PositionScale(risk, v, Resilience(q)),
                kronos |-> IF loaded /\ ticks' >= RegimeReady THEN predicted' ELSE NoPrediction]

\* What one update of the classifier does.
LEMMA ClassifierDoes ==
  ASSUME RegimeInv, UpdateClassifier
  PROVE  \E tick \in Ticks, gap \in Gaps, v \in Nat, liquidity \in {"abundant", "scarce", "stressed", "normal"} :
         \E market :
           LET q == Pushed(book, [bid |-> tick.bid, ask |-> tick.ask])
               s == Pushed(spreads, tick.spread)
               aged == IF predicted = NoPrediction THEN predicted ELSE Aged(predicted, gap) IN
           /\ ticks' = Min({ticks + 1, MaxTicks})
           /\ IF loaded /\ ticks' >= RegimeReady
              THEN predicted' \in IF Cached(aged) THEN {aged} ELSE Predictions
              ELSE predicted' = aged
           /\ Classified(q, s, Pushed(flows, Imbalance(q)), BaselineAfter(q, s), market, v, liquidity)
<1>1. PICK tick \in Ticks, measured \in Volatilities, gap \in Gaps,
           trend \in {"trending_up", "trending_down", "range_bound"} :
    LET prices == Min({ticks + 1, MaxTicks})
        volatility == IF prices < VolatilityReady THEN 20 ELSE measured
        q == Pushed(book, [bid |-> tick.bid, ask |-> tick.ask])
        s == Pushed(spreads, tick.spread)
        f == Pushed(flows, Imbalance(q))
        base == BaselineAfter(q, s)
        pressure == Pressure(s, f, base)
        depth == LiquidityOf(q, base)
        liquidity == CASE depth \in {"abundant", "scarce"} -> depth
                       [] pressure > 70 -> "stressed" [] OTHER -> "normal"
        aged == IF predicted = NoPrediction THEN predicted ELSE Aged(predicted, gap) IN
    /\ ticks' = prices /\ book' = q /\ spreads' = s /\ flows' = f /\ baseline' = base
    /\ IF loaded /\ prices >= RegimeReady
       THEN predicted' \in IF Cached(aged) THEN {aged} ELSE Predictions
       ELSE predicted' = aged
    /\ LET used == IF loaded /\ prices >= RegimeReady THEN predicted' ELSE NoPrediction
           market == Merged(MarketFor(prices, volatility, trend), used)
           risk == Risk(market, volatility, liquidity, pressure) IN
       regime' = [market |-> market, volatility |-> volatility, liquidity |-> liquidity,
                  pressure |-> pressure, resilience |-> Resilience(q), risk |-> risk,
                  caution |-> Caution(market, volatility, risk),
                  scale |-> PositionScale(risk, volatility, Resilience(q)), kronos |-> used]
    /\ UNCHANGED loaded
  BY Zenon DEF UpdateClassifier
<1> DEFINE prices == Min({ticks + 1, MaxTicks})
           volatility == IF prices < VolatilityReady THEN 20 ELSE measured
           q == Pushed(book, [bid |-> tick.bid, ask |-> tick.ask])
           s == Pushed(spreads, tick.spread)
           f == Pushed(flows, Imbalance(q))
           base == BaselineAfter(q, s)
           pressure == Pressure(s, f, base)
           depth == LiquidityOf(q, base)
           liquidity == CASE depth \in {"abundant", "scarce"} -> depth
                          [] pressure > 70 -> "stressed" [] OTHER -> "normal"
           aged == IF predicted = NoPrediction THEN predicted ELSE Aged(predicted, gap)
           used == IF loaded /\ prices >= RegimeReady THEN predicted' ELSE NoPrediction
           market == Merged(MarketFor(prices, volatility, trend), used)
           risk == Risk(market, volatility, liquidity, pressure)
<1>2. ticks' = prices
  BY <1>1, Zenon
<1>3. book' = q /\ spreads' = s /\ flows' = f /\ baseline' = base
  BY <1>1, Zenon
<1>4. IF loaded /\ prices >= RegimeReady
      THEN predicted' \in IF Cached(aged) THEN {aged} ELSE Predictions
      ELSE predicted' = aged
  BY <1>1, Zenon
<1>5. regime' = [market |-> market, volatility |-> volatility, liquidity |-> liquidity,
                  pressure |-> pressure, resilience |-> Resilience(q), risk |-> risk,
                  caution |-> Caution(market, volatility, risk),
                  scale |-> PositionScale(risk, volatility, Resilience(q)), kronos |-> used]
  BY <1>1, Zenon
<1>6. volatility \in Nat
  BY RegimeConstants
<1>7. liquidity \in {"abundant", "scarce", "stressed", "normal"}
  <2> HIDE DEF depth, pressure
  <2>1. CASE depth \in {"abundant", "scarce"}
    BY <2>1
  <2>2. CASE depth \notin {"abundant", "scarce"}
    BY <2>2
  <2>3. QED
    BY <2>1, <2>2
<1> HIDE DEF prices, volatility, liquidity, market
<1>8. Classified(q, s, f, base, market, volatility, liquidity)
  BY <1>2, <1>3, <1>5, Zenon DEF Classified
<1>9. IF loaded /\ ticks' >= RegimeReady
      THEN predicted' \in IF Cached(aged) THEN {aged} ELSE Predictions
      ELSE predicted' = aged
  BY <1>2, <1>4
<1>10. ticks' = Min({ticks + 1, MaxTicks})
  BY <1>2 DEF prices
<1> HIDE DEF q, s, f, base, pressure, depth, aged, used, risk
<1>11. QED
  BY <1>6, <1>7, <1>8, <1>9, <1>10, Zenon DEF q, s, f, base, aged

\* Every step of the part, and none.
LEMMA RegimeSteps ==
  ASSUME RegimeInv, RegimeNext \/ UNCHANGED regimeVars PROVE RegimeInv'
<1>1. CASE UNCHANGED regimeVars
  BY <1>1, Zenon DEF RegimeInv, regimeVars, RegimeTypeOK, CautionSurvives, PressureIsSpread, PredictionIsFresh
<1>2. CASE UpdateClassifier
  <2>p. PICK tick \in Ticks, gap \in Gaps, v \in Nat, liquidity \in {"abundant", "scarce", "stressed", "normal"} :
         \E market :
           LET q == Pushed(book, [bid |-> tick.bid, ask |-> tick.ask])
               s == Pushed(spreads, tick.spread)
               aged == IF predicted = NoPrediction THEN predicted ELSE Aged(predicted, gap) IN
           /\ ticks' = Min({ticks + 1, MaxTicks})
           /\ IF loaded /\ ticks' >= RegimeReady
              THEN predicted' \in IF Cached(aged) THEN {aged} ELSE Predictions
              ELSE predicted' = aged
           /\ Classified(q, s, Pushed(flows, Imbalance(q)), BaselineAfter(q, s), market, v, liquidity)
    BY <1>2, ClassifierDoes, Zenon
  <2>1. PICK market :
           LET q == Pushed(book, [bid |-> tick.bid, ask |-> tick.ask])
               s == Pushed(spreads, tick.spread)
               aged == IF predicted = NoPrediction THEN predicted ELSE Aged(predicted, gap) IN
           /\ ticks' = Min({ticks + 1, MaxTicks})
           /\ IF loaded /\ ticks' >= RegimeReady
              THEN predicted' \in IF Cached(aged) THEN {aged} ELSE Predictions
              ELSE predicted' = aged
           /\ Classified(q, s, Pushed(flows, Imbalance(q)), BaselineAfter(q, s), market, v, liquidity)
    BY <2>p, Zenon
  <2> DEFINE e == [bid |-> tick.bid, ask |-> tick.ask]
             q == Pushed(book, e)
             s == Pushed(spreads, tick.spread)
             f == Pushed(flows, Imbalance(q))
             base == BaselineAfter(q, s)
             aged == IF predicted = NoPrediction THEN predicted ELSE Aged(predicted, gap)
             pressure == Pressure(s, f, base)
             resilience == Resilience(q)
             risk == Risk(market, v, liquidity, pressure)
             scale == PositionScale(risk, v, resilience)
             used == IF loaded /\ ticks' >= RegimeReady THEN predicted' ELSE NoPrediction
  <2>2. /\ ticks' = Min({ticks + 1, MaxTicks}) /\ liquidity \in {"abundant", "scarce", "stressed", "normal"}
        /\ IF loaded /\ ticks' >= RegimeReady
           THEN predicted' \in IF Cached(aged) THEN {aged} ELSE Predictions
           ELSE predicted' = aged
    BY <2>1, Zenon
  <2>3. Classified(q, s, f, base, market, v, liquidity)
    BY <2>1, Zenon
  <2>4. /\ book' = q /\ spreads' = s /\ flows' = f /\ baseline' = base
        /\ regime' = [market |-> market, volatility |-> v, liquidity |-> liquidity, pressure |-> pressure,
                      resilience |-> resilience, risk |-> risk, caution |-> Caution(market, v, risk),
                      scale |-> scale, kronos |-> used]
    BY <2>3, Zenon DEF Classified
  <2>5. /\ ticks \in 0 .. MaxTicks
        /\ book \in Seq(Depths) /\ spreads \in Seq(Nat \ {0}) /\ flows \in Seq({0})
        /\ Len(book) <= DepthWindow /\ Len(spreads) = Len(book) /\ Len(flows) = Len(book)
        /\ baseline.depth \in Nat /\ baseline.spread \in Nat /\ predicted.age \in Nat
        /\ "age" \in DOMAIN predicted
    BY DEF RegimeInv
  <2>6. e \in Depths /\ tick.spread \in Nat \ {0} /\ gap \in Nat /\ MaxTicks \in Nat /\ Ttl \in Nat \ {0}
        /\ Day \in Nat \ {0} /\ DepthWindow \in Nat \ {0}
    BY RegimeConstants DEF Depths
  <2> HIDE DEF e
  <2>7. /\ q \in Seq(Depths) /\ Len(q) <= DepthWindow /\ Len(q) >= 1 /\ Last(q) = e
        /\ Len(q) = (IF Len(book) < DepthWindow THEN Len(book) + 1 ELSE Len(book))
    BY <2>5, <2>6, PushedFacts
  <2>8. /\ s \in Seq(Nat \ {0}) /\ Len(s) <= DepthWindow /\ Len(s) >= 1
        /\ Len(s) = (IF Len(spreads) < DepthWindow THEN Len(spreads) + 1 ELSE Len(spreads))
    <3>1. Len(spreads) <= DepthWindow
      BY <2>5
    <3> QED
      BY <2>5, <2>6, <3>1, PushedFacts
  <2> HIDE DEF q
  <2>9. Imbalance(q) = 0
    BY <2>6, <2>7, ImbalanceIsNothing
  <2>10. /\ f \in Seq({0})
         /\ Len(f) = (IF Len(flows) < DepthWindow THEN Len(flows) + 1 ELSE Len(flows))
    <3>1. Len(flows) <= DepthWindow /\ 0 \in {0} /\ f = Pushed(flows, 0)
      BY <2>5, <2>9
    <3> HIDE DEF f
    <3> QED
      BY <2>5, <2>6, <3>1, PushedFacts
  <2> HIDE DEF s, f
  <2>11. Len(s) = Len(q) /\ Len(f) = Len(q)
    BY <2>5, <2>7, <2>8, <2>10
  <2>12. base.depth \in Nat /\ base.spread \in Nat
    BY <2>5, <2>7, <2>8, <2>11, BaselineFacts
  <2> HIDE DEF base
  <2>13. /\ pressure \in Int /\ -50 <= pressure /\ pressure <= 100
         /\ base.spread # 0 /\ 2 * Last(s) <= base.spread => pressure <= 0
    <3>1. Len(f) = Len(s) /\ Len(s) >= 1
      BY <2>8, <2>11
    <3> QED
      BY <2>8, <2>10, <2>12, <3>1, PressureFacts
  <2> HIDE DEF pressure
  <2>14. resilience \in 0 .. 100
    <3>1. \A r \in Depths : r.bid \in Nat \ {0}
      BY DEF Depths
    <3> QED
      BY <2>7, <3>1, ResilienceFacts
  <2> HIDE DEF resilience
  <2>15. risk \in 0 .. 100
    <3>1. pressure \in -100 .. 100
      BY <2>13
    <3> QED
      BY <3>1, RiskIsPercentage
  <2> HIDE DEF risk
  <2>16. scale \in 10 .. 100 /\ (v >= 20 => scale <= 50)
    BY <2>14, <2>15, ScaleFacts
  <2> HIDE DEF scale
  <2>17. ticks' \in 0 .. MaxTicks
    <3>0. ticks + 1 \in Int /\ MaxTicks \in Int
      BY <2>5, <2>6
    <3>1. Min({ticks + 1, MaxTicks}) = IF ticks + 1 <= MaxTicks THEN ticks + 1 ELSE MaxTicks
      BY <3>0, TwoNumbers
    <3>2. QED
      BY <2>2, <2>5, <2>6, <3>1
  <2>18. aged.age \in Nat /\ "age" \in DOMAIN aged
    <3>1. CASE predicted = NoPrediction
      BY <3>1, <2>5
    <3>2. CASE predicted # NoPrediction
      <4>1. aged = [predicted EXCEPT !.age = (predicted.age + gap) % Day,
                                     !.old = predicted.old \/ predicted.age + gap >= Day]
        BY <3>2 DEF Aged
      <4> DEFINE n == (predicted.age + gap) % Day
      <4>2. n \in Nat
        BY <2>5, <2>6
      <4> HIDE DEF n, aged
      <4>3. aged.age = n /\ DOMAIN aged = DOMAIN predicted
        BY <2>5, <4>1, Zenon DEF n
      <4>4. QED
        BY <2>5, <4>2, <4>3
    <3>3. QED
      BY <3>1, <3>2
  <2>19. predicted'.age \in Nat /\ "age" \in DOMAIN predicted' /\ used.age < Ttl
    <3>1. \A p \in Predictions : p.age = 0 /\ "age" \in DOMAIN p
      <4>1. TAKE p \in Predictions
      <4>2. CASE p \in [regime : Answers, confidence : {80}, age : {0}, old : {FALSE}]
        BY <4>2
      <4>3. CASE p = [regime |-> "fallback", confidence |-> 70, age |-> 0, old |-> FALSE]
        BY <4>3
      <4>4. QED
        BY <4>2, <4>3 DEF Predictions
    <3>2. NoPrediction.age = 0
      BY DEF NoPrediction
    <3> HIDE DEF aged
    <3>3. CASE loaded /\ ticks' >= RegimeReady
      <4>1. used = predicted' /\ predicted' \in IF Cached(aged) THEN {aged} ELSE Predictions
        BY <2>2, <3>3
      <4>2. CASE Cached(aged)
        <5>1. predicted' = aged /\ aged.age < Ttl
          BY <4>1, <4>2 DEF Cached
        <5>2. QED
          BY <2>18, <4>1, <5>1
      <4>3. CASE ~ Cached(aged)
        <5>1. predicted' \in Predictions
          BY <4>1, <4>3
        <5>2. predicted'.age = 0 /\ "age" \in DOMAIN predicted'
          BY <3>1, <5>1
        <5>3. QED
          BY <2>6, <4>1, <5>2
      <4>4. QED
        BY <4>2, <4>3
    <3>4. CASE ~ (loaded /\ ticks' >= RegimeReady)
      <4>1. predicted' = aged /\ used = NoPrediction
        BY <2>2, <3>4
      <4>2. QED
        BY <2>6, <2>18, <3>2, <4>1
    <3>5. QED
      BY <3>3, <3>4
  <2> HIDE DEF used
  <2>20. /\ regime'.liquidity = liquidity /\ regime'.pressure = pressure /\ regime'.resilience = resilience
         /\ regime'.risk = risk /\ regime'.scale = scale /\ regime'.kronos = used
         /\ regime'.volatility = v /\ regime'.caution = Caution(market, v, risk)
    BY <2>4
  <2>21. RegimeTypeOK'
    <3>1. /\ Len(book') = Len(spreads') /\ Len(book') <= DepthWindow /\ pressure \in -100 .. 100
      BY <2>4, <2>7, <2>11, <2>13
    <3>2. QED
      BY <2>2, <2>14, <2>15, <2>16, <2>17, <2>20, <3>1 DEF RegimeTypeOK
  <2>22. CautionSurvives'
    <3>1. v >= 20 => Caution(market, v, risk)
      BY DEF Caution
    <3>2. QED
      BY <2>16, <2>20, <3>1, Zenon DEF CautionSurvives
  <2>23. PressureIsSpread'
    BY <2>4, <2>13, <2>20 DEF PressureIsSpread
  <2>24. PredictionIsFresh'
    BY <2>19, <2>20 DEF PredictionIsFresh
  <2>25. QED
    BY <2>4, <2>7, <2>8, <2>10, <2>11, <2>12, <2>17, <2>19, <2>21, <2>22, <2>23, <2>24 DEF RegimeInv
<1>3. QED
  BY <1>1, <1>2 DEF RegimeNext
-----------------------------------------------------------------------------
(***************************************************************************)
(* Windows of a history, and sums over it.                                 *)
(***************************************************************************)

\* What is kept of a history are the last of it.
LEMMA NewestOnes ==
  ASSUME NEW R, NEW q \in Seq(R), NEW m \in Nat \ {0}
  PROVE  /\ Newest(q, m) \in Seq(R) /\ Len(Newest(q, m)) = (IF Len(q) <= m THEN Len(q) ELSE m)
         /\ Len(q) <= m => Newest(q, m) = q
         /\ \A i \in 1 .. Len(Newest(q, m)) :
              /\ i + (Len(q) - Len(Newest(q, m))) \in 1 .. Len(q)
              /\ Newest(q, m)[i] = q[i + (Len(q) - Len(Newest(q, m)))]
<1> DEFINE n == Len(q)
           a == IF n - m + 1 >= 1 THEN n - m + 1 ELSE 1
<1>1. n \in Nat /\ m \in Nat /\ m >= 1
  OBVIOUS
<1>2. Max({1, n - m + 1}) = a
  <2>1. Max({1, n - m + 1}) = IF 1 >= n - m + 1 THEN 1 ELSE n - m + 1
    BY <1>1, TwoNumbers
  <2>2. QED
    BY <1>1, <2>1
<1>3. Newest(q, m) = SubSeq(q, a, n)
  BY <1>2 DEF Newest
<1>4. /\ a \in 1 .. n + 1 /\ n - a + 1 = (IF n <= m THEN n ELSE m) /\ (n <= m => a = 1)
  <2>1. CASE n - m + 1 >= 1
    <3>1. a = n - m + 1
      BY <2>1
    <3> HIDE DEF a, n
    <3>2. m <= n /\ a \in Int
      BY <1>1, <2>1, <3>1
    <3>3. a \in 1 .. n + 1 /\ n - a + 1 = m
      BY <1>1, <2>1, <3>1, <3>2
    <3>4. n <= m => n = m /\ a = 1
      BY <1>1, <3>1, <3>2
    <3>5. QED
      BY <3>3, <3>4
  <2>2. CASE ~ (n - m + 1 >= 1)
    BY <1>1, <2>2
  <2>3. QED
    BY <2>1, <2>2
<1> HIDE DEF a
<1>5. /\ SubSeq(q, a, n) \in Seq(R) /\ Len(SubSeq(q, a, n)) = n - a + 1
      /\ \A i \in 1 .. n - a + 1 : SubSeq(q, a, n)[i] = q[a + i - 1]
  BY <1>1, <1>4
<1>6. n <= m => SubSeq(q, a, n) = q
  <2>1. SUFFICES ASSUME n <= m PROVE SubSeq(q, 1, n) = q
    BY <1>4
  <2>2. QED
    OBVIOUS
<1>7. \A i \in 1 .. n - a + 1 : i + (n - (n - a + 1)) \in 1 .. n /\ a + i - 1 = i + (n - (n - a + 1))
  BY <1>1, <1>4
<1> HIDE DEF n
<1>8. QED
  BY <1>3, <1>4, <1>5, <1>6, <1>7 DEF n

\* What all elements of a history have, all that are kept have.
LEMMA NewestKeep ==
  ASSUME NEW R, NEW q \in Seq(R), NEW m \in Nat \ {0}, NEW T, \A i \in 1 .. Len(q) : q[i] \in T
  PROVE  \A i \in 1 .. Len(Newest(q, m)) : Newest(q, m)[i] \in T
BY NewestOnes

\* A sum over a sequence is one over its indices.
LEMMA WholeIsSum ==
  ASSUME NEW R, NEW q \in Seq(R)
  PROVE  Whole(q) = SumFunctionOnSet(q, 1 .. Len(q)) /\ IsFiniteSet(1 .. Len(q)) /\ Cardinality(1 .. Len(q)) = Len(q)
<1>1. Len(q) \in Nat /\ DOMAIN q = 1 .. Len(q)
  OBVIOUS
<1>2. QED
  BY <1>1, UpToN DEF Whole, SumFunction

\* Where all parts are the same or nothing, the sum is as many times that part.
LEMMA SumOfEqual ==
  ASSUME NEW S, IsFiniteSet(S), NEW f, NEW v \in Int, NEW T \in SUBSET S,
         \A x \in S : f[x] = IF x \in T THEN v ELSE 0
  PROVE  SumFunctionOnSet(f, S) = v * Cardinality(T) /\ Cardinality(T) \in Nat
<1> DEFINE Total(s) == SumFunctionOnSet(f, s)
           Good == {s \in SUBSET S : Total(s) = v * Cardinality(s \cap T)}
<1>f. \A s \in SUBSET S : /\ IsFiniteSet(s) /\ IsFiniteSet(s \cap T) /\ Cardinality(s \cap T) \in Nat
  <2>1. TAKE s \in SUBSET S
  <2>2. IsFiniteSet(s)
    BY FS_Subset
  <2>3. s \cap T \subseteq s
    OBVIOUS
  <2>4. QED
    BY <2>2, <2>3, FS_Subset, FS_CardinalityType
<1>1. ASSUME NEW s \in SUBSET S, \A x \in s : s \ {x} \in Good PROVE s \in Good
  <2>1. CASE s = {}
    <3>1. Total(s) = 0 /\ s \cap T = {}
      BY <2>1, <1>f, SumUnfolds
    <3>2. Cardinality(s \cap T) = 0
      BY <3>1, FS_EmptySet
    <3>3. Total(s) = v * Cardinality(s \cap T)
      BY <3>1, <3>2
    <3>4. QED
      BY <3>3
  <2>2. CASE s # {}
    <3>1. PICK x \in s : TRUE
      BY <2>2
    <3>2. x \in S /\ f[x] \in Int /\ \A y \in s : f[y] \in Int
      OBVIOUS
    <3>3. Total(s) = f[x] + Total(s \ {x})
      BY <1>f, <3>2, SumWithout
    <3>4. Total(s \ {x}) = v * Cardinality((s \ {x}) \cap T)
      BY <1>1
    <3> DEFINE C == s \cap T
               D == (s \ {x}) \cap T
    <3>5. IsFiniteSet(C) /\ Cardinality(C) \in Nat /\ Cardinality(D) \in Nat /\ IsFiniteSet(D) /\ D = C \ {x}
      BY <1>f
    <3>9. Total(s \ {x}) = v * Cardinality(D)
      BY <3>4
    <3>6. CASE x \in T
      <4>1. x \in C /\ f[x] = v
        BY <3>6
      <4> HIDE DEF C, D
      <4>2. Cardinality(D) = Cardinality(C) - 1
        BY <3>5, <4>1, FS_RemoveElement
      <4>3. v + v * (Cardinality(C) - 1) = v * Cardinality(C)
        BY <3>5
      <4>4. Total(s) = v * Cardinality(C)
        BY <3>3, <3>9, <4>1, <4>2, <4>3
      <4>5. QED
        BY <4>4 DEF C
    <3>7. CASE x \notin T
      <4>1. D = C /\ f[x] = 0
        BY <3>7
      <4>2. v * Cardinality(C) \in Int
        BY <3>5
      <4> HIDE DEF C, D
      <4>3. Total(s) = v * Cardinality(C)
        BY <3>3, <3>9, <4>1, <4>2
      <4>4. QED
        BY <4>3 DEF C
    <3>8. QED
      BY <3>6, <3>7
  <2>3. QED
    BY <2>1, <2>2
<1>2. S \in Good
  <2> HIDE DEF Good
  <2>1. QED
    BY <1>1, SubsetInduction
<1>3. S \cap T = T /\ Cardinality(S \cap T) \in Nat
  BY <1>f
<1>4. QED
  BY <1>2, <1>3

-----------------------------------------------------------------------------
(***************************************************************************)
(* Losses that grow: the pace of the last two is more than that of the     *)
(* others, so that nothing accelerates.                                    *)
(***************************************************************************)

\* The last of falling numbers is the lowest of them.
LEMMA FallingAll ==
  ASSUME NEW q \in Seq(Int), \A i \in 2 .. Len(q) : q[i] <= q[i - 1], NEW n \in 1 .. Len(q)
  PROVE  \A i \in 1 .. n : q[n] <= q[i]
<1> DEFINE Good == {k \in Nat : \A i \in 1 .. n : i + k = n => q[n] <= q[i]}
<1>t. n \in Nat /\ Len(q) \in Nat /\ n <= Len(q) /\ \A i \in 1 .. n : q[i] \in Int
  OBVIOUS
<1>1. 0 \in Good
  BY <1>t
<1>2. ASSUME NEW k \in Good PROVE k + 1 \in Good
  <2>1. SUFFICES ASSUME NEW i \in 1 .. n, i + (k + 1) = n PROVE q[n] <= q[i]
    OBVIOUS
  <2>2. i + 1 \in 1 .. n /\ (i + 1) + k = n /\ i + 1 \in 2 .. Len(q) /\ (i + 1) - 1 = i
    BY <1>t, <2>1
  <2>3. q[n] <= q[i + 1] /\ q[i + 1] <= q[i]
    BY <2>2
  <2>4. QED
    BY <1>t, <2>2, <2>3
<1>3. Good = Nat
  <2>1. Good \in SUBSET Nat
    OBVIOUS
  <2> HIDE DEF Good
  <2>2. QED
    BY <1>1, <1>2, <2>1, NumberInduction
<1>4. \A i \in 1 .. n : n - i \in Nat /\ i + (n - i) = n
  BY <1>t
<1>5. QED
  BY <1>3, <1>4

\* Losses that only grow do not count as accelerating.
LEMMA GrowingLossesDoNotSlow ==
  ASSUME NEW q \in Seq(Int), \A i \in DOMAIN q : q[i] < 0, \A i \in 2 .. Len(q) : q[i] <= q[i - 1]
  PROVE  ~ Accelerates(q)
<1> DEFINE n == Len(q)
           old == SubSeq(q, 1, n - 2)
           older == Whole(old)
           recent == q[n] + q[n - 1]
<1>1. SUFFICES ASSUME n >= AccelerationWindow, Accelerates(q) PROVE FALSE
  BY DEF Accelerates
<1>2. n \in Nat /\ n >= 3 /\ DOMAIN q = 1 .. n
  BY <1>1, AssessmentConstants
<1>3. q[n] \in Int /\ q[n - 1] \in Int /\ q[n] <= q[n - 1] /\ q[n - 1] < 0
  BY <1>2
<1>4. \A i \in 1 .. n - 1 : q[n - 1] <= q[i] /\ q[i] \in Int /\ q[i] <= -1
  <2>1. n - 1 \in 1 .. Len(q)
    BY <1>2
  <2>2. \A i \in 1 .. n - 1 : q[n - 1] <= q[i]
    BY <2>1, FallingAll
  <2>3. \A i \in 1 .. n - 1 : q[i] \in Int /\ q[i] < 0
    BY <1>2
  <2>4. QED
    BY <2>2, <2>3
<1>5. /\ old \in Seq(Int) /\ Len(old) = n - 2 /\ \A i \in 1 .. n - 2 : old[i] = q[i]
  BY <1>2
<1> HIDE DEF old, n
<1>6. \A i \in 1 .. n - 2 : old[i] \in Int /\ q[n - 1] <= old[i] /\ old[i] <= -1
  BY <1>2, <1>4, <1>5
<1>7. older = SumFunctionOnSet(old, 1 .. n - 2) /\ IsFiniteSet(1 .. n - 2) /\ Cardinality(1 .. n - 2) = n - 2
  BY <1>5, WholeIsSum
<1>8. /\ older \in Int /\ q[n - 1] * (n - 2) <= older /\ older <= (-1) * (n - 2)
  <2>1. -1 \in Int
    OBVIOUS
  <2>2. /\ SumFunctionOnSet(old, 1 .. n - 2) \in Int
        /\ q[n - 1] * Cardinality(1 .. n - 2) <= SumFunctionOnSet(old, 1 .. n - 2)
        /\ SumFunctionOnSet(old, 1 .. n - 2) <= (-1) * Cardinality(1 .. n - 2)
    BY <1>3, <1>6, <1>7, <2>1, SumWithin
  <2> HIDE DEF older
  <2>3. QED
    BY <1>7, <2>2
<1> HIDE DEF older
<1>9. older < 0
  BY <1>2, <1>8
<1>10. 5 * recent * (n - 2) > 8 * older
  BY <1>1, <1>8, <1>9 DEF Accelerates, n, old, older
<1> DEFINE w == n - 2
           p == q[n - 1]
<1>11. w \in Nat /\ w >= 1 /\ p \in Int /\ recent \in Int /\ recent <= 2 * p /\ p * w <= older
  BY <1>2, <1>3, <1>8
<1> HIDE DEF w, p, recent
<1>12. recent * w <= (2 * p) * w
  BY <1>11
<1>13. 5 * recent * w <= 10 * (p * w)
  <2>1. 5 * recent * w = 5 * (recent * w) /\ (2 * p) * w = 2 * (p * w)
    BY <1>11
  <2>2. recent * w \in Int /\ p * w \in Int
    BY <1>11
  <2>3. QED
    BY <1>12, <2>1, <2>2
<1>14. p * w \in Int /\ 5 * recent * w \in Int
  BY <1>11
<1>15. 5 * recent * w > 8 * older
  BY <1>10 DEF w
<1> DEFINE pw == p * w
           rw == 5 * recent * w
<1>16. pw \in Int /\ rw \in Int /\ older \in Int /\ pw <= older /\ rw <= 10 * pw /\ rw > 8 * older /\ older < 0
  BY <1>8, <1>9, <1>11, <1>13, <1>14, <1>15
<1> HIDE DEF pw, rw
<1>17. QED
  BY <1>16

-----------------------------------------------------------------------------
(***************************************************************************)
(* Spikes: with k of n returns at the bottom, the variance is k (n - k)    *)
(* and each of them is n - k away.                                         *)
(***************************************************************************)

\* A second spike in the newer half hides the first: a spiky window has one.
LEMMA SpikesAlone ==
  ASSUME NEW q \in Seq({0, -1}), Len(q) <= 2 * SpikeWindow, Spiky(q)
  PROVE  Len(q) > SpikeWindow /\ Cardinality({i \in DOMAIN q : q[i] = -1}) = 1
<1> DEFINE n == Len(q)
           low == {i \in DOMAIN q : q[i] = -1}
           k == Cardinality(low)
           squares == [i \in DOMAIN q |-> q[i] * q[i]]
<1>1. n \in Nat /\ DOMAIN q = 1 .. n /\ \A i \in 1 .. n : q[i] = 0 \/ q[i] = -1
  <2>1. n \in Nat /\ DOMAIN q = 1 .. n
    OBVIOUS
  <2>2. \A i \in 1 .. n : q[i] \in {0, -1}
    BY <2>1, ElementOfSeq
  <2>3. QED
    BY <2>1, <2>2
<1>2. low \in SUBSET (1 .. n) /\ \A i \in 1 .. n : q[i] = IF i \in low THEN -1 ELSE 0
  BY <1>1
<1>3. IsFiniteSet(1 .. n)
  BY <1>1, UpToN
<1>4. Whole(q) = -k /\ k \in Nat
  <2> HIDE DEF low, n
  <2>1. SumFunctionOnSet(q, 1 .. n) = (-1) * Cardinality(low) /\ Cardinality(low) \in Nat
    <3> DEFINE v == -1
    <3>1. v \in Int /\ \A i \in 1 .. n : q[i] = IF i \in low THEN v ELSE 0
      BY <1>2
    <3> HIDE DEF v
    <3>2. SumFunctionOnSet(q, 1 .. n) = v * Cardinality(low) /\ Cardinality(low) \in Nat
      BY <1>2, <1>3, <3>1, SumOfEqual
    <3>3. QED
      BY <3>2 DEF v
  <2>2. Whole(q) = SumFunctionOnSet(q, 1 .. n)
    BY WholeIsSum DEF n
  <2>3. QED
    BY <2>1, <2>2
<1>5. Whole(squares) = k
  <2>1. DOMAIN squares = 1 .. n /\ \A i \in 1 .. n : squares[i] = q[i] * q[i]
    BY <1>1
  <2>2. \A i \in 1 .. n : squares[i] = IF i \in low THEN 1 ELSE 0
    <3>1. TAKE i \in 1 .. n
    <3>2. q[i] = 0 => q[i] * q[i] = 0
      OBVIOUS
    <3>3. q[i] = -1 => q[i] * q[i] = 1
      OBVIOUS
    <3> HIDE DEF squares, n, low
    <3>4. QED
      BY <1>2, <2>1, <3>2, <3>3
  <2> HIDE DEF low, n, squares
  <2>3. SumFunctionOnSet(squares, 1 .. n) = 1 * Cardinality(low)
    <3>1. ASSUME NEW f, NEW v \in Int, \A i \in 1 .. n : f[i] = IF i \in low THEN v ELSE 0
          PROVE  SumFunctionOnSet(f, 1 .. n) = v * Cardinality(low)
      <4>1. low \in SUBSET (1 .. n)
        BY <1>2
      <4> DEFINE S == 1 .. n
      <4>2. low \in SUBSET S /\ IsFiniteSet(S) /\ \A i \in S : f[i] = IF i \in low THEN v ELSE 0
        BY <1>3, <3>1, <4>1
      <4> HIDE DEF S
      <4>3. SumFunctionOnSet(f, S) = v * Cardinality(low)
        BY <4>2, SumOfEqual
      <4>4. QED
        BY <4>3 DEF S
    <3>2. QED
      BY <2>2, <3>1
  <2>4. Whole(squares) = SumFunctionOnSet(squares, 1 .. n)
    BY <2>1 DEF Whole, SumFunction
  <2>5. QED
    BY <1>4, <2>3, <2>4
<1> DEFINE variance == n * k - k * k
<1>6. /\ n >= SpikeWindow /\ variance > 0
      /\ \E i \in DOMAIN q : n * q[i] + k < 0 /\ (n * q[i] + k) * (n * q[i] + k) > SpikeSquare * variance
  <2>1. /\ n >= SpikeWindow /\ n * Whole(squares) - Whole(q) * Whole(q) > 0
        /\ \E i \in DOMAIN q :
             /\ n * q[i] - Whole(q) < 0
             /\ (n * q[i] - Whole(q)) * (n * q[i] - Whole(q)) >
                   SpikeSquare * (n * Whole(squares) - Whole(q) * Whole(q))
    BY DEF Spiky
  <2>2. (-k) * (-k) = k * k
    BY <1>4
  <2>3. \A m \in Int : m - (-k) = m + k
    BY <1>4
  <2>4. \A i \in 1 .. n : n * q[i] \in Int
    BY <1>1
  <2>5. n * Whole(squares) - Whole(q) * Whole(q) = variance
    BY <1>4, <1>5, <2>2
  <2>6. \A i \in 1 .. n : n * q[i] - Whole(q) = n * q[i] + k
    BY <1>4, <2>3, <2>4
  <2> HIDE DEF k, n, squares, variance
  <2>7. QED
    BY <1>1, <2>1, <2>5, <2>6
<1>7. PICK i \in 1 .. n : n * q[i] + k < 0 /\ (n * q[i] + k) * (n * q[i] + k) > SpikeSquare * variance
  BY <1>1, <1>6
<1> HIDE DEF n, k, low, squares
<1>8. q[i] = -1
  BY <1>1, <1>4, <1>7
<1> DEFINE d == n - k
<1>9. n * q[i] + k = - d /\ d \in Int /\ n = d + k
  BY <1>1, <1>4, <1>8
<1>10. d > 0
  BY <1>7, <1>9
<1>11. variance = k * d
  <2> HIDE DEF d
  <2>1. n * k = (d + k) * k
    BY <1>9
  <2>2. QED
    BY <1>4, <1>9, <2>1
<1> HIDE DEF d, variance
<1>12. d * d > SpikeSquare * (k * d)
  BY <1>7, <1>9, <1>11
<1>s. SpikeSquare \in Nat /\ SpikeWindow \in Nat /\ SpikeWindow >= 1 /\ SpikeWindow <= SpikeSquare + 1
  BY AssessmentConstants
<1>13. d > SpikeSquare * k
  <2>1. SUFFICES ASSUME d <= SpikeSquare * k PROVE FALSE
    BY <1>4, <1>9, <1>s
  <2>2. d * d <= (SpikeSquare * k) * d
    BY <1>4, <1>9, <1>10, <1>s, <2>1
  <2>3. (SpikeSquare * k) * d = SpikeSquare * (k * d)
    BY <1>4, <1>9, <1>s
  <2>4. d * d \in Int /\ SpikeSquare * (k * d) \in Int
    BY <1>4, <1>9, <1>s
  <2>5. QED
    BY <1>12, <2>2, <2>3, <2>4
<1>14. k > 0
  <2>1. SUFFICES ASSUME k = 0 PROVE FALSE
    BY <1>4
  <2>2. variance = 0
    BY <1>9, <1>11, <2>1
  <2>3. QED
    BY <1>6, <2>2
<1>15. (SpikeWindow - 1) * k <= SpikeSquare * k
  BY <1>4, <1>s
<1>16. n > SpikeWindow * k
  <2>1. SpikeWindow * k = (SpikeWindow - 1) * k + k
    BY <1>4, <1>s
  <2>2. SpikeWindow * k \in Int /\ (SpikeWindow - 1) * k \in Int /\ SpikeSquare * k \in Int
    BY <1>4, <1>s
  <2>3. QED
    BY <1>4, <1>9, <1>13, <1>15, <2>1, <2>2
<1>17. k < 2
  <2>1. SUFFICES ASSUME k >= 2 PROVE FALSE
    BY <1>4
  <2>2. SpikeWindow * k >= SpikeWindow * 2
    BY <1>4, <1>s, <2>1
  <2>3. n <= 2 * SpikeWindow
    BY DEF n
  <2>4. SpikeWindow * k \in Int
    BY <1>4, <1>s
  <2>5. QED
    BY <1>1, <1>16, <1>s, <2>2, <2>3, <2>4
<1>18. k = 1
  BY <1>4, <1>14, <1>17
<1>19. n > SpikeWindow
  BY <1>16, <1>18, <1>s
<1>20. QED
  BY <1>18, <1>19 DEF n, k, low

-----------------------------------------------------------------------------
(***************************************************************************)
(* The analyzer of drawdowns.  A drawdown there is is deep enough to have  *)
(* been found, measured from the peak before it.                           *)
(***************************************************************************)

AnalyzerInv ==
  /\ peak \in Nat /\ peak > 0 /\ peak \in Equities \cup {Capital}
  /\ trough \in Nat /\ trough <= peak /\ lowest \in Nat /\ inDrawdown \in BOOLEAN
  /\ inDrawdown => trough = lowest /\ 100 * (peak - lowest) > peak
  /\ pace \in Seq(Int) /\ Len(pace) <= 2 * AccelerationWindow
  /\ periods \in Seq({0, -1}) /\ Len(periods) <= 2 * SpikeWindow
  /\ ended \in Seq(Nat) /\ Len(ended) <= DrawdownLimit /\ \A i \in 1 .. Len(ended) : ended[i] >= 1
  /\ flagged \subseteq {"acceleration", "spike"}
  /\ "increase_reserves" \in required => Accelerates(pace)

\* A drawdown that was found is at least a percent, and no less from a higher peak.
LEMMA DepthsFacts ==
  ASSUME NEW top \in Nat, top > 0, NEW low \in Nat, 100 * (top - low) > top
  PROVE  /\ Depth(top, low) \in Nat /\ Depth(top, low) >= 1
         /\ \A higher \in Nat : higher >= top =>
              100 * (higher - low) > higher /\ Depth(higher, low) >= Depth(top, low)
<1>1. ASSUME NEW t \in Nat, t > 0, 100 * (t - low) > t
      PROVE  Depth(t, low) \in Nat /\ Depth(t, low) >= 1 /\ Depth(t, low) * t <= 100 * (t - low)
  <2> DEFINE x == 100 * (t - low)
  <2>1. x \in Int /\ x > t
    BY <1>1
  <2> HIDE DEF x
  <2>2. x \div t \in Int /\ (x \div t) * t <= x /\ x < (x \div t + 1) * t
    BY <1>1, <2>1
  <2>3. x \div t >= 1
    <3>1. SUFFICES ASSUME x \div t < 1 PROVE FALSE
      BY <2>2
    <3>2. (x \div t + 1) * t <= 1 * t
      BY <1>1, <2>2, <3>1
    <3>3. QED
      BY <1>1, <2>1, <2>2, <3>2
  <2>4. QED
    BY <2>2, <2>3 DEF Depth, x
<1>2. ASSUME NEW higher \in Nat, higher >= top
      PROVE  100 * (higher - low) > higher /\ Depth(higher, low) >= Depth(top, low)
  <2>1. 100 * (higher - low) > higher
    BY <1>2
  <2> DEFINE d == Depth(top, low)
             x == 100 * (higher - low)
  <2>2. d \in Nat /\ d >= 1 /\ d * top <= 100 * (top - low)
    BY <1>1
  <2> HIDE DEF d
  <2>3. d <= 100
    <3>1. SUFFICES ASSUME d >= 101 PROVE FALSE
      BY <2>2
    <3>2. d * top >= 101 * top
      BY <2>2, <3>1
    <3>3. d * top \in Int
      BY <2>2
    <3>4. QED
      BY <2>2, <3>2, <3>3
  <2>4. (100 - d) * higher >= (100 - d) * top
    BY <1>2, <2>2, <2>3
  <2>5. (100 - d) * top = 100 * top - d * top /\ (100 - d) * higher = 100 * higher - d * higher
        /\ d * top \in Int /\ d * higher \in Int
    BY <2>2
  <2>6. d * higher <= x
    BY <2>2, <2>4, <2>5
  <2>7. x \in Int /\ higher > 0
    BY <1>2
  <2> HIDE DEF x
  <2>8. x \div higher \in Int /\ x < (x \div higher + 1) * higher
    BY <2>7
  <2>9. d <= x \div higher
    <3> DEFINE e == x \div higher
    <3> HIDE DEF e
    <3>1. SUFFICES ASSUME e + 1 <= d PROVE FALSE
      BY <2>2, <2>8 DEF e
    <3>2. (e + 1) * higher <= d * higher
      BY <2>2, <2>8, <3>1 DEF e
    <3>3. (e + 1) * higher \in Int /\ d * higher \in Int
      BY <2>2, <2>8 DEF e
    <3>4. QED
      BY <2>6, <2>7, <2>8, <3>2, <3>3 DEF e
  <2>10. QED
    BY <2>1, <2>9 DEF Depth, x, d
<1>3. QED
  BY <1>1, <1>2

\* The analyzer begins at the capital, outside of drawdowns.
LEMMA AnalyzerBegins == AssessmentInit => AnalyzerInv
<1> SUFFICES ASSUME AssessmentInit PROVE AnalyzerInv
  OBVIOUS
<1>1. /\ peak = Capital /\ trough = Capital /\ inDrawdown = FALSE /\ pace = <<>>
      /\ periods = <<>> /\ flagged = {} /\ required = {} /\ ended = <<>> /\ lowest = Capital
  BY DEF AssessmentInit
<1>2. /\ Capital \in Nat /\ Capital > 0 /\ AccelerationWindow \in Nat /\ SpikeWindow \in Nat /\ DrawdownLimit \in Nat
  BY AssessmentConstants
<1>3. /\ pace \in Seq(Int) /\ Len(pace) = 0 /\ periods \in Seq({0, -1}) /\ Len(periods) = 0
      /\ ended \in Seq(Nat) /\ Len(ended) = 0
  BY <1>1
<1>4. ~ inDrawdown /\ inDrawdown \in BOOLEAN /\ "increase_reserves" \notin required
  BY <1>1
<1>5. Len(pace) <= 2 * AccelerationWindow /\ Len(periods) <= 2 * SpikeWindow /\ Len(ended) <= DrawdownLimit
      /\ \A i \in 1 .. Len(ended) : ended[i] >= 1
  BY <1>2, <1>3
<1>6. QED
  BY <1>1, <1>2, <1>3, <1>4, <1>5 DEF AnalyzerInv

\* A return of a period goes to the window of the spikes.
LEMMA ReturnKeepsAnalyzer ==
  ASSUME AnalyzerInv, RecordReturn PROVE AnalyzerInv'
<1>1. PICK return \in {0, -1} :
        /\ periods' = Newest(Append(periods, return), 2 * SpikeWindow)
        /\ UNCHANGED <<peak, trough, inDrawdown, pace, flagged, required, ended, lowest>>
  BY DEF RecordReturn
<1> DEFINE q == Append(periods, return)
<1>2. periods \in Seq({0, -1}) /\ q \in Seq({0, -1}) /\ 2 * SpikeWindow \in Nat \ {0}
  BY AssessmentConstants DEF AnalyzerInv
<1>s. periods' = Newest(q, 2 * SpikeWindow)
  BY <1>1, Zenon
<1> HIDE DEF q
<1>3. periods' \in Seq({0, -1}) /\ Len(periods') = IF Len(q) <= 2 * SpikeWindow THEN Len(q) ELSE 2 * SpikeWindow
  <2> DEFINE m == 2 * SpikeWindow
             T == {0, -1}
  <2>1. q \in Seq(T) /\ m \in Nat \ {0} /\ periods' = Newest(q, m)
    BY <1>2, <1>s
  <2> HIDE DEF m, T
  <2>2. Newest(q, m) \in Seq(T) /\ Len(Newest(q, m)) = IF Len(q) <= m THEN Len(q) ELSE m
    BY <2>1, NewestOnes
  <2>3. QED
    BY <2>1, <2>2, Zenon DEF m, T
<1>4. Len(periods') <= 2 * SpikeWindow
  BY <1>2, <1>3
<1>5. QED
  BY <1>1, <1>3, <1>4 DEF AnalyzerInv

\* What an update does, part by part, with the peak, whether there is a drawdown, and the
\* rates that it leaves.
UpdatedTo(value, top, deep, rates) ==
  /\ top = (IF peak >= value THEN peak ELSE value) /\ deep = (100 * (top - value) > top)
  /\ peak' = top /\ pace' = rates /\ inDrawdown' = deep /\ periods' = periods
  /\ Len(rates) <= 2 * AccelerationWindow
  /\ ended' = IF inDrawdown /\ ~ deep THEN Newest(Append(ended, Depth(top, trough)), DrawdownLimit) ELSE ended
  /\ trough' = IF deep /\ ~ inDrawdown THEN value
               ELSE IF deep THEN (IF trough <= value THEN trough ELSE value) ELSE trough
  /\ lowest' = IF inDrawdown /\ deep THEN (IF lowest <= value THEN lowest ELSE value)
               ELSE IF deep THEN value ELSE lowest
  /\ flagged' \subseteq {"acceleration", "spike"}
  /\ "increase_reserves" \in required' => Accelerates(rates)

\* What an update does, without what it asks for.
LEMMA UpdateDoes ==
  ASSUME AnalyzerInv, UpdateDrawdown
  PROVE  \E value \in Equities, top \in Nat, deep \in BOOLEAN, rates \in Seq(Int) : UpdatedTo(value, top, deep, rates)
<1>1. PICK value \in Equities, pnl \in Changes :
        LET top == Max({peak, value})
            deep == 100 * (top - value) > top
            depth == Depth(top, value)
            rates == Newest(Append(pace, (1000 * pnl) \div top), 2 * AccelerationWindow)
            begins == deep /\ ~ inDrawdown
            losing == IF pnl >= 0 THEN 0 ELSE IF value > peak THEN 1 ELSE losses + 1 IN
        /\ updates < MaxUpdates /\ updates' = updates + 1
        /\ peak' = top /\ losses' = losing /\ inDrawdown' = deep
        /\ ended' = IF inDrawdown /\ ~ deep THEN EndedWith(top, trough, value) ELSE ended
        /\ trough' = IF begins THEN value ELSE IF deep THEN Min({trough, value}) ELSE trough
        /\ lowest' = IF inDrawdown /\ deep THEN Min({lowest, value}) ELSE IF deep THEN value ELSE lowest
        /\ \/ depth >= 10 /\ UNCHANGED <<pace, flagged, required>>
           \/ /\ pace' = rates
              /\ flagged' = IF depth < 10 THEN {} ELSE flagged \cup FoundIn(rates)
              /\ required' = Asked(depth, 20 * Max({pnl, 0 - pnl}) > top, losing, FoundIn(rates))
        /\ UNCHANGED <<periods, qualityVars>>
  BY ZenonT(60) DEF UpdateDrawdown
<1> DEFINE top == Max({peak, value})
           deep == 100 * (top - value) > top
           depth == Depth(top, value)
           more == Newest(Append(pace, (1000 * pnl) \div top), 2 * AccelerationWindow)
           losing == IF pnl >= 0 THEN 0 ELSE IF value > peak THEN 1 ELSE losses + 1
           abrupt == 20 * Max({pnl, 0 - pnl}) > top
           found == FoundIn(more)
           rates == pace'
<1>2. /\ peak \in Nat /\ peak > 0 /\ trough \in Nat /\ lowest \in Nat /\ pace \in Seq(Int)
      /\ pnl \in Int /\ Len(pace) <= 2 * AccelerationWindow
      /\ ("increase_reserves" \in required => Accelerates(pace))
      /\ flagged \subseteq {"acceleration", "spike"} /\ value \in Nat /\ 2 * AccelerationWindow \in Nat \ {0}
  BY AssessmentConstants DEF AnalyzerInv
<1>3. top = IF peak >= value THEN peak ELSE value
  BY <1>2, TwoNumbers
<1>4. /\ Min({trough, value}) = (IF trough <= value THEN trough ELSE value)
      /\ Min({lowest, value}) = (IF lowest <= value THEN lowest ELSE value)
  <2>1. ASSUME NEW a \in Nat, NEW b \in Nat PROVE Min({a, b}) = (IF a <= b THEN a ELSE b)
    BY TwoNumbers
  <2>2. trough \in Nat /\ lowest \in Nat /\ value \in Nat
    BY <1>2
  <2>3. QED
    BY <2>1, <2>2
<1>p. periods' = periods
  BY <1>1
<1>5. /\ peak' = top /\ pace' = rates /\ inDrawdown' = deep /\ periods' = periods
      /\ ended' = IF inDrawdown /\ ~ deep THEN EndedWith(top, trough, value) ELSE ended
      /\ trough' = IF deep /\ ~ inDrawdown THEN value ELSE IF deep THEN Min({trough, value}) ELSE trough
      /\ lowest' = IF inDrawdown /\ deep THEN Min({lowest, value}) ELSE IF deep THEN value ELSE lowest
  BY <1>1, <1>p, Zenon
<1>6. \/ UNCHANGED <<pace, flagged, required>>
      \/ /\ pace' = more /\ flagged' = IF depth < 10 THEN {} ELSE flagged \cup found
         /\ required' = Asked(depth, abrupt, losing, found)
  <2>1. \/ depth >= 10 /\ UNCHANGED <<pace, flagged, required>>
        \/ /\ pace' = more /\ flagged' = IF depth < 10 THEN {} ELSE flagged \cup found
           /\ required' = Asked(depth, abrupt, losing, found)
    BY <1>1, Zenon
  <2> HIDE DEF depth, more, found, abrupt, losing
  <2>2. QED
    BY <2>1, Zenon
<1>7. top \in Nat /\ top > 0 /\ deep \in BOOLEAN
  BY <1>2, <1>3
<1>m. more \in Seq(Int) /\ Len(more) <= 2 * AccelerationWindow
  <2> DEFINE e == (1000 * pnl) \div top
             q == Append(pace, e)
  <2>1. e \in Int
    <3>1. 1000 * pnl \in Int
      BY <1>2
    <3> HIDE DEF top
    <3>2. QED
      BY <1>7, <3>1
  <2> HIDE DEF e
  <2>2. q \in Seq(Int) /\ Len(q) \in Nat
    BY <1>2, <2>1
  <2> HIDE DEF q
  <2>3. Newest(q, 2 * AccelerationWindow) \in Seq(Int)
        /\ Len(Newest(q, 2 * AccelerationWindow)) = (IF Len(q) <= 2 * AccelerationWindow THEN Len(q) ELSE 2 * AccelerationWindow)
    BY <1>2, <2>2, NewestOnes
  <2>4. Len(Newest(q, 2 * AccelerationWindow)) <= 2 * AccelerationWindow
    BY <1>2, <2>2, <2>3
  <2>5. QED
    BY <2>3, <2>4 DEF q, e
<1> HIDE DEF top, deep, depth, more, losing, abrupt
<1>8. rates \in Seq(Int) /\ Len(rates) <= 2 * AccelerationWindow
  BY <1>2, <1>6, <1>m
<1>f. found \subseteq {"acceleration", "spike"} /\ ("acceleration" \in found => Accelerates(more))
  BY DEF FoundIn
<1> HIDE DEF found
<1>9. flagged' \subseteq {"acceleration", "spike"}
  BY <1>2, <1>6, <1>f
<1>10. "increase_reserves" \in required' => Accelerates(rates)
  <2>1. "increase_reserves" \in Asked(depth, abrupt, losing, found) => "acceleration" \in found
    BY <1>f DEF Asked
  <2>2. QED
    BY <1>2, <1>6, <1>f, <2>1
<1>11. EndedWith(top, trough, value) = Newest(Append(ended, Depth(top, trough)), DrawdownLimit)
  BY DEF EndedWith
<1>12. deep = (100 * (top - value) > top)
  BY DEF deep
<1>13. /\ trough' = IF deep /\ ~ inDrawdown THEN value
                     ELSE IF deep THEN (IF trough <= value THEN trough ELSE value) ELSE trough
       /\ lowest' = IF inDrawdown /\ deep THEN (IF lowest <= value THEN lowest ELSE value)
                     ELSE IF deep THEN value ELSE lowest
  BY <1>4, <1>5, Zenon
<1>14. ended' = IF inDrawdown /\ ~ deep THEN Newest(Append(ended, Depth(top, trough)), DrawdownLimit) ELSE ended
  BY <1>5, <1>11, Zenon
<1>15. peak' = top /\ pace' = rates /\ inDrawdown' = deep /\ periods' = periods
  BY <1>5, Zenon
<1>16. value \in Equities /\ top \in Nat /\ deep \in BOOLEAN /\ rates \in Seq(Int) /\ value \in Nat
  BY <1>2, <1>7, <1>8
<1> HIDE DEF found
<1>17. UpdatedTo(value, top, deep, rates)
  <2>1. top = (IF peak >= value THEN peak ELSE value) /\ deep = (100 * (top - value) > top)
    BY <1>3, <1>12, Zenon
  <2>2. Len(rates) <= 2 * AccelerationWindow /\ flagged' \subseteq {"acceleration", "spike"}
        /\ ("increase_reserves" \in required' => Accelerates(rates))
    BY <1>8, <1>9, <1>10, Zenon
  <2>3. QED
    BY <1>13, <1>14, <1>15, <2>1, <2>2, Zenon DEF UpdatedTo
<1>18. QED
  BY <1>16, <1>17, Zenon

\* An update keeps the invariant, and records a drawdown as deep as it was.
LEMMA UpdateKeepsAnalyzer ==
  ASSUME AnalyzerInv, UpdateDrawdown
  PROVE  AnalyzerInv' /\ (Len(ended') > Len(ended) => Last(ended') >= Depth(peak, lowest))
<1>1. PICK value \in Equities, top \in Nat, deep \in BOOLEAN, rates \in Seq(Int) : UpdatedTo(value, top, deep, rates)
  BY UpdateDoes
<1>2. /\ top = (IF peak >= value THEN peak ELSE value) /\ deep = (100 * (top - value) > top)
      /\ peak' = top /\ pace' = rates /\ inDrawdown' = deep /\ periods' = periods
      /\ Len(rates) <= 2 * AccelerationWindow
  BY <1>1, Zenon DEF UpdatedTo
<1>3. /\ ended' = IF inDrawdown /\ ~ deep THEN Newest(Append(ended, Depth(top, trough)), DrawdownLimit) ELSE ended
      /\ trough' = IF deep /\ ~ inDrawdown THEN value
                   ELSE IF deep THEN (IF trough <= value THEN trough ELSE value) ELSE trough
      /\ lowest' = IF inDrawdown /\ deep THEN (IF lowest <= value THEN lowest ELSE value)
                   ELSE IF deep THEN value ELSE lowest
  BY <1>1, Zenon DEF UpdatedTo
<1>4. /\ flagged' \subseteq {"acceleration", "spike"}
      /\ "increase_reserves" \in required' => Accelerates(pace')
  BY <1>1, <1>2, Zenon DEF UpdatedTo
<1>5. /\ peak \in Nat /\ peak > 0 /\ peak \in Equities \cup {Capital} /\ trough \in Nat /\ trough <= peak
      /\ lowest \in Nat /\ inDrawdown \in BOOLEAN /\ value \in Nat
      /\ inDrawdown => trough = lowest /\ 100 * (peak - lowest) > peak
      /\ ended \in Seq(Nat) /\ Len(ended) <= DrawdownLimit /\ (\A i \in 1 .. Len(ended) : ended[i] >= 1)
      /\ DrawdownLimit \in Nat \ {0}
  BY AssessmentConstants DEF AnalyzerInv
<1>6. /\ peak' \in Nat /\ peak' > 0 /\ peak <= peak' /\ value <= peak'
      /\ top = peak'
  BY <1>2, <1>5
<1>7. peak' \in Equities \cup {Capital}
  BY <1>2, <1>5
<1>8. trough' \in Nat /\ trough' <= peak' /\ lowest' \in Nat
  <2>1. trough' \in {value, trough} /\ lowest' \in {value, lowest}
    BY <1>3
  <2>2. QED
    BY <1>5, <1>6, <2>1
<1>9. inDrawdown' => trough' = lowest' /\ 100 * (peak' - lowest') > peak'
  <2>1. SUFFICES ASSUME deep PROVE trough' = lowest' /\ 100 * (peak' - lowest') > peak'
    BY <1>2
  <2>2. 100 * (peak' - value) > peak'
    BY <1>2, <1>6, <2>1
  <2>3. trough' = lowest' /\ lowest' <= value
    <3>1. CASE inDrawdown
      <4>1. trough = lowest /\ trough' = (IF trough <= value THEN trough ELSE value)
            /\ lowest' = (IF lowest <= value THEN lowest ELSE value)
        BY <1>3, <1>5, <2>1, <3>1
      <4>2. QED
        BY <1>5, <4>1
    <3>2. CASE ~ inDrawdown
      <4>1. trough' = value /\ lowest' = value
        BY <1>3, <2>1, <3>2
      <4>2. QED
        BY <1>5, <4>1
    <3>3. QED
      BY <3>1, <3>2
  <2>4. peak' \in Nat /\ value \in Nat /\ lowest' \in Nat
    BY <1>5, <1>6, <1>8
  <2>5. 100 * (peak' - lowest') > peak'
    <3>1. ASSUME NEW p \in Nat, NEW v \in Nat, NEW l \in Nat, l <= v, 100 * (p - v) > p
          PROVE  100 * (p - l) > p
      BY <3>1
    <3>2. QED
      BY <2>2, <2>3, <2>4, <3>1
  <2>6. QED
    BY <2>3, <2>5
<1>10. /\ ended' \in Seq(Nat) /\ Len(ended') <= DrawdownLimit /\ (\A i \in 1 .. Len(ended') : ended'[i] >= 1)
       /\ Len(ended') > Len(ended) => Last(ended') >= Depth(peak, lowest)
  <2>1. CASE ~ (inDrawdown /\ ~ deep)
    <3>1. ended' = ended
      BY <1>3, <2>1
    <3>2. Len(ended) \in Nat
      BY <1>5
    <3>3. QED
      BY <1>5, <3>1, <3>2
  <2>2. CASE inDrawdown /\ ~ deep
    <3> DEFINE d == Depth(top, trough)
               q == Append(ended, d)
    <3>1. trough = lowest /\ 100 * (peak - lowest) > peak
      BY <1>5, <2>2
    <3>2. d \in Nat /\ d >= 1 /\ d >= Depth(peak, lowest)
      <4>1. /\ Depth(peak, lowest) \in Nat /\ Depth(peak, lowest) >= 1
            /\ \A higher \in Nat : higher >= peak => Depth(higher, lowest) >= Depth(peak, lowest)
        BY <1>5, <3>1, DepthsFacts
      <4>2. 100 * (peak' - lowest) > peak'
        <5>1. \A higher \in Nat : higher >= peak => 100 * (higher - lowest) > higher
          BY <1>5, <3>1, DepthsFacts
        <5>2. peak' >= peak
          BY <1>5, <1>6
        <5>3. QED
          BY <1>6, <5>1, <5>2
      <4>3. Depth(peak', lowest) \in Nat /\ Depth(peak', lowest) >= 1
        BY <1>5, <1>6, <4>2, DepthsFacts
      <4>4. QED
        BY <1>6, <3>1, <4>1, <4>3
    <3> HIDE DEF d
    <3>3. /\ q \in Seq(Nat) /\ Len(q) = Len(ended) + 1 /\ Len(ended) \in Nat /\ q[Len(ended) + 1] = d
          /\ \A i \in 1 .. Len(ended) : q[i] = ended[i]
      BY <1>5, <3>2
    <3>4. \A i \in 1 .. Len(q) : q[i] >= 1
      <4>1. TAKE i \in 1 .. Len(q)
      <4>2. i \in 1 .. Len(ended) \/ i = Len(ended) + 1
        BY <3>3
      <4> HIDE DEF q
      <4>3. QED
        BY <1>5, <3>2, <3>3, <4>2
    <3>5. ended' = Newest(q, DrawdownLimit)
      BY <1>3, <2>2, Zenon DEF d
    <3> HIDE DEF q
    <3>6. /\ ended' \in Seq(Nat) /\ Len(ended') = (IF Len(q) <= DrawdownLimit THEN Len(q) ELSE DrawdownLimit)
          /\ \A i \in 1 .. Len(ended') :
               i + (Len(q) - Len(ended')) \in 1 .. Len(q) /\ ended'[i] = q[i + (Len(q) - Len(ended'))]
      <4>1. q \in Seq(Nat) /\ DrawdownLimit \in Nat \ {0}
        BY <1>5, <3>3
      <4>2. /\ Newest(q, DrawdownLimit) \in Seq(Nat)
            /\ Len(Newest(q, DrawdownLimit)) = (IF Len(q) <= DrawdownLimit THEN Len(q) ELSE DrawdownLimit)
            /\ \A i \in 1 .. Len(Newest(q, DrawdownLimit)) :
                 /\ i + (Len(q) - Len(Newest(q, DrawdownLimit))) \in 1 .. Len(q)
                 /\ Newest(q, DrawdownLimit)[i] = q[i + (Len(q) - Len(Newest(q, DrawdownLimit)))]
        BY <4>1, NewestOnes
      <4>3. QED
        BY <3>5, <4>2, Zenon
    <3>7. Len(ended') \in Nat /\ Len(ended') <= DrawdownLimit /\ Len(q) \in Nat
      BY <1>5, <3>3, <3>6
    <3>8. \A i \in 1 .. Len(ended') : ended'[i] >= 1
      BY <3>4, <3>6
    <3>9. ASSUME Len(ended') > Len(ended) PROVE Last(ended') >= Depth(peak, lowest)
      <4>1. Len(ended') = Len(q) /\ Len(q) \in 1 .. Len(q)
        BY <1>5, <3>3, <3>6, <3>7, <3>9
      <4>2. Len(q) + (Len(q) - Len(q)) = Len(q)
        BY <3>7
      <4>3. ended'[Len(ended')] = q[Len(q)]
        BY <3>6, <4>1, <4>2
      <4>4. QED
        BY <3>2, <3>3, <4>3 DEF Last
    <3>10. QED
      BY <3>6, <3>7, <3>8, <3>9
  <2>3. QED
    BY <2>1, <2>2
<1>11. pace' \in Seq(Int) /\ Len(pace') <= 2 * AccelerationWindow
  BY <1>2
<1>12. periods' \in Seq({0, -1}) /\ Len(periods') <= 2 * SpikeWindow
  BY <1>2 DEF AnalyzerInv
<1>13. inDrawdown' \in BOOLEAN
  BY <1>2
<1>14. AnalyzerInv'
  BY <1>4, <1>6, <1>7, <1>8, <1>9, <1>10, <1>11, <1>12, <1>13 DEF AnalyzerInv
<1>15. QED
  BY <1>10, <1>14

\* What the invariant says of drawdowns.
LEMMA AnalyzerSays ==
  ASSUME AnalyzerInv
  PROVE  /\ peak \in Equities \cup {Capital} /\ trough <= peak /\ Len(pace) <= 2 * AccelerationWindow
         /\ flagged \subseteq {"acceleration", "spike"} /\ Len(ended) <= DrawdownLimit
         /\ TroughIsLowest /\ GrowingLossesAskForNothing /\ SpikesHideEachOther
<1>1. TroughIsLowest
  <2>1. DOMAIN ended = 1 .. Len(ended)
    BY DEF AnalyzerInv
  <2>2. QED
    BY <2>1 DEF AnalyzerInv, TroughIsLowest
<1>2. GrowingLossesAskForNothing
  BY GrowingLossesDoNotSlow DEF AnalyzerInv, GrowingLossesAskForNothing
<1>3. SpikesHideEachOther
  BY SpikesAlone DEF AnalyzerInv, SpikesHideEachOther
<1>4. QED
  BY <1>1, <1>2, <1>3 DEF AnalyzerInv

-----------------------------------------------------------------------------
(***************************************************************************)
(* The quality of executions.  Without slippage the score is at least 70,  *)
(* so that after a fall, to below 80, it cannot fall by a fifth again.     *)
(***************************************************************************)

QualityInv ==
  /\ slips \in Seq(Nat) /\ worstSlip \in Nat /\ \A i \in 1 .. Len(slips) : slips[i] <= worstSlip
  /\ fillAttempts \in Nat /\ fillSuccesses \in Nat /\ fillSuccesses <= fillAttempts
  /\ slips # <<>> => fillAttempts > 0
  /\ lastQuality \in 0 .. 100 /\ degradations \in 0 .. 3
  /\ worstSlip = 0 => lastQuality >= 70 /\ degradations <= 1 /\ (degradations = 1 => lastQuality < 80)

\* The quality begins without fills.
LEMMA QualityBegins == AssessmentInit => QualityInv
<1> SUFFICES ASSUME AssessmentInit PROVE QualityInv
  OBVIOUS
<1>1. slips = <<>> /\ fillAttempts = 0 /\ fillSuccesses = 0 /\ lastQuality = 100 /\ degradations = 0 /\ worstSlip = 0
  BY DEF AssessmentInit
<1>2. slips \in Seq(Nat) /\ Len(slips) = 0 /\ \A i \in 1 .. Len(slips) : slips[i] <= worstSlip
  BY <1>1
<1>3. QED
  BY <1>1, <1>2 DEF QualityInv

\* A part of at most m times as much.
LEMMA QuotientWithin ==
  ASSUME NEW a \in Nat, NEW b \in Nat, b > 0, NEW m \in Nat, a <= m * b
  PROVE  a \div b \in 0 .. m
<1> DEFINE e == a \div b
<1>1. e \in Int /\ e * b <= a /\ a < (e + 1) * b
  OBVIOUS
<1> HIDE DEF e
<1>2. e <= m
  <2>1. SUFFICES ASSUME e >= m + 1 PROVE FALSE
    BY <1>1
  <2>2. e * b >= (m + 1) * b
    BY <1>1, <2>1
  <2>3. (m + 1) * b = m * b + b /\ m * b \in Int /\ e * b \in Int
    BY <1>1
  <2>4. QED
    BY <1>1, <2>2, <2>3
<1>3. e >= 0
  <2>1. SUFFICES ASSUME e + 1 <= 0 PROVE FALSE
    BY <1>1
  <2>2. (e + 1) * b <= 0 * b
    BY <1>1, <2>1
  <2>3. (e + 1) * b \in Int
    BY <1>1
  <2>4. QED
    BY <1>1, <2>2, <2>3
<1>4. QED
  BY <1>1, <1>2, <1>3 DEF e

\* The parts of a score, and the score of fills without slippage.
LEMMA ScoreFacts ==
  ASSUME QualityInv, slips # <<>>
  PROVE  Quality \in 0 .. 100 /\ (worstSlip = 0 => Quality >= 70)
<1>1. /\ slips \in Seq(Nat) /\ worstSlip \in Nat /\ (\A i \in 1 .. Len(slips) : slips[i] <= worstSlip)
      /\ fillAttempts \in Nat /\ fillAttempts > 0 /\ fillSuccesses \in Nat /\ fillSuccesses <= fillAttempts
  BY DEF QualityInv
<1>2. Len(slips) \in Nat /\ Len(slips) > 0 /\ DOMAIN slips = 1 .. Len(slips)
      /\ \A i \in 1 .. Len(slips) : slips[i] \in Nat
  BY <1>1
<1> DEFINE n == Len(slips)
           total == Whole(slips)
           top == Highest(slips)
<1>3. total \in Nat /\ (worstSlip = 0 => total = 0)
  <2>1. total = SumFunctionOnSet(slips, 1 .. n) /\ IsFiniteSet(1 .. n) /\ Cardinality(1 .. n) = n
    BY <1>1, WholeIsSum
  <2>2. \A i \in 1 .. n : slips[i] \in Int /\ 0 <= slips[i] /\ slips[i] <= worstSlip
    BY <1>1, <1>2
  <2> HIDE DEF n
  <2>3. /\ SumFunctionOnSet(slips, 1 .. n) \in Int /\ 0 * n <= SumFunctionOnSet(slips, 1 .. n)
        /\ SumFunctionOnSet(slips, 1 .. n) <= worstSlip * n
    <3>1. 0 \in Int /\ worstSlip \in Int
      BY <1>1
    <3> DEFINE S == 1 .. n
    <3>2. IsFiniteSet(S) /\ Cardinality(S) = n /\ \A i \in S : slips[i] \in Int /\ 0 <= slips[i] /\ slips[i] <= worstSlip
      BY <2>1, <2>2
    <3> HIDE DEF S
    <3>3. /\ SumFunctionOnSet(slips, S) \in Int /\ 0 * Cardinality(S) <= SumFunctionOnSet(slips, S)
          /\ SumFunctionOnSet(slips, S) <= worstSlip * Cardinality(S)
      BY <3>1, <3>2, SumWithin
    <3>4. QED
      BY <3>2, <3>3 DEF S
  <2>4. n \in Nat
    BY <1>2 DEF n
  <2> HIDE DEF total
  <2>5. QED
    BY <2>1, <2>3, <2>4
<1>4. top \in Nat /\ top <= worstSlip
  <2>1. ToSet(slips) = {slips[i] : i \in 1 .. n}
    BY <1>2 DEF ToSet
  <2>2. IsFiniteSet({slips[i] : i \in 1 .. n})
    <3>1. n \in Nat
      BY <1>2
    <3>2. IsFiniteSet(1 .. n)
      BY <3>1, UpToN
    <3> DEFINE S == 1 .. n
    <3>3. IsFiniteSet(S)
      BY <3>2
    <3> HIDE DEF S
    <3>4. IsFiniteSet({slips[i] : i \in S})
      BY <3>3, FiniteImage
    <3>5. QED
      BY <3>4 DEF S
  <2>3. slips[1] \in ToSet(slips) /\ ToSet(slips) \in SUBSET Int
    BY <1>2, <2>1
  <2>4. top \in ToSet(slips)
    <3> DEFINE S == ToSet(slips)
    <3>1. S \in SUBSET Int /\ IsFiniteSet(S) /\ S # {}
      BY <2>1, <2>2, <2>3
    <3> HIDE DEF S
    <3>2. Max(S) \in S
      BY <3>1, Extremes
    <3>3. QED
      BY <3>2 DEF S, Highest
  <2>5. PICK i \in 1 .. n : top = slips[i]
    BY <2>1, <2>4
  <2>6. QED
    BY <1>1, <1>2, <2>5
<1> HIDE DEF total, top, n
<1> DEFINE slip == Max({0, 100 - (5 * total) \div n})
           fill == (100 * fillSuccesses) \div fillAttempts
           latency == Max({0, 100 - top \div 10})
<1>n. n \in Nat /\ n > 0
  BY <1>2 DEF n
<1>5. slip \in 0 .. 100 /\ (worstSlip = 0 => slip = 100)
  <2> DEFINE x == (5 * total) \div n
  <2>x. slip = Max({0, 100 - x})
    OBVIOUS
  <2>1. x \in Nat /\ (total = 0 => x = 0)
    <3> DEFINE a == 5 * total
    <3>1. a \in Nat /\ (total = 0 => a = 0)
      BY <1>3
    <3> HIDE DEF a
    <3>2. QED
      BY <1>n, <3>1 DEF a
  <2> HIDE DEF x
  <2>2. Max({0, 100 - x}) = IF 0 >= 100 - x THEN 0 ELSE 100 - x
    <3>1. 0 \in Int /\ 100 - x \in Int
      BY <2>1
    <3>2. QED
      BY <3>1, TwoNumbers
  <2> DEFINE m == Max({0, 100 - x})
  <2>m. m = IF 0 >= 100 - x THEN 0 ELSE 100 - x
    BY <2>2
  <2> HIDE DEF m
  <2>3. m \in 0 .. 100 /\ (worstSlip = 0 => m = 100)
    BY <1>3, <2>1, <2>m
  <2>4. QED
    BY <2>x, <2>3 DEF m
<1>6. fill \in 0 .. 100
  <2> DEFINE a == 100 * fillSuccesses
  <2>1. a \in Nat /\ a <= 100 * fillAttempts /\ fill = a \div fillAttempts
    BY <1>1
  <2> HIDE DEF a
  <2>2. a \div fillAttempts \in 0 .. 100
    BY <1>1, <2>1, QuotientWithin
  <2>3. QED
    BY <2>1, <2>2
<1>7. latency \in 0 .. 100 /\ (worstSlip = 0 => latency = 100)
  <2> DEFINE x == top \div 10
  <2>x. latency = Max({0, 100 - x})
    OBVIOUS
  <2>1. x \in Nat /\ (top = 0 => x = 0)
    BY <1>4
  <2> HIDE DEF x
  <2>2. Max({0, 100 - x}) = IF 0 >= 100 - x THEN 0 ELSE 100 - x
    <3>1. 0 \in Int /\ 100 - x \in Int
      BY <2>1
    <3>2. QED
      BY <3>1, TwoNumbers
  <2>3. worstSlip = 0 => top = 0
    BY <1>4
  <2> DEFINE m == Max({0, 100 - x})
  <2>m. m = IF 0 >= 100 - x THEN 0 ELSE 100 - x
    BY <2>2
  <2> HIDE DEF m
  <2>4. m \in 0 .. 100 /\ (worstSlip = 0 => m = 100)
    BY <2>1, <2>m, <2>3
  <2>5. QED
    BY <2>x, <2>4 DEF m
<1>8. Quality = (40 * slip + 30 * fill + 30 * latency) \div 100
  BY DEF Quality, total, n, top
<1> HIDE DEF slip, fill, latency
<1>9. QED
  BY <1>5, <1>6, <1>7, <1>8

\* A calculation of the quality keeps the invariant.
LEMMA QualityKept ==
  ASSUME QualityInv, CalculateQuality PROVE QualityInv'
<1> DEFINE score == Quality
<1>1. /\ slips # <<>> /\ lastQuality' = score
      /\ degradations' = IF Degrading(score) THEN Min({3, degradations + 1}) ELSE 0
      /\ UNCHANGED <<slips, fillAttempts, fillSuccesses, worstSlip>>
  BY DEF CalculateQuality
<1>2. score \in 0 .. 100 /\ (worstSlip = 0 => score >= 70)
  BY <1>1, ScoreFacts
<1> HIDE DEF score
<1>3. /\ slips \in Seq(Nat) /\ worstSlip \in Nat /\ (\A i \in 1 .. Len(slips) : slips[i] <= worstSlip)
      /\ lastQuality \in 0 .. 100 /\ degradations \in 0 .. 3
      /\ worstSlip = 0 => lastQuality >= 70 /\ degradations <= 1 /\ (degradations = 1 => lastQuality < 80)
  BY DEF QualityInv
<1>4. Min({3, degradations + 1}) = IF 3 <= degradations + 1 THEN 3 ELSE degradations + 1
  <2>1. 3 \in Int /\ degradations + 1 \in Int
    BY <1>3
  <2>2. QED
    BY <2>1, TwoNumbers
<1>5. degradations' \in 0 .. 3
  <2>1. degradations' = 0 \/ degradations' = Min({3, degradations + 1})
    BY <1>1
  <2>2. QED
    BY <1>3, <1>4, <2>1
<1>6. ASSUME worstSlip = 0, Degrading(score)
      PROVE  5 * (score - lastQuality) < 0 - lastQuality
  <2>1. SUFFICES ASSUME Len(slips) >= 2 * QualityHalf,
                        2 * Whole(Newest(slips, QualityHalf)) > 3 * Whole(SubSeq(slips, 1, QualityHalf))
                 PROVE  FALSE
    BY <1>6 DEF Degrading
  <2>2. QualityHalf \in Nat /\ QualityHalf > 0 /\ Len(slips) \in Nat /\ QualityHalf <= Len(slips)
    BY <1>3, <2>1, AssessmentConstants
  <2>3. \A i \in 1 .. Len(slips) : slips[i] = 0
    <3>1. \A i \in 1 .. Len(slips) : slips[i] \in Nat
      BY <1>3
    <3>2. QED
      BY <1>3, <1>6, <3>1
  <2>4. ASSUME NEW q \in Seq(Nat), \A i \in 1 .. Len(q) : q[i] = 0 PROVE Whole(q) = 0
    <3>1. Whole(q) = SumFunctionOnSet(q, 1 .. Len(q)) /\ IsFiniteSet(1 .. Len(q))
      BY WholeIsSum
    <3>2. QED
      BY <2>4, <3>1, SumOfZeros
  <2> DEFINE a == Newest(slips, QualityHalf)
             b == SubSeq(slips, 1, QualityHalf)
  <2>5. a \in Seq(Nat) /\ \A i \in 1 .. Len(a) : a[i] = 0
    <3>1. /\ a \in Seq(Nat)
          /\ \A i \in 1 .. Len(a) : i + (Len(slips) - Len(a)) \in 1 .. Len(slips) /\ a[i] = slips[i + (Len(slips) - Len(a))]
      BY <1>3, <2>2, NewestOnes
    <3> HIDE DEF a
    <3>2. QED
      BY <2>3, <3>1
  <2>6. b \in Seq(Nat) /\ Len(b) = QualityHalf /\ \A i \in 1 .. QualityHalf : b[i] = slips[i]
    BY <1>3, <2>2
  <2> HIDE DEF a, b
  <2>7. \A i \in 1 .. Len(b) : b[i] = 0
    BY <2>2, <2>3, <2>6
  <2>8. Whole(a) = 0 /\ Whole(b) = 0
    BY <2>4, <2>5, <2>6, <2>7
  <2>9. QED
    BY <2>1, <2>8 DEF a, b
<1>7. ASSUME worstSlip = 0
      PROVE  lastQuality' >= 70 /\ degradations' <= 1 /\ (degradations' = 1 => lastQuality' < 80)
  <2>1. lastQuality' = score /\ score >= 70 /\ score \in 0 .. 100 /\ lastQuality \in 0 .. 100
    BY <1>1, <1>2, <1>3, <1>7
  <2>2. CASE Degrading(score)
    <3>1. 5 * (score - lastQuality) < 0 - lastQuality
      BY <1>6, <1>7, <2>2
    <3>2. score < 80 /\ lastQuality >= 80
      BY <2>1, <3>1
    <3>3. degradations = 0
      BY <1>3, <1>7, <3>2
    <3>4. degradations' = 1
      BY <1>1, <1>4, <2>2, <3>3
    <3>5. QED
      BY <2>1, <3>2, <3>4
  <2>3. CASE ~ Degrading(score)
    BY <1>1, <2>1, <2>3
  <2>4. QED
    BY <2>2, <2>3
<1>8. lastQuality' \in 0 .. 100
  BY <1>1, <1>2
<1>9. QED
  BY <1>1, <1>5, <1>7, <1>8 DEF QualityInv

\* A fill keeps the invariant.
LEMMA FillKept ==
  ASSUME QualityInv, RecordFill PROVE QualityInv'
<1>1. PICK slip \in Slippages :
        /\ slips' = Newest(Append(slips, slip), 2 * QualityHalf)
        /\ fillAttempts' = fillAttempts + 1 /\ fillSuccesses' = fillSuccesses + 1
        /\ worstSlip' = Max({worstSlip, slip}) /\ UNCHANGED <<lastQuality, degradations>>
  BY DEF RecordFill
<1>2. /\ slips \in Seq(Nat) /\ worstSlip \in Nat /\ (\A i \in 1 .. Len(slips) : slips[i] <= worstSlip)
      /\ slip \in Nat /\ 2 * QualityHalf \in Nat \ {0}
      /\ fillAttempts \in Nat /\ fillSuccesses \in Nat /\ fillSuccesses <= fillAttempts
  BY AssessmentConstants DEF QualityInv
<1>3. worstSlip' \in Nat /\ worstSlip <= worstSlip' /\ slip <= worstSlip'
  <2>1. worstSlip' = IF worstSlip >= slip THEN worstSlip ELSE slip
    BY <1>1, <1>2, TwoNumbers
  <2>2. QED
    BY <1>2, <2>1
<1> DEFINE q == Append(slips, slip)
<1>4. /\ q \in Seq(Nat) /\ Len(q) = Len(slips) + 1 /\ Len(slips) \in Nat /\ q[Len(slips) + 1] = slip
      /\ \A i \in 1 .. Len(slips) : q[i] = slips[i] /\ q[i] \in Nat
  BY <1>2
<1>5. \A i \in 1 .. Len(q) : q[i] <= worstSlip'
  <2>1. TAKE i \in 1 .. Len(q)
  <2>2. i \in 1 .. Len(slips) \/ i = Len(slips) + 1
    BY <1>4
  <2> HIDE DEF q
  <2>3. CASE i \in 1 .. Len(slips)
    <3>1. q[i] = slips[i] /\ q[i] \in Nat /\ slips[i] <= worstSlip
      BY <1>2, <1>4, <2>3
    <3>2. QED
      BY <1>2, <1>3, <3>1
  <2>4. CASE i = Len(slips) + 1
    BY <1>3, <1>4, <2>4
  <2>5. QED
    BY <2>2, <2>3, <2>4
<1>s. slips' = Newest(q, 2 * QualityHalf)
  BY <1>1, Zenon
<1> HIDE DEF q
<1>6. /\ slips' \in Seq(Nat)
      /\ \A i \in 1 .. Len(slips') : i + (Len(q) - Len(slips')) \in 1 .. Len(q) /\ slips'[i] = q[i + (Len(q) - Len(slips'))]
  <2> DEFINE m == 2 * QualityHalf
  <2>1. q \in Seq(Nat) /\ m \in Nat \ {0} /\ slips' = Newest(q, m)
    BY <1>2, <1>4, <1>s
  <2> HIDE DEF m
  <2>2. /\ Newest(q, m) \in Seq(Nat)
        /\ \A i \in 1 .. Len(Newest(q, m)) :
             i + (Len(q) - Len(Newest(q, m))) \in 1 .. Len(q) /\ Newest(q, m)[i] = q[i + (Len(q) - Len(Newest(q, m)))]
    BY <2>1, NewestOnes
  <2>3. QED
    BY <2>1, <2>2, Zenon
<1>7. \A i \in 1 .. Len(slips') : slips'[i] <= worstSlip'
  BY <1>5, <1>6
<1>8. fillAttempts' \in Nat /\ fillAttempts' > 0 /\ fillSuccesses' \in Nat /\ fillSuccesses' <= fillAttempts'
  BY <1>1, <1>2
<1>9. worstSlip' = 0 => worstSlip = 0
  BY <1>2, <1>3
<1>10. QED
  BY <1>1, <1>3, <1>6, <1>7, <1>8, <1>9 DEF QualityInv

\* So does every step of the quality.
LEMMA QualitySteps ==
  ASSUME QualityInv, QualityNext PROVE QualityInv'
<1>1. CASE RecordMiss
  <2>1. fillAttempts' = fillAttempts + 1 /\ UNCHANGED <<slips, fillSuccesses, lastQuality, degradations, worstSlip>>
    BY <1>1 DEF RecordMiss
  <2>2. fillAttempts' \in Nat /\ fillAttempts' > 0 /\ fillSuccesses <= fillAttempts'
    BY <2>1 DEF QualityInv
  <2>3. QED
    BY <2>1, <2>2 DEF QualityInv
<1>2. QED
  BY <1>1, FillKept, QualityKept DEF QualityNext

-----------------------------------------------------------------------------
\* The assessments together.
AssessmentInv == AnalyzerInv /\ QualityInv

\* The assessments begin in their invariant.
LEMMA AssessmentBegins == AssessmentInit => AssessmentInv
BY AnalyzerBegins, QualityBegins DEF AssessmentInv

\* Every step of the assessments, and none, keeps it.
LEMMA AssessmentSteps ==
  ASSUME AssessmentInv, AnalyzerNext \/ QualityNext \/ UNCHANGED assessmentVars
  PROVE  AssessmentInv' /\ (Len(ended') > Len(ended) => Last(ended') >= Depth(peak, lowest))
<1>1. AnalyzerInv /\ QualityInv
  BY DEF AssessmentInv
<1>2. ASSUME UNCHANGED analyzerVars
      PROVE  AnalyzerInv' /\ (Len(ended') > Len(ended) => Last(ended') >= Depth(peak, lowest))
  <2>1. UNCHANGED <<peak, trough, inDrawdown, pace, periods, flagged, required, ended, lowest>>
    BY <1>2 DEF analyzerVars
  <2>2. AnalyzerInv'
    BY <1>1, <2>1 DEF AnalyzerInv, Accelerates
  <2>3. Len(ended) \in Nat
    BY <1>1 DEF AnalyzerInv
  <2>4. ~ (Len(ended') > Len(ended))
    BY <2>1, <2>3
  <2>5. QED
    BY <2>2, <2>4
<1>3. ASSUME UNCHANGED qualityVars PROVE QualityInv'
  BY <1>1, <1>3 DEF QualityInv, qualityVars
<1>4. CASE AnalyzerNext
  <2>1. UNCHANGED qualityVars
    <3>1. RecordReturn => UNCHANGED qualityVars
      BY Zenon DEF RecordReturn
    <3>2. UpdateDrawdown => UNCHANGED qualityVars
      BY SMTT(60) DEF UpdateDrawdown
    <3>3. QED
      BY <1>4, <3>1, <3>2 DEF AnalyzerNext
  <2>2. CASE RecordReturn
    <3>1. ended' = ended
      BY <2>2 DEF RecordReturn
    <3>2. Len(ended) \in Nat
      BY <1>1 DEF AnalyzerInv
    <3>3. ~ (Len(ended') > Len(ended))
      BY <3>1, <3>2
    <3>4. QED
      BY <1>1, <1>3, <2>1, <2>2, <3>3, ReturnKeepsAnalyzer DEF AssessmentInv
  <2>3. CASE UpdateDrawdown
    BY <1>1, <1>3, <2>1, <2>3, UpdateKeepsAnalyzer DEF AssessmentInv
  <2>4. QED
    BY <1>4, <2>2, <2>3 DEF AnalyzerNext
<1>5. CASE QualityNext
  <2>1. UNCHANGED analyzerVars
    BY <1>5 DEF QualityNext, RecordFill, RecordMiss, CalculateQuality
  <2>2. QED
    BY <1>1, <1>2, <1>5, <2>1, QualitySteps DEF AssessmentInv
<1>6. CASE UNCHANGED assessmentVars
  BY <1>2, <1>3, <1>6 DEF AssessmentInv, assessmentVars
<1>7. QED
  BY <1>4, <1>5, <1>6

\* What the invariant says of the assessments.
LEMMA AssessmentSays ==
  ASSUME AssessmentInv
  PROVE  /\ AssessmentTypeOK /\ TroughIsLowest /\ GrowingLossesAskForNothing /\ SpikesHideEachOther
         /\ MissesNeverThrottle
<1>1. AnalyzerInv /\ QualityInv
  BY DEF AssessmentInv
<1>2. MissesNeverThrottle
  <2>1. lastQuality \in 0 .. 100 /\ degradations \in 0 .. 3
        /\ (worstSlip = 0 => lastQuality >= 70 /\ degradations <= 1)
    BY <1>1 DEF QualityInv
  <2>2. QED
    BY <2>1 DEF MissesNeverThrottle, ShouldThrottle
<1>3. QED
  BY <1>1, <1>2, AnalyzerSays DEF AssessmentTypeOK, QualityInv


-----------------------------------------------------------------------------
\* The parts together: none writes what another one reads.
DecisionsInv ==
  /\ GovernorInv /\ RiskInv /\ LearningInv /\ LifecycleInv
  /\ SignalInv /\ PipelineInv /\ RegimeInv /\ AssessmentInv

\* Every part begins as it does by itself.
LEMMA DecisionsBegin == DecisionsInit => DecisionsInv
<1> SUFFICES ASSUME DecisionsInit PROVE DecisionsInv
  OBVIOUS
<1>1. /\ GovernorInit /\ RiskInit /\ LearningInit /\ LifecycleInit /\ AlphaInit /\ SignalInit /\ TruthInit
      /\ RegimeInit /\ AssessmentInit
  BY Zenon DEF DecisionsInit
<1>2. GovernorInv /\ RiskInv /\ LearningInv /\ LifecycleInv
  BY <1>1, GovernorBegins, RiskBegins, LearningBegins, LifecycleBegins, Zenon
<1>3. SignalInv /\ PipelineInv /\ RegimeInv /\ AssessmentInv
  BY <1>1, SignalBegins, PipelineBegins, RegimeBegins, AssessmentBegins, Zenon
<1>4. QED
  BY <1>2, <1>3 DEF DecisionsInv

\* A step of the run is, to each part, one of its own steps or none.
LEMMA DecisionsStepParts ==
  ASSUME [DecisionsNext]_decisionsVars
  PROVE  /\ (PhaseNext \/ RateNext \/ ResolverNext \/ UNCHANGED governorVars)
         /\ (EngineNext \/ SizerNext \/ PreTradeCheck \/ UNCHANGED riskVars)
         /\ (LearnerNext \/ DriftNext \/ AddData \/ UNCHANGED learningVars)
         /\ (LifecycleNext \/ UNCHANGED lifecycleVars)
         /\ (AlphaNext \/ UNCHANGED alphaVars)
         /\ (SignalNext \/ TruthNext \/ UNCHANGED pipelineVars)
         /\ (RegimeNext \/ UNCHANGED regimeVars)
         /\ (AnalyzerNext \/ QualityNext \/ UNCHANGED assessmentVars)
<1>1. CASE UNCHANGED decisionsVars
  BY <1>1 DEF decisionsVars
<1>2. CASE DecisionsNext
  BY <1>2 DEF DecisionsNext
<1>3. QED
  BY <1>1, <1>2

\* So every step keeps what each part keeps.
LEMMA DecisionsStep ==
  ASSUME DecisionsInv, [DecisionsNext]_decisionsVars
  PROVE  /\ DecisionsInv'
         /\ \A i \in DOMAIN signals : Onto(signals[i].state, signals'[i].state)
         /\ Len(ended') > Len(ended) => Last(ended') >= Depth(peak, lowest)
<1>1. /\ GovernorInv /\ RiskInv /\ LearningInv /\ LifecycleInv
      /\ SignalInv /\ PipelineInv /\ RegimeInv /\ AssessmentInv
  BY DEF DecisionsInv
<1>2. GovernorInv' /\ RiskInv'
  BY <1>1, DecisionsStepParts, GovernorSteps, RiskSteps, Zenon
<1>3. LearningInv' /\ LifecycleInv'
  BY <1>1, DecisionsStepParts, LearningSteps, LifecycleSteps, Zenon
<1>4. SignalInv' /\ \A i \in DOMAIN signals : Onto(signals[i].state, signals'[i].state)
  BY <1>1, DecisionsStepParts, SignalSteps, Zenon
<1>5. PipelineInv' /\ RegimeInv'
  BY <1>1, DecisionsStepParts, PipelineSteps, RegimeSteps, Zenon
<1>6. AssessmentInv' /\ (Len(ended') > Len(ended) => Last(ended') >= Depth(peak, lowest))
  BY <1>1, DecisionsStepParts, AssessmentSteps, Zenon
<1>7. QED
  BY <1>2, <1>3, <1>4, <1>5, <1>6, Zenon DEF DecisionsInv

\* The invariant of the parts holds in every run.
LEMMA DecisionsAlways == DecisionsSpec => []DecisionsInv
<1>1. DecisionsInv /\ [DecisionsNext]_decisionsVars => DecisionsInv'
  BY DecisionsStep
<1>2. QED
  BY DecisionsBegin, <1>1, PTL DEF DecisionsSpec

\* Trading stops in time, at a rate it keeps, and nothing is larger than the
\* halt, the limits and the sizer leave it (engines/, risk/).
THEOREM RiskIsAlwaysGoverned == DecisionsSpec => []RiskIsGoverned
<1>1. DecisionsInv => RiskIsGoverned
  <2> SUFFICES ASSUME DecisionsInv PROVE RiskIsGoverned
    OBVIOUS
  <2>1. /\ GovernorInv /\ RiskInv /\ LearningInv /\ LifecycleInv
        /\ SignalInv /\ PipelineInv /\ RegimeInv /\ AssessmentInv
    BY DEF DecisionsInv
  <2>2. DecisionsTypeOK
    <3>1. RegimeTypeOK
      BY <2>1 DEF RegimeInv
    <3>2. QED
      BY <2>1, <3>1, GovernorSays, RiskSays, LearningSays, LifecycleSays, SignalSays, PipelineSays, AssessmentSays,
         Zenon DEF DecisionsTypeOK
  <2>3. QED
    BY <2>1, <2>2, GovernorSays, RiskSays, Zenon DEF RiskIsGoverned
<1>2. QED
  BY DecisionsAlways, <1>1, PTL

\* What is learned is what was seen, and what trades was judged (learning/, models/).
THEOREM LearningIsAlwaysSound == DecisionsSpec => []LearningIsSound
<1>1. DecisionsInv => LearningIsSound
  BY LearningSays, LifecycleSays, Zenon DEF DecisionsInv, LearningIsSound
<1>2. QED
  BY DecisionsAlways, <1>1, PTL

\* No signal of the factory comes before there is history, and none that was examined
\* outlives its merit; no edge pays for its costs; the cached regime is within its
\* lifetime and, unless its write failed, the one in the key; and an entry of the
\* history that two processors write is only lost where they overlap (alpha/,
\* processors/).
THEOREM DecisionsAreAlwaysDerived == DecisionsSpec => []DecisionsAreDerived
<1>1. DecisionsInv => DecisionsAreDerived
  BY SignalSays, PipelineSays, Zenon DEF DecisionsInv, DecisionsAreDerived
<1>2. QED
  BY DecisionsAlways, <1>1, PTL

\* Caution survives every prediction, and what drawdowns, losses and misses are
\* taken for (regime/, engines/).
THEOREM AssessmentsAreAlwaysSound == DecisionsSpec => []AssessmentsAreSound
<1>1. DecisionsInv => AssessmentsAreSound
  <2> SUFFICES ASSUME DecisionsInv PROVE AssessmentsAreSound
    OBVIOUS
  <2>1. RegimeInv /\ AssessmentInv
    BY DEF DecisionsInv
  <2>2. CautionSurvives /\ PressureIsSpread /\ PredictionIsFresh
    BY <2>1 DEF RegimeInv
  <2>3. QED
    BY <2>1, <2>2, AssessmentSays, Zenon DEF AssessmentsAreSound
<1>2. QED
  BY DecisionsAlways, <1>1, PTL

\* A signal goes back only by being validated again, and a drawdown is not recorded shallower than it
\* was (alpha/, engines/drawdown_analyzer).
THEOREM NothingIsEverUndone == DecisionsSpec => NothingIsUndone
<1>1. DecisionsInv /\ [DecisionsNext]_decisionsVars
        => [\A i \in DOMAIN signals : \/ Stage(signals'[i].state) >= Stage(signals[i].state)
                                      \/ signals'[i].state = "validated"]_alphaVars
  BY DecisionsStep DEF Onto
<1>2. DecisionsInv /\ [DecisionsNext]_decisionsVars
        => [Len(ended') > Len(ended) => Last(ended') >= Depth(peak, lowest)]_assessmentVars
  BY DecisionsStep
<1>3. DecisionsSpec => NeverRevived
  BY DecisionsAlways, <1>1, PTL DEF DecisionsSpec, NeverRevived
<1>4. DecisionsSpec => DepthIsNotUnderstated
  BY DecisionsAlways, <1>2, PTL DEF DecisionsSpec, DepthIsNotUnderstated
<1>5. QED
  BY <1>3, <1>4, PTL DEF NothingIsUndone
==============================================================================
