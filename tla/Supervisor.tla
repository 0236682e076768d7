----------------------------- MODULE Supervisor -----------------------------
(***************************************************************************)
(* core/supervisor.py: components that are started, watched by their       *)
(* heartbeats, restarted a bounded number of times and stopped.            *)
(*                                                                         *)
(* The heartbeat loop and stop() are two tasks of one event loop; they     *)
(* interleave where they await a component.  Heartbeats are aged by Tick,  *)
(* in steps of heartbeat_timeout; an instance may die at any time, its     *)
(* start and its stop may fail, and in a restart, which waits for them     *)
(* without a timeout, may never return.  The callback for a failure may    *)
(* raise, which ends the pass of the loop.                                 *)
(***************************************************************************)
EXTENDS Naturals, Sequences, FiniteSets, SequencesExt

CONSTANTS
  Order,        \* _components, in the order they were registered
  MaxRestarts,  \* max_restart_attempts
  MaxFaults     \* bound on the starts and stops that fail or hang and the deaths

ASSUME SupervisorAssumption ==
  Order \in Seq(ToSet(Order)) \ {<<>>} /\ MaxRestarts \in Nat /\ MaxFaults \in Nat

VARIABLES
  supervisor,   \* "new", "running", "stopping" or "stopped"
  status,       \* the status of each component
  instances,    \* how many instances of it are alive
  restarts,     \* restart_count
  age,          \* timeouts since its last heartbeat (2: more than two)
  looked,       \* ages when the pass of the heartbeat loop began
  toCheck,      \* what this pass has not looked at yet
  restart,      \* the restart the pass is in: "no", "stop", "start" or "hung";
                \* "cut": the callback for a failure raised and ended the pass
  toStop,       \* what stop() has not stopped yet
  orphans,      \* history: instances whose stop failed
  faults

supervisorVars == <<supervisor, status, instances, restarts, age, looked,
                    toCheck, restart, toStop, orphans, faults>>

Managed == ToSet(Order)
Watched(c) == age[c] # 3        \* 3: it has no entry in _health
MayFail == faults < MaxFaults

SupervisorInit ==
  /\ supervisor = "new"
  /\ status = [c \in Managed |-> "unknown"]
  /\ instances = [c \in Managed |-> 0] /\ restarts = [c \in Managed |-> 0]
  /\ age = [c \in Managed |-> 3] /\ looked = age
  /\ toCheck = <<>> /\ restart = "no" /\ toStop = <<>>
  /\ orphans = [c \in Managed |-> 0] /\ faults = 0

\* start(): what fails here is never watched.
StartAll ==
  /\ supervisor = "new" /\ supervisor' = "running"
  /\ \E up \in SUBSET Managed :
       /\ up = Managed \/ MayFail
       /\ faults' = IF up = Managed THEN faults ELSE faults + 1
       /\ status' = [c \in Managed |-> IF c \in up THEN "running" ELSE "failed"]
       /\ instances' = [c \in Managed |-> IF c \in up THEN 1 ELSE 0]
       /\ age' = [c \in Managed |-> IF c \in up THEN 0 ELSE 3]
  /\ UNCHANGED <<restarts, looked, toCheck, restart, toStop, orphans>>

Tick ==
  /\ supervisor # "new"
  /\ age' = [c \in Managed |-> IF age[c] < 2 THEN age[c] + 1 ELSE age[c]]
  /\ age' # age
  /\ UNCHANGED <<supervisor, status, instances, restarts, looked, toCheck,
                 restart, toStop, orphans, faults>>

\* record_heartbeat: the component's own status stays what it is.
RecordHeartbeat(c) ==
  /\ Watched(c) /\ instances[c] > 0
  /\ age' = [age EXCEPT ![c] = 0] /\ looked' = [looked EXCEPT ![c] = 0]
  /\ UNCHANGED <<supervisor, status, instances, restarts, toCheck, restart,
                 toStop, orphans, faults>>

Die(c) ==
  /\ MayFail /\ instances[c] > 0
  /\ faults' = faults + 1
  /\ instances' = [instances EXCEPT ![c] = @ - 1]
  /\ orphans' = [orphans EXCEPT ![c] = IF @ > 0 THEN @ - 1 ELSE @]
  /\ UNCHANGED <<supervisor, status, restarts, age, looked, toCheck, restart, toStop>>

-----------------------------------------------------------------------------
\* _heartbeat_loop: a pass compares every heartbeat with the time it began.
BeginPass ==
  /\ supervisor = "running" /\ toCheck = <<>>
  /\ toCheck' = Order /\ looked' = age /\ restart' = "no"
  /\ UNCHANGED <<supervisor, status, instances, restarts, age, toStop, orphans, faults>>

\* What becomes of a pass when _on_component_failure is called: it may raise.
FailureReported ==
  \/ restart' = "no" /\ toCheck' = Tail(toCheck)
  \/ restart' = "cut" /\ toCheck' = <<>>

CheckHeartbeat ==
  /\ toCheck # <<>> /\ restart = "no"
  /\ LET c == Head(toCheck)
         late == Watched(c) /\ looked[c] \in {1, 2}
         overdue == late /\ looked[c] = 2
         spent == restarts[c] >= MaxRestarts IN
     /\ status' = [status EXCEPT ![c] = IF overdue /\ spent THEN "failed"
                     ELSE IF late /\ @ = "running" THEN "degraded" ELSE @]
     /\ \/ ~overdue /\ restart' = "no" /\ toCheck' = Tail(toCheck)
        \/ overdue /\ ~spent /\ restart' = "stop" /\ UNCHANGED toCheck
        \/ overdue /\ spent /\ FailureReported
  /\ UNCHANGED <<supervisor, instances, restarts, age, looked, toStop, orphans, faults>>

\* What a stop_fn does to its component: it may fail and leave it alive.
StopInstance(c) ==
  \/ /\ instances' = [instances EXCEPT ![c] = IF @ = 0 THEN 0 ELSE @ - 1]
     /\ UNCHANGED <<orphans, faults>>
  \/ /\ MayFail /\ faults' = faults + 1
     /\ orphans' = [orphans EXCEPT ![c] = instances[c]]
     /\ UNCHANGED instances

\* restart_component: an error of stop_fn is ignored.
RestartStop ==
  /\ restart = "stop" /\ restart' = "start"
  /\ StopInstance(Head(toCheck))
  /\ UNCHANGED <<supervisor, status, restarts, age, looked, toCheck, toStop>>

\* A start that fails does not count as an attempt.
RestartStart ==
  /\ restart = "start"
  /\ LET c == Head(toCheck) IN
     \/ /\ restart' = "no" /\ toCheck' = Tail(toCheck)
        /\ status' = [status EXCEPT ![c] = "running"]
        /\ restarts' = [restarts EXCEPT ![c] = @ + 1]
        /\ instances' = [instances EXCEPT ![c] = @ + 1]
        /\ age' = [age EXCEPT ![c] = 0]
        /\ UNCHANGED faults
     \/ /\ MayFail /\ faults' = faults + 1 /\ FailureReported
        /\ status' = [status EXCEPT ![c] = "failed"]
        /\ UNCHANGED <<restarts, instances, age>>
  /\ UNCHANGED <<supervisor, looked, toStop, orphans>>

\* Neither stop_fn nor start_fn is given a time: the loop waits for ever.
RestartHangs ==
  /\ restart \in {"stop", "start"} /\ restart' = "hung"
  /\ MayFail /\ faults' = faults + 1
  /\ UNCHANGED <<supervisor, status, instances, restarts, age, looked, toCheck,
                 toStop, orphans>>

-----------------------------------------------------------------------------
Stop ==
  /\ supervisor = "running" /\ supervisor' = "stopping"
  /\ toStop' = Order
  /\ status' = [status EXCEPT ![Head(Order)] = "stopping"]
  /\ UNCHANGED <<instances, restarts, age, looked, toCheck, restart, orphans, faults>>

\* A stop_fn that fails or runs out of time leaves its component "stopping".
StopNextOne ==
  /\ supervisor = "stopping" /\ toStop # <<>>
  /\ LET c == Head(toStop)
         rest == Tail(toStop) IN
     /\ StopInstance(c)
     /\ toStop' = rest
     /\ status' = [d \in Managed |->
          CASE d = c /\ faults' = faults -> "stopped"
            [] d # c /\ rest # <<>> /\ d = Head(rest) -> "stopping"
            [] OTHER -> status[d]]
  /\ UNCHANGED <<supervisor, restarts, age, looked, toCheck, restart>>

\* Only now are the loops cancelled.
CancelLoops ==
  /\ supervisor = "stopping" /\ toStop = <<>>
  /\ supervisor' = "stopped"
  /\ toCheck' = <<>> /\ restart' = "no"
  /\ UNCHANGED <<status, instances, restarts, age, looked, toStop, orphans, faults>>

LoopStep == BeginPass \/ CheckHeartbeat \/ RestartStop \/ RestartStart

SupervisorNext ==
  \/ StartAll \/ Tick \/ LoopStep \/ RestartHangs \/ Stop \/ StopNextOne \/ CancelLoops
  \/ \E c \in Managed : RecordHeartbeat(c) \/ Die(c)

\* The loop and stop() are tasks of the event loop, and time passes; a restart
\* goes on unless its component hangs.
SupervisorFair ==
  /\ WF_supervisorVars(LoopStep) /\ WF_supervisorVars(Tick)
  /\ WF_supervisorVars(StopNextOne) /\ WF_supervisorVars(CancelLoops)

SupervisorSpec == SupervisorInit /\ [][SupervisorNext]_supervisorVars /\ SupervisorFair

-----------------------------------------------------------------------------
SupervisorTypeOK ==
  /\ supervisor \in {"new", "running", "stopping", "stopped"}
  /\ status \in [Managed -> {"unknown", "running", "degraded", "failed",
                             "stopping", "stopped"}]
  /\ instances \in [Managed -> Nat] /\ restarts \in [Managed -> 0 .. MaxRestarts]
  /\ age \in [Managed -> 0 .. 3] /\ restart \in {"no", "stop", "start", "hung", "cut"}

\* A restart that races a stop never doubles a component: what is alive
\* beside the one instance is what a failed stop left behind.
NoSecondInstance == \A c \in Managed : instances[c] <= 1 + orphans[c]

\* max_restart_attempts: a component is restarted no more often than that,
\* whatever fails between the attempts.
RestartsBounded == \A c \in Managed : restarts[c] <= MaxRestarts

\* A component that has been silent for two timeouts is restarted, given up, or
\* the supervisor is stopped (_heartbeat_loop), unless a restart never returns or,
\* but for the first component, the failure of one before it ends the pass.
SilentIsHandled ==
  \A c \in Managed : (age[c] = 2 /\ supervisor = "running") ~>
    (age[c] < 2 \/ status[c] = "failed" \/ supervisor # "running" \/ restart = "hung"
      \/ (restart = "cut" /\ c # Head(Order)))

\* "Stop the supervisor and all components" (stop): refuted, a restart that is
\* under way starts a component again that stop() has stopped.
StoppedIsDown ==
  supervisor = "stopped" =>
    \A c \in Managed : status[c] = "stopped" \/ orphans[c] > 0 \/ instances[c] = 0
=============================================================================
