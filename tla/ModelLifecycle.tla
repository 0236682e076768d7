--------------------------- MODULE ModelLifecycle ---------------------------
(***************************************************************************)
(* models/registry.py and the pipeline of processors/learning_processor.py *)
(* that feeds it: trades make candidates, gates let candidates into the    *)
(* shadow, operators move them on.                                         *)
(*                                                                         *)
(* Whenever a version changes its state, _transition_state sets it and     *)
(* then suspends, in _persist_metadata and in the publication of the       *)
(* change: a promotion or a rollback takes several steps, and other calls  *)
(* run between them.  Either may raise, and what the call had still to do  *)
(* is not done.  With a bus the publication always does: the event's type, *)
(* MODEL_STATE_CHANGED, is not a member of EventType.  One model name.     *)
(***************************************************************************)
EXTENDS Naturals, Sequences, FiniteSets, FiniteSetsExt

CONSTANTS
  Registries,    \* [bus, callers, rollbacks, moves, faults]: whether it has a
                 \* bus, operators, whether they roll back, bounds on their
                 \* calls and on the writes that fail
  MaxVersions,   \* bound: candidates
  UpdatesPerCandidate, \* 10: every tenth model version is registered
  MinTrades,     \* MIN_TRADES_FOR_UPDATE
  ValidationTrades,    \* VALIDATION_INTERVAL_TRADES
  ReturnRows     \* rows without which the backtest gate is open

ASSUME LifecycleConstants ==
  /\ MaxVersions \in Nat /\ UpdatesPerCandidate \in Nat \ {0} /\ MinTrades \in Nat
  /\ ValidationTrades \in Nat /\ ReturnRows \in Nat
  /\ \A r \in Registries : /\ r.bus \in BOOLEAN /\ r.callers \in Nat /\ r.rollbacks \in BOOLEAN
                          /\ r.moves \in Nat /\ r.faults \in Nat

VARIABLES
  registry,
  modelState,    \* version -> ModelState, "none" before it is registered
  activeVersion, \* _active_models, 0 for none
  operation,     \* caller -> the step its call is at
  moves, faults, \* calls of the operators, and writes that failed
  abandoned,     \* history: versions whose promotion stopped on the way
  learner,       \* where the handler of a fill is suspended, and on which version
  judged,        \* history: versions that passed all gates
  modelVersion,  \* _model_version, modulo UpdatesPerCandidate
  trades, sinceValidation,
  profitable     \* the mean pnl of the data is positive

registryVars == <<modelState, activeVersion, operation, moves, abandoned>>
judgeVars == <<learner, judged, modelVersion, trades, sinceValidation, profitable>>
lifecycleVars == <<registry, faults, registryVars, judgeVars>>

Versions == 1..MaxVersions
NoCall == [step |-> "none", of |-> 0, to |-> 0]
Idle == [step |-> "idle", of |-> 0]
In(S) == {v \in Versions : modelState[v] \in S}

LifecycleInit ==
  /\ registry \in Registries
  /\ modelState = [v \in Versions |-> "none"] /\ activeVersion = 0
  /\ operation = [c \in 1..registry.callers |-> NoCall] /\ moves = 0 /\ faults = 0
  /\ abandoned = {} /\ learner = Idle
  /\ judged = {} /\ modelVersion = 0 /\ trades = 0 /\ sinceValidation = 0
  /\ profitable = FALSE

-----------------------------------------------------------------------------
\* A write of the store or of the artifact raises; a transition is cut short by
\* it or by the event it cannot name.
WriteFails == faults < registry.faults /\ faults' = faults + 1
Announced == ~registry.bus /\ UNCHANGED faults
CutShort == (registry.bus /\ UNCHANGED faults) \/ WriteFails

\* _validate_model: with few rows every gate is open, and the walk forward and
\* the regime gate always are.
GatesOpen == trades < ReturnRows \/ profitable

\* _run_validation_pipeline: the next candidate, if the gates are open, else the
\* pipeline ends and the count begins anew.
Judge(open) ==
  LET waiting == IF open THEN In({"candidate"}) ELSE {} IN
  IF waiting = {}
  THEN learner' = Idle /\ sinceValidation' = 0 /\ UNCHANGED <<modelState, judged>>
  ELSE /\ modelState' = [modelState EXCEPT ![Min(waiting)] = "validated"]
       /\ judged' = judged \cup {Min(waiting)}
       /\ learner' = [step |-> "validated", of |-> Min(waiting)] /\ UNCHANGED sinceValidation

\* The end of _process_outcome.  A count that reached the interval stays there
\* until a pipeline ends: one below it here, as the next fill counts first.
CountTrade(open) ==
  IF sinceValidation + 1 < ValidationTrades
  THEN learner' = Idle /\ sinceValidation' = sinceValidation + 1 /\ UNCHANGED <<modelState, judged>>
  ELSE Judge(open)

\* _process_outcome of one fill, to the first suspension of _update_models.
ProcessOutcome(pnl) ==
  /\ learner = Idle /\ In({"none"}) # {}
  /\ trades' = IF trades < ReturnRows THEN trades + 1 ELSE trades
  /\ profitable' = pnl
  /\ IF trades + 1 >= MinTrades
     THEN learner' = [step |-> "updating", of |-> 0] /\ UNCHANGED <<modelState, judged, sinceValidation>>
     ELSE CountTrade(GatesOpen')
  /\ UNCHANGED <<registry, faults, activeVersion, operation, moves, abandoned, modelVersion>>

\* The rest of _update_models, which registers every tenth model.
UpdateModels ==
  /\ learner.step = "updating"
  /\ modelVersion' = (modelVersion + 1) % UpdatesPerCandidate
  /\ IF modelVersion' = 0 /\ In({"none"}) # {}
     THEN /\ modelState' = [modelState EXCEPT ![Min(In({"none"}))] = "candidate"]
          /\ learner' = [step |-> "registering", of |-> Min(In({"none"}))]
          /\ UNCHANGED <<judged, sinceValidation>>
     ELSE CountTrade(GatesOpen)
  /\ UNCHANGED <<registry, faults, activeVersion, operation, moves, abandoned, trades, profitable>>

\* What follows when the write the handler waits for succeeds.
LearnerResumes ==
  /\ \/ learner.step = "registering" /\ UNCHANGED faults /\ CountTrade(GatesOpen)
     \/ /\ learner.step = "validated" /\ Announced
        /\ IF modelState[learner.of] = "validated"   \* deploy_shadow
           THEN /\ modelState' = [modelState EXCEPT ![learner.of] = "shadow"]
                /\ learner' = [learner EXCEPT !.step = "shadowed"]
                /\ UNCHANGED <<judged, sinceValidation>>
           ELSE Judge(GatesOpen)
     \/ learner.step = "shadowed" /\ Announced /\ Judge(GatesOpen)
  /\ UNCHANGED <<registry, activeVersion, operation, moves, abandoned, modelVersion, trades, profitable>>

\* What the handler waits for raises: BaseProcessor.process drops the fill where
\* it stands.  The artifact of a model may fail as well, after its version.
LearnerFails ==
  /\ \/ learner.step \in {"updating", "registering"} /\ WriteFails
     \/ learner.step \in {"validated", "shadowed"} /\ CutShort
  /\ learner' = Idle
  /\ modelVersion' \in IF learner.step = "updating"
                       THEN {modelVersion, (modelVersion + 1) % UpdatesPerCandidate} ELSE {modelVersion}
  /\ UNCHANGED <<registry, registryVars, judged, trades, sinceValidation, profitable>>

-----------------------------------------------------------------------------
Begins(c) ==
  /\ operation[c] = NoCall /\ moves < registry.moves /\ moves' = moves + 1

\* Transitions with nothing to do after them: a failure comes too late.
DeployShadow(c, v) ==
  /\ Begins(c) /\ modelState[v] = "validated"
  /\ modelState' = [modelState EXCEPT ![v] = "shadow"]
  /\ UNCHANGED <<registry, faults, activeVersion, operation, abandoned, judgeVars>>

DeployCanary(c, v) ==
  /\ Begins(c) /\ modelState[v] = "shadow"
  /\ modelState' = [modelState EXCEPT ![v] = "canary"]
  /\ UNCHANGED <<registry, faults, activeVersion, operation, abandoned, judgeVars>>

\* promote_to_active, to its first suspension: the version on record retires.
Promote(c, v) ==
  /\ Begins(c) /\ modelState[v] = "canary"
  /\ IF activeVersion # 0
     THEN /\ modelState' = [modelState EXCEPT ![activeVersion] = "retired"]
          /\ operation' = [operation EXCEPT ![c] = [step |-> "activate", of |-> v, to |-> 0]]
     ELSE /\ modelState' = [modelState EXCEPT ![v] = "active"]
          /\ operation' = [operation EXCEPT ![c] = [step |-> "record", of |-> v, to |-> 0]]
  /\ UNCHANGED <<registry, faults, activeVersion, abandoned, judgeVars>>

\* rollback_to_previous, to its first suspension.
Rollback(c, v) ==
  LET earlier == {u \in In({"canary", "shadow"}) : u < v} IN
  /\ registry.rollbacks /\ Begins(c) /\ modelState[v] # "none" /\ earlier # {}
  /\ modelState' = [modelState EXCEPT ![v] = "retired"]
  /\ operation' = [operation EXCEPT ![c] = [step |-> "fallback", of |-> v, to |-> Max(earlier)]]
  /\ UNCHANGED <<registry, faults, activeVersion, abandoned, judgeVars>>

\* The transition succeeded: the call goes on.
Resume(c) ==
  /\ Announced
  /\ \/ /\ operation[c].step = "activate"
        /\ modelState' = [modelState EXCEPT ![operation[c].of] = "active"]
        /\ operation' = [operation EXCEPT ![c].step = "record"]
        /\ UNCHANGED activeVersion
     \/ /\ operation[c].step = "fallback"
        /\ modelState' = [modelState EXCEPT ![operation[c].to] = "canary"]
        /\ operation' = [operation EXCEPT ![c] =
             [step |-> "record", of |-> operation[c].to, to |-> 0]]
        /\ UNCHANGED activeVersion
     \/ /\ operation[c].step = "record"
        /\ activeVersion' = operation[c].of
        /\ operation' = [operation EXCEPT ![c] = NoCall]
        /\ UNCHANGED modelState
  /\ UNCHANGED <<registry, moves, abandoned, judgeVars>>

\* It raised: the call ends there, after the state was set.
Abandon(c) ==
  /\ operation[c].step # "none" /\ CutShort
  /\ operation' = [operation EXCEPT ![c] = NoCall]
  /\ abandoned' = abandoned \cup {operation[c].of}
  /\ UNCHANGED <<registry, modelState, activeVersion, moves, judgeVars>>

LifecycleNext ==
  \/ \E pnl \in BOOLEAN : ProcessOutcome(pnl)
  \/ UpdateModels \/ LearnerResumes \/ LearnerFails
  \/ \E c \in 1..registry.callers :
       \/ Resume(c) \/ Abandon(c)
       \/ \E v \in Versions : DeployShadow(c, v) \/ DeployCanary(c, v) \/ Promote(c, v) \/ Rollback(c, v)

-----------------------------------------------------------------------------
LifecycleTypeOK ==
  /\ modelState \in [Versions -> {"none", "candidate", "validated", "shadow", "canary", "active",
                                 "retired"}]
  /\ activeVersion \in 0..MaxVersions /\ judged \subseteq Versions
  /\ learner \in [step : {"idle", "updating"}, of : {0}]
                \cup [step : {"registering", "validated", "shadowed"}, of : Versions]

\* Whatever the operators do at the same time, and whatever fails, no version is
\* in service, or on its way there, that did not pass the gates.
OnlyJudgedTrade == In({"validated", "shadow", "canary", "active"}) \subseteq judged

\* One operator who never rolls back, between two calls: a version that is active
\* is the one on record, or its promotion was abandoned; and as long as none was,
\* the one on record is active.
QuietOperatorHasOneActive ==
  registry.callers = 1 /\ ~registry.rollbacks /\ operation[1] = NoCall =>
    /\ In({"active"}) \subseteq {activeVersion} \cup abandoned
    /\ abandoned = {} => activeVersion \in In({"active"}) \cup {0}

\* "Demotes current active model to retired" (promote_to_active), so at most one
\* version is active between calls: refuted. With a bus no promotion gets as far as
\* the record, so none demotes anything; and a rollback of a version that is not
\* active takes the active one off the record.
OneActive ==
  (\A c \in DOMAIN operation : operation[c] = NoCall) => Cardinality(In({"active"})) <= 1
=============================================================================
