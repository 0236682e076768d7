------------------------------ MODULE Learning ------------------------------
(***************************************************************************)
(* learning/bayes.py and the DataSeparator of                              *)
(* processors/learning_processor.py: what the system learns from its       *)
(* fills, how it notices that the market has changed, and which data a     *)
(* model is trained and judged on.                                         *)
(*                                                                         *)
(* A fill counts as +1 (a buy) or -1 (a sell): _calculate_return looks at  *)
(* the side only.  The mean is in ten thousandths, the weights of the Beta *)
(* parameters in hundredths; the spread of the returns is left out.        *)
(***************************************************************************)
EXTENDS Integers, Sequences, FiniteSets, FiniteSetsExt, Functions

CONSTANTS
  MinSamples,    \* min_samples: afterwards a trade weighs ten times as much
  LearnLimit,    \* bound: trades
  Performances,  \* of a regime, in percent of what was expected
  DriftLimit,    \* bound: observations of the detector
  DriftWindow,   \* window_size
  CusumLimit,    \* cusum_threshold, in hundredths
  DataLimit, ValidationWindow, OosWindow, LearningWindow \* of the DataSeparator

ASSUME LearningConstants ==
  /\ MinSamples \in Nat /\ LearnLimit \in Nat /\ Performances \subseteq Int
  /\ DriftLimit \in Nat /\ DriftWindow \in Nat /\ CusumLimit \in Nat /\ DataLimit \in Nat
  /\ ValidationWindow \in Nat /\ OosWindow \in Nat /\ LearningWindow \in Nat

VARIABLES
  learned,       \* history: the returns of the updates, oldest first
  alpha, beta, meanPnl,
  regimeRate,    \* _regime_multipliers of the regime, in percent
  seen,          \* history: the observations since the last reset
  cusumPos, cusumNeg, driftConfidence,
  rows           \* Len(_data_buffer)

learnerVars == <<learned, alpha, beta, meanPnl, regimeRate>>
driftVars == <<seen, cusumPos, cusumNeg, driftConfidence>>
learningVars == <<learnerVars, driftVars, rows>>

LearningInit ==
  /\ learned = <<>> /\ alpha = 100 /\ beta = 100 /\ meanPnl = 0 /\ regimeRate = 100
  /\ seen = <<>> /\ cusumPos = 0 /\ cusumNeg = 0 /\ driftConfidence = 100
  /\ rows = 0

-----------------------------------------------------------------------------
Size(x) == IF x < 0 THEN -x ELSE x

\* Mutant: the change is not bounded.
UnboundedMean(r, weight) == meanPnl + ((r * 10000 - meanPnl) * 3 * weight) \div 100

\* _update_normal: a change of more than max_change_per_update is replaced by
\* sign(change) * mean * max_change: away from zero whenever the mean is
\* negative and the change is positive.  That change is rounded towards zero.
BoundedMean(r, weight) ==
  LET new == meanPnl + ((r * 10000 - meanPnl) * weight) \div 100
      most == IF meanPnl < 0 THEN -(Size(meanPnl) \div 20) ELSE Size(meanPnl) \div 20
  IN IF 100 * Size(new - meanPnl) <= 5 * Size(meanPnl) THEN new
     ELSE IF new > meanPnl THEN meanPnl + most ELSE meanPnl - most

\* update of the AdaptiveLearner (adaptive) and of the BayesianLearner.  The
\* cooldown is never in force: nothing sets _last_update_tick.
Update(r, adaptive) ==
  LET count == Len(learned) + 1
      weight == IF count >= MinSamples THEN 10 ELSE 1
      step == IF adaptive THEN regimeRate \div 10 ELSE weight
  IN /\ Len(learned) < LearnLimit /\ learned' = Append(learned, r)
     /\ alpha' = IF r > 0 THEN alpha + step ELSE alpha
     /\ beta' = IF r > 0 THEN beta ELSE beta + step
     /\ meanPnl' = IF count = 1 THEN r * 10000 ELSE BoundedMean(r, weight)
     /\ UNCHANGED <<regimeRate, driftVars, rows>>

UpdateRegime(performance) ==
  /\ regimeRate' = Max({50, Min({200, regimeRate + (performance - 100) \div 10})})
  /\ UNCHANGED <<learned, alpha, beta, meanPnl, driftVars, rows>>

\* reset of a symbol.
ResetLearner ==
  /\ learned # <<>> /\ learned' = <<>> /\ alpha' = 100 /\ beta' = 100 /\ meanPnl' = 0
  /\ UNCHANGED <<regimeRate, driftVars, rows>>

-----------------------------------------------------------------------------
Ones(s) == Len(SelectSeq(s, LAMBDA x : x = 1))

\* _check_adwin: the halves of the window, once it is half full, differ at all.
Adwin(all) ==
  LET window == IF Len(all) > DriftWindow THEN SubSeq(all, Len(all) - DriftWindow + 1, Len(all))
                ELSE all
      mid == Len(window) \div 2
      older == SubSeq(window, 1, mid)
      recent == SubSeq(window, mid + 1, Len(window))
  IN /\ Len(window) >= DriftWindow \div 2 /\ mid > 0
     /\ Ones(recent) * Len(older) # Ones(older) * Len(recent)

\* update of the DriftDetector; the sum of Page and Hinkley stays below its
\* threshold here.
Observe(x) ==
  LET delta == IF x = 1 THEN 50 ELSE -50
      pos == Max({0, cusumPos + delta - 1})
      neg == Max({0, cusumNeg - delta - 1})
      drift == Adwin(Append(seen, x)) \/ Max({pos, neg}) > CusumLimit
  IN /\ Len(seen) < DriftLimit /\ seen' = Append(seen, x)
     /\ cusumPos' = pos /\ cusumNeg' = neg
     /\ driftConfidence' = IF drift THEN Max({10, (driftConfidence * 95) \div 100})
                           ELSE Min({100, driftConfidence + 1})
     /\ UNCHANGED <<learnerVars, rows>>

ResetDetector ==
  /\ seen # <<>> /\ seen' = <<>> /\ cusumPos' = 0 /\ cusumNeg' = 0 /\ driftConfidence' = 100
  /\ UNCHANGED <<learnerVars, rows>>

-----------------------------------------------------------------------------
\* add_data, and what the separator hands out: rows counted from the oldest.
AddData ==
  /\ rows < DataLimit /\ rows' = rows + 1
  /\ UNCHANGED <<learnerVars, driftVars>>

Kept == Min({rows, LearningWindow + ValidationWindow + OosWindow})
LearningData == IF Kept < ValidationWindow THEN 1..Kept ELSE 1..(Kept - ValidationWindow)
ValidationData == IF Kept < ValidationWindow THEN {} ELSE (Kept - ValidationWindow + 1)..Kept
OosData ==
  IF Kept < ValidationWindow + OosWindow THEN {}
  ELSE (Kept - ValidationWindow - OosWindow + 1)..(Kept - ValidationWindow)

LearnerNext ==
  \/ ResetLearner \/ \E r \in {-1, 1}, adaptive \in BOOLEAN : Update(r, adaptive)
  \/ \E performance \in Performances : UpdateRegime(performance)
DriftNext == ResetDetector \/ \E x \in {0, 1} : Observe(x)

-----------------------------------------------------------------------------
LearningTypeOK ==
  /\ alpha >= 100 /\ beta >= 100 /\ regimeRate \in 50..200
  /\ driftConfidence \in 10..100 /\ rows \in 0..DataLimit

\* The side of the first trade decides the sign of the mean for good, however
\* many trades of the other side follow (_update_normal).
FirstTradeDecides ==
  learned # <<>> => (learned[1] = 1 /\ meanPnl > 0) \/ (learned[1] = -1 /\ meanPnl < 0)

\* What the CUSUM recursion keeps is the best suffix of the observations.
CusumIsBestSuffix ==
  LET gain(k, up) ==
        SumFunctionOnSet([i \in DOMAIN seen |-> IF (seen[i] = 1) = up THEN 49 ELSE -51], k..Len(seen))
      best(up) == Max({0} \cup {gain(k, up) : k \in 1..Len(seen)})
  IN cusumPos = best(TRUE) /\ cusumNeg = best(FALSE)

\* What a model is validated on was not shown to it; what it is tested on out
\* of sample was (get_oos_data).
ValidationIsUnseen ==
  ValidationData \cap LearningData = {} /\ OosData \subseteq LearningData

\* "mu_new = mu_old + weight * (return - mu_old)" (bayes.py): a trade that won
\* does not lower the mean: refuted, see BoundedMean.
WinsDoNotLower ==
  [][Len(learned') = Len(learned) + 1 /\ learned'[Len(learned')] = 1 /\ meanPnl <= 10000
       => meanPnl' >= meanPnl]_learningVars

\* "Prevents data leakage between training and evaluation" (DataSeparator):
\* refuted, see ValidationIsUnseen.
NoLeakage == OosData \cap LearningData = {}
=============================================================================
