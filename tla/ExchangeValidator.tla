------------------------- MODULE ExchangeValidator -------------------------
(***************************************************************************)
(* ExchangeValidator of core/exchange_validator.py, for one symbol: what   *)
(* an order must pass before it may go to the exchange.                    *)
(*                                                                         *)
(* Sizes and positions are counted in halves of the symbol's precision, so *)
(* that they may need rounding.  The caller sends what was accepted and    *)
(* reports its fills with update_position, in any order.                   *)
(***************************************************************************)
EXTENDS Integers, Sequences, FiniteSets, SequencesExt

CONSTANTS
  OrderSizes,               \* quantities a caller asks for
  LeastSize, MostSize,      \* min_quantity and max_quantity
  HoldingLimit,             \* _position_limits
  PerSecond, PerMinute,     \* max_orders_per_sec, max_orders_per_min
  SecondTicks, MinuteTicks, \* steps of the clock in a second and in a minute
  MaxValidated, MaxValidatorTime  \* bounds

\* What an exchange takes is a multiple of its precision.
ASSUME ValidatorAssumption ==
  /\ OrderSizes \subseteq Nat \ {0} /\ LeastSize \in Nat /\ MostSize \in Nat
  /\ LeastSize % 2 = 0 /\ MostSize % 2 = 0
  /\ HoldingLimit \in Nat /\ {PerSecond, PerMinute} \subseteq Nat
  /\ SecondTicks \in Nat \ {0} /\ MinuteTicks \in Nat /\ SecondTicks <= MinuteTicks
  /\ {MaxValidated, MaxValidatorTime} \subseteq Nat

VARIABLES
  validatorTime,
  secondStamps, minuteStamps,  \* _order_timestamps_sec, _order_timestamps_min
  holding,         \* _current_positions
  validatorStats,  \* _stats: total_validated, rejected, rate_limited
  inFlight,        \* accepted and not yet reported as filled, signed
  overlapped,      \* history: an order was accepted while another was in flight
  acceptedAt       \* history: when orders were accepted, since the last reset

validatorVars == <<validatorTime, secondStamps, minuteStamps, holding, validatorStats, inFlight, overlapped,
                   acceptedAt>>

ValidatorInit ==
  /\ validatorTime = 0 /\ secondStamps = <<>> /\ minuteStamps = <<>> /\ holding = 0
  /\ validatorStats = [total |-> 0, rejected |-> 0, limited |-> 0]
  /\ inFlight = <<>> /\ overlapped = FALSE /\ acceptedAt = <<>>

-----------------------------------------------------------------------------
Unsigned(n) == IF n < 0 THEN 0 - n ELSE n

\* The stamps that are younger than this.  They are in the order of time: the older
\* ones are in front.
InWindow(stamps, length) ==
  SubSeq(stamps, 1 + Cardinality({i \in DOMAIN stamps : validatorTime - stamps[i] >= length}), Len(stamps))

\* round(): to the nearest multiple of the precision, of two to the even one.
Rounded(size) == IF size % 2 = 0 THEN size ELSE 2 * (2 * ((size + 1) \div 4))

\* validate_quantity
QuantityFits(size) == LeastSize <= size /\ size <= MostSize

\* validate_position_limit
HoldingFits(order) == Unsigned(holding + order) <= HoldingLimit

RateFits ==
  Len(InWindow(secondStamps, SecondTicks)) < PerSecond /\ Len(InWindow(minuteStamps, MinuteTicks)) < PerMinute

Counted(kinds) ==
  validatorStats' = [k \in DOMAIN validatorStats |-> validatorStats[k] + (IF k \in kinds THEN 1 ELSE 0)]

\* validate_order refuses the symbol, the quantity or the price, which all end alike.
RefuseOrder(size) ==
  /\ validatorStats.total < MaxValidated
  /\ ~ QuantityFits(size) /\ Counted({"total", "rejected"})
  /\ UNCHANGED <<validatorTime, secondStamps, minuteStamps, holding, inFlight, overlapped, acceptedAt>>

\* validate_rate_limit refuses: this is not counted as rejected.
LimitRate(size) ==
  /\ validatorStats.total < MaxValidated
  /\ QuantityFits(size) /\ ~ RateFits /\ Counted({"total", "limited"})
  /\ secondStamps' = InWindow(secondStamps, SecondTicks)
  /\ minuteStamps' = InWindow(minuteStamps, MinuteTicks)
  /\ UNCHANGED <<validatorTime, holding, inFlight, overlapped, acceptedAt>>

\* The order is within the rate, which it uses up whatever the limit of the position
\* says next; that limit looks at the quantity before it is rounded.
ValidateOrder(size, sign) ==
  /\ validatorStats.total < MaxValidated
  /\ QuantityFits(size) /\ RateFits
  /\ secondStamps' = Append(InWindow(secondStamps, SecondTicks), validatorTime)
  /\ minuteStamps' = Append(InWindow(minuteStamps, MinuteTicks), validatorTime)
  /\ \/ /\ ~ HoldingFits(sign * size) /\ Counted({"total", "rejected"})
        /\ UNCHANGED <<inFlight, overlapped, acceptedAt>>
     \/ /\ HoldingFits(sign * size) /\ Counted({"total"})
        /\ inFlight' = Append(inFlight, sign * Rounded(size))
        /\ overlapped' = (overlapped \/ inFlight # <<>>)
        /\ acceptedAt' = Append(acceptedAt, validatorTime)
  /\ UNCHANGED <<validatorTime, holding>>

\* update_position
UpdateHolding(i) ==
  /\ holding' = holding + inFlight[i] /\ inFlight' = RemoveAt(inFlight, i)
  /\ UNCHANGED <<validatorTime, secondStamps, minuteStamps, validatorStats, overlapped, acceptedAt>>

ResetRateLimits ==
  /\ minuteStamps # <<>>
  /\ secondStamps' = <<>> /\ minuteStamps' = <<>> /\ acceptedAt' = <<>>
  /\ UNCHANGED <<validatorTime, holding, validatorStats, inFlight, overlapped>>

ValidatorTick ==
  /\ validatorTime < MaxValidatorTime /\ validatorTime' = validatorTime + 1
  /\ UNCHANGED <<secondStamps, minuteStamps, holding, validatorStats, inFlight, overlapped, acceptedAt>>

ValidatorNext ==
  \/ \E size \in OrderSizes :
       RefuseOrder(size) \/ LimitRate(size) \/ \E sign \in {1, -1} : ValidateOrder(size, sign)
  \/ \E i \in DOMAIN inFlight : UpdateHolding(i)
  \/ ResetRateLimits \/ ValidatorTick

-----------------------------------------------------------------------------
ValidatorTypeOK ==
  /\ validatorTime \in 0 .. MaxValidatorTime /\ holding \in Int /\ overlapped \in BOOLEAN
  /\ secondStamps \in BoundedSeq(0 .. MaxValidatorTime, PerSecond)
  /\ minuteStamps \in BoundedSeq(0 .. MaxValidatorTime, PerMinute)
  /\ \A i \in DOMAIN inFlight : inFlight[i] \in Int

\* validate_rate_limit: in no second and in no minute are more orders accepted than
\* its limits say, unless they are reset; and what one window remembers is the end of
\* what the other does.
AcceptedWithinRates ==
  /\ \A i \in DOMAIN acceptedAt :
       LET Since(length) == {j \in 1 .. i : acceptedAt[i] - acceptedAt[j] < length} IN
       Cardinality(Since(SecondTicks)) <= PerSecond /\ Cardinality(Since(MinuteTicks)) <= PerMinute
  /\ IsSuffix(InWindow(secondStamps, SecondTicks), minuteStamps)

\* validate_position_limit: orders that do not overlap never take the position past
\* its limit by more than what rounding adds.
HoldingNearLimit == ~ overlapped => Unsigned(holding) <= HoldingLimit + 1

\* validate_order: what is accepted fits the exchange after its rounding, and every
\* call is accepted, rejected or rate limited, and counted once.
AcceptedFitExchange ==
  /\ \A i \in DOMAIN inFlight : inFlight[i] % 2 = 0 /\ QuantityFits(Unsigned(inFlight[i]))
  /\ validatorStats.total >= validatorStats.rejected + validatorStats.limited + Len(acceptedAt)

(* What the code says of itself; TLC refutes it. *)

\* "Position limit enforcement": the limit holds, whatever is in flight.
HoldingWithinLimit == Unsigned(holding) <= HoldingLimit
=============================================================================
