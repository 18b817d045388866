----------------------------- MODULE Settlement -----------------------------
(***************************************************************************)
(* The arithmetic of the proof_of_agent program: what a position locks,    *)
(* what a settlement pays, and which terms an operator may publish.        *)
(*                                                                         *)
(* Rates are basis points of BPS_DENOMINATOR (10000 in constants.rs).  The *)
(* products are taken in u128 in the source, and each quotient is at most  *)
(* the u64 it was computed from, so no width is modelled here.             *)
(***************************************************************************)
EXTENDS Integers

CONSTANTS
  BPS_DENOMINATOR,            \* what "100%" is
  MIN_COLLATERAL_RATIO_BPS,   \* least ratio an operator may offer
  MAX_COLLATERAL_RATIO_BPS,   \* greatest ratio
  MAX_DRAWDOWN_BPS,           \* greatest loss an operator may declare tolerated
  FEE_CAP_DIVISOR,            \* the fee is at most ratio / FEE_CAP_DIVISOR
  MIN_POSITION_DURATION,      \* shortest trading window, in ticks of the clock
  MAX_POSITION_DURATION,      \* longest trading window
  Disclosures,                \* allowed assets and rules text, as one value
  ValidDisclosures            \* those that 1 to 8 distinct mints and a
                              \* non-empty text of at most 512 bytes make up

ASSUME ConstantsAssumption ==
  /\ BPS_DENOMINATOR \in Nat \ {0}
  /\ MIN_COLLATERAL_RATIO_BPS \in Nat \ {0}
  /\ MAX_COLLATERAL_RATIO_BPS \in 0..BPS_DENOMINATOR
  /\ MAX_DRAWDOWN_BPS \in 0..BPS_DENOMINATOR
  /\ FEE_CAP_DIVISOR \in Nat \ {0}
  /\ MIN_POSITION_DURATION \in Nat \ {0}
  /\ MAX_POSITION_DURATION \in Nat
  /\ ValidDisclosures \subseteq Disclosures

AgentTerms == [collateral_ratio_bps : Nat, fee_bps : Nat, max_drawdown_bps : Nat,
               min_duration_secs : Nat, max_duration_secs : Nat,
               disclosure : Disclosures]

MaxFeeBps(ratio) == ratio \div FEE_CAP_DIVISOR

\* (faulty: the bound is not enforced)
RatioAndDrawdownUnchecked(ratio, drawdown) == TRUE

\* Above 100% a settlement that returns nothing would slash less than the bond.
RatioAndDrawdownFit(ratio, drawdown) == ratio + drawdown <= BPS_DENOMINATOR

\* Every check of validate() but ratio_and_drawdown_fit, which was added after
\* agents had already been published.
WithinLimits(t) ==
  /\ t.collateral_ratio_bps \in MIN_COLLATERAL_RATIO_BPS..MAX_COLLATERAL_RATIO_BPS
  /\ t.fee_bps <= MaxFeeBps(t.collateral_ratio_bps)
  /\ t.max_drawdown_bps <= MAX_DRAWDOWN_BPS
  /\ t.min_duration_secs >= MIN_POSITION_DURATION
  /\ t.max_duration_secs <= MAX_POSITION_DURATION
  /\ t.min_duration_secs <= t.max_duration_secs
  /\ t.disclosure \in ValidDisclosures

Validate(t) ==
  /\ WithinLimits(t)
  /\ RatioAndDrawdownFit(t.collateral_ratio_bps, t.max_drawdown_bps)

\* (faulty: rounds the tolerated loss up)
BpsRoundedUp(value, rate) == (value * rate + BPS_DENOMINATOR - 1) \div BPS_DENOMINATOR

\* The share `rate` of `value`, rounded down.
Bps(value, rate) == (value * rate) \div BPS_DENOMINATOR

\* The bond a position locks, rounded up so that even dust is backed.
RequiredCollateral(principal, ratio) ==
  (principal * ratio + BPS_DENOMINATOR - 1) \div BPS_DENOMINATOR

\* (faulty: takes the fee from all that is returned, not from the profit)
FeeOnEverything(principal, returned, fee_bps, max_drawdown_bps, locked) ==
  IF returned >= principal
  THEN [fee |-> Bps(returned, fee_bps), slash |-> 0]
  ELSE [fee |-> 0, slash |-> LET loss == principal - returned
                             IN  IF loss <= locked THEN loss ELSE locked]

\* What the operator earns and what its bond pays when `returned` comes back.
ComputeSettlement(principal, returned, fee_bps, max_drawdown_bps, locked) ==
  LET loss      == principal - returned
      allowed   == Bps(principal, max_drawdown_bps)
      shortfall == IF loss > allowed THEN loss - allowed ELSE 0
  IN  IF returned >= principal
      THEN [fee |-> Bps(returned - principal, fee_bps), slash |-> 0]
      ELSE [fee |-> 0, slash |-> IF shortfall <= locked THEN shortfall ELSE locked]
=============================================================================
