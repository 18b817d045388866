-------------------------- MODULE SettlementProofs --------------------------
(***************************************************************************)
(* Facts about the settlement arithmetic, for every principal, every rate  *)
(* and every value of the constants.                                       *)
(***************************************************************************)
EXTENDS Settlement, TLAPS

\* The quotient of the integer division and its bounds.
LEMMA DivBounds ==
  ASSUME NEW n \in Nat, NEW d \in Nat \ {0}
  PROVE  /\ n \div d \in Nat
         /\ d * (n \div d) <= n
         /\ n < d * (n \div d) + d
<1>1. n = d * (n \div d) + (n % d) /\ n % d \in 0..(d - 1)
  BY SMT
<1>2. n \div d \in Nat
  BY SMT
<1> QED BY <1>1, <1>2, SMT

\* Amounts times rates are natural numbers.
LEMMA ProductIsNat ==
  ASSUME NEW m \in Nat, NEW n \in Nat
  PROVE  m * n \in Nat
BY SMT

\* A greater amount has a product at least as great with the same rate.
LEMMA ProductMonotone ==
  ASSUME NEW m \in Nat, NEW i \in Nat, NEW j \in Nat, i <= j
  PROVE  m * i <= m * j
<1>1. PICK k \in Nat : j = i + k
  <2>1. j - i \in Nat /\ j = i + (j - i)
    BY SMT
  <2> QED BY <2>1
<1>2. m * j = m * i + m * k /\ m * k \in Nat /\ m * i \in Nat
  BY <1>1, SMT
<1> QED BY <1>2, SMT

\* The share of a lamport amount is a lamport amount, rounded down.
LEMMA BpsBounds ==
  ASSUME NEW value \in Nat, NEW rate \in Nat
  PROVE  /\ Bps(value, rate) \in Nat
         /\ BPS_DENOMINATOR * Bps(value, rate) <= value * rate
<1>1. value * rate \in Nat
  BY ProductIsNat
<1> QED BY <1>1, DivBounds, ConstantsAssumption DEF Bps, ConstantsAssumption

\* The bond covers the ratio, and by less than one lamport too much.
LEMMA RequiredCollateralBounds ==
  ASSUME NEW principal \in Nat, NEW ratio \in Nat
  PROVE  LET locked == RequiredCollateral(principal, ratio)
         IN  /\ locked \in Nat
             /\ BPS_DENOMINATOR * locked <= principal * ratio + BPS_DENOMINATOR - 1
             /\ principal * ratio <= BPS_DENOMINATOR * locked
<1> DEFINE n == principal * ratio + BPS_DENOMINATOR - 1
<1>1. BPS_DENOMINATOR \in Nat \ {0}
  BY ConstantsAssumption DEF ConstantsAssumption
<1>2. principal * ratio \in Nat
  BY ProductIsNat
<1>3. n \in Nat
  BY <1>1, <1>2, SMT
<1>4. /\ n \div BPS_DENOMINATOR \in Nat
      /\ BPS_DENOMINATOR * (n \div BPS_DENOMINATOR) <= n
      /\ n < BPS_DENOMINATOR * (n \div BPS_DENOMINATOR) + BPS_DENOMINATOR
  BY <1>1, <1>3, DivBounds
<1>5. RequiredCollateral(principal, ratio) = n \div BPS_DENOMINATOR
  BY DEF RequiredCollateral
<1>6. BPS_DENOMINATOR * (n \div BPS_DENOMINATOR) \in Nat
  BY <1>1, <1>4, ProductIsNat
<1> HIDE DEF n
<1>7. principal * ratio <= BPS_DENOMINATOR * (n \div BPS_DENOMINATOR)
  BY <1>1, <1>2, <1>4, <1>6, SMT DEF n
<1> QED BY <1>4, <1>5, <1>7 DEF n

\* Where ratio and tolerance fit in 100%, bond and tolerated loss together are
\* at most the principal: rounding one up and the other down does not break it.
LEMMA BondAndToleranceFit ==
  ASSUME NEW principal \in Nat, NEW ratio \in Nat, NEW drawdown \in Nat,
         RatioAndDrawdownFit(ratio, drawdown)
  PROVE  RequiredCollateral(principal, ratio) + Bps(principal, drawdown) <= principal
<1> DEFINE locked == RequiredCollateral(principal, ratio)
           allowed == Bps(principal, drawdown)
           B == BPS_DENOMINATOR
<1>1. B \in Nat \ {0}
  BY ConstantsAssumption DEF ConstantsAssumption
<1>2. locked \in Nat /\ B * locked <= principal * ratio + B - 1
  BY RequiredCollateralBounds
<1>3. allowed \in Nat /\ B * allowed <= principal * drawdown
  BY BpsBounds
<1>4. principal * (ratio + drawdown) <= principal * B
  BY <1>1, ProductMonotone DEF RatioAndDrawdownFit
<1> HIDE DEF locked, allowed, B
<1>5. B * (locked + allowed) <= principal * B + B - 1
  <2>1. principal * (ratio + drawdown) = principal * ratio + principal * drawdown
    BY SMT
  <2>2. B * (locked + allowed) = B * locked + B * allowed
    BY <1>1, <1>2, <1>3, SMT
  <2>3. /\ principal * ratio \in Nat /\ principal * drawdown \in Nat
        /\ principal * B \in Nat /\ B * locked \in Nat /\ B * allowed \in Nat
    BY <1>1, <1>2, <1>3, ProductIsNat
  <2> QED BY <1>1, <1>2, <1>3, <1>4, <2>1, <2>2, <2>3, SMT
<1>6. SUFFICES ASSUME principal + 1 <= locked + allowed PROVE FALSE
  BY <1>2, <1>3, SMT DEF locked, allowed
<1>7. B * (principal + 1) <= B * (locked + allowed)
  BY <1>1, <1>2, <1>3, <1>6, ProductMonotone
<1>8. B * (principal + 1) = principal * B + B /\ principal * B \in Nat
  BY <1>1, SMT
<1>9. B * (locked + allowed) \in Nat
  BY <1>1, <1>2, <1>3, ProductIsNat
<1> QED BY <1>1, <1>5, <1>7, <1>8, <1>9, SMT

\* What a settlement may pay: at most the bond as slash, at most the profit as fee.
InRange(s, principal, returned, locked) ==
  /\ s.fee \in Nat /\ s.slash \in 0..locked
  /\ returned >= principal => s.fee <= returned - principal /\ s.slash = 0
  /\ returned < principal => s.fee = 0

\* Every settlement pays amounts in range.
LEMMA SettlementBounds ==
  ASSUME NEW principal \in Nat, NEW returned \in Nat, NEW fee_bps \in 0..BPS_DENOMINATOR,
         NEW drawdown \in Nat, NEW locked \in Nat
  PROVE  InRange(ComputeSettlement(principal, returned, fee_bps, drawdown, locked),
                 principal, returned, locked)
<1>1. BPS_DENOMINATOR \in Nat \ {0}
  BY ConstantsAssumption DEF ConstantsAssumption
<1>2. CASE returned >= principal
  <2> DEFINE profit == returned - principal
             fee    == Bps(profit, fee_bps)
  <2>1. profit \in Nat /\ fee_bps \in Nat
    BY <1>1, <1>2, SMT
  <2>2. fee \in Nat /\ BPS_DENOMINATOR * fee <= profit * fee_bps
    BY <2>1, BpsBounds
  <2>3. profit * fee_bps <= profit * BPS_DENOMINATOR
    BY <1>1, <2>1, ProductMonotone
  <2>4. fee <= profit
    <3> HIDE DEF profit, fee
    <3>1. SUFFICES ASSUME profit + 1 <= fee PROVE FALSE
      BY <2>1, <2>2, SMT
    <3>2. BPS_DENOMINATOR * (profit + 1) <= BPS_DENOMINATOR * fee
      BY <1>1, <2>1, <2>2, <3>1, ProductMonotone
    <3>3. BPS_DENOMINATOR * (profit + 1) = profit * BPS_DENOMINATOR + BPS_DENOMINATOR
      BY <1>1, <2>1, SMT
    <3>4. /\ profit * BPS_DENOMINATOR \in Nat /\ BPS_DENOMINATOR * fee \in Nat
          /\ profit * fee_bps \in Nat
      BY <1>1, <2>1, <2>2, ProductIsNat
    <3> QED BY <1>1, <2>2, <2>3, <3>2, <3>3, <3>4, SMT
  <2>5. ComputeSettlement(principal, returned, fee_bps, drawdown, locked)
          = [fee |-> fee, slash |-> 0]
    BY <1>2 DEF ComputeSettlement
  <2> QED BY <1>2, <2>2, <2>4, <2>5, SMT DEF InRange
<1>3. CASE ~(returned >= principal)
  <2> DEFINE allowed == Bps(principal, drawdown)
             loss == principal - returned
             shortfall == IF loss > allowed THEN loss - allowed ELSE 0
             slash == IF shortfall <= locked THEN shortfall ELSE locked
  <2>1. allowed \in Nat
    BY BpsBounds
  <2>2. slash \in 0..locked
    <3> HIDE DEF allowed
    <3> QED BY <1>3, <2>1, SMT
  <2>3. ComputeSettlement(principal, returned, fee_bps, drawdown, locked)
          = [fee |-> 0, slash |-> slash]
    BY <1>3 DEF ComputeSettlement
  <2> QED BY <1>3, <2>2, <2>3, SMT DEF InRange
<1> QED BY <1>2, <1>3

\* Returning nothing costs the whole bond, exactly what claim_default takes.
THEOREM ReturningNothingCostsTheBond ==
  ASSUME NEW principal \in Nat \ {0}, NEW fee_bps \in Nat,
         NEW ratio \in Nat, NEW drawdown \in Nat,
         RatioAndDrawdownFit(ratio, drawdown)
  PROVE  LET locked == RequiredCollateral(principal, ratio)
         IN  ComputeSettlement(principal, 0, fee_bps, drawdown, locked).slash = locked
<1> DEFINE locked == RequiredCollateral(principal, ratio)
           allowed == Bps(principal, drawdown)
           shortfall == IF principal > allowed THEN principal - allowed ELSE 0
<1>1. locked \in Nat /\ allowed \in Nat /\ locked + allowed <= principal
  BY RequiredCollateralBounds, BpsBounds, BondAndToleranceFit
<1>2. ComputeSettlement(principal, 0, fee_bps, drawdown, locked).slash
        = IF shortfall <= locked THEN shortfall ELSE locked
  <2>1. ~(0 >= principal) /\ principal - 0 = principal
    BY SMT
  <2> QED BY <2>1 DEF ComputeSettlement
<1> HIDE DEF locked, allowed
<1>3. (IF shortfall <= locked THEN shortfall ELSE locked) = locked
  BY <1>1, SMT
<1> QED BY <1>2, <1>3 DEF locked

\* Whatever is returned, the trader ends with at least the bond.
THEOREM TraderKeepsTheBond ==
  ASSUME NEW principal \in Nat \ {0}, NEW returned \in Nat,
         NEW fee_bps \in 0..BPS_DENOMINATOR, NEW ratio \in Nat, NEW drawdown \in Nat,
         RatioAndDrawdownFit(ratio, drawdown)
  PROVE  LET locked == RequiredCollateral(principal, ratio)
             s == ComputeSettlement(principal, returned, fee_bps, drawdown, locked)
         IN  returned - s.fee + s.slash >= locked
<1> DEFINE locked == RequiredCollateral(principal, ratio)
           allowed == Bps(principal, drawdown)
           s == ComputeSettlement(principal, returned, fee_bps, drawdown, locked)
<1>1. locked \in Nat /\ allowed \in Nat /\ locked + allowed <= principal
  BY RequiredCollateralBounds, BpsBounds, BondAndToleranceFit
<1>2. /\ s.fee \in Nat /\ s.slash \in 0..locked
      /\ returned >= principal => s.fee <= returned - principal /\ s.slash = 0
      /\ returned < principal => s.fee = 0
  <2>1. principal \in Nat /\ locked \in Nat
    BY <1>1
  <2>2. InRange(s, principal, returned, locked)
    <3> HIDE DEF locked
    <3> QED BY <2>1, SettlementBounds
  <2> QED BY <2>2 DEF InRange
<1>3. CASE returned >= principal
  <2> HIDE DEF locked, allowed, s
  <2>1. returned - s.fee >= principal /\ s.slash = 0
    BY <1>2, <1>3, SMT
  <2>2. returned - s.fee + s.slash >= locked
    BY <1>1, <1>2, <2>1, SMT
  <2> QED BY <2>2 DEF locked, s
<1>4. CASE ~(returned >= principal)
  <2> DEFINE loss == principal - returned
             shortfall == IF loss > allowed THEN loss - allowed ELSE 0
  <2>1. s.slash = IF shortfall <= locked THEN shortfall ELSE locked
    BY <1>4 DEF ComputeSettlement
  <2>2. s.fee = 0
    BY <1>2, <1>4, SMT
  <2> HIDE DEF locked, allowed, s
  <2>3. returned - s.fee + s.slash >= locked
    BY <1>1, <1>4, <2>1, <2>2, SMT
  <2> QED BY <2>3 DEF locked, s
<1> QED BY <1>3, <1>4
=============================================================================
