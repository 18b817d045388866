----------------------------- MODULE QuoteProofs -----------------------------
(***************************************************************************)
(* The settlement arithmetic rounds as it promises and never rewards an    *)
(* agent that withholds, for every rate, principal and amount returned.    *)
(***************************************************************************)
EXTENDS SettlementQuote, SettlementProofs
-----------------------------------------------------------------------------
(* Quotients *)

\* The integer division yields the greatest integer whose multiple fits.
LEMMA FloorIsGreatest ==
  ASSUME NEW n \in Nat, NEW d \in Nat \ {0}, NEW x \in Int
  PROVE  x * d <= n <=> x <= n \div d
<1> DEFINE q == n \div d
<1>1. q \in Nat /\ d * q <= n /\ n < d * q + d
  BY DivBounds
<1> HIDE DEF q
<1>2. d * q \in Nat
  BY <1>1, ProductIsNat
<1>3. CASE x <= q
  <2>1. PICK k \in Nat : q = x + k
    <3>1. q - x \in Nat /\ q = x + (q - x)
      BY <1>1, <1>3, SMT
    <3> QED BY <3>1
  <2>2. d * q = x * d + k * d /\ k * d \in Nat /\ x * d \in Int
    BY <2>1, SMT
  <2> QED BY <1>1, <1>2, <1>3, <2>2, SMT DEF q
<1>4. CASE ~(x <= q)
  <2>1. PICK k \in Nat : x = q + 1 + k
    <3>1. x - q - 1 \in Nat /\ x = q + 1 + (x - q - 1)
      BY <1>1, <1>4, SMT
    <3> QED BY <3>1
  <2>2. x * d = d * q + d + k * d /\ k * d \in Nat
    BY <1>1, <2>1, SMT
  <2> QED BY <1>1, <1>2, <1>4, <2>2, SMT DEF q
<1> QED BY <1>3, <1>4

\* The share of an amount is the greatest amount that is at most the share.
LEMMA BpsIsGreatest ==
  ASSUME NEW value \in Nat, NEW rate \in Nat, NEW x \in Int
  PROVE  x * BPS_DENOMINATOR <= value * rate <=> x <= Bps(value, rate)
<1>1. value * rate \in Nat
  BY ProductIsNat
<1> QED BY <1>1, FloorIsGreatest, ConstantsAssumption DEF Bps, ConstantsAssumption

\* The bond is the least amount that is at least the share of the principal.
LEMMA BondIsLeast ==
  ASSUME NEW value \in Nat, NEW ratio \in Nat, NEW x \in Nat
  PROVE  value * ratio <= x * BPS_DENOMINATOR <=> x >= RequiredCollateral(value, ratio)
<1> DEFINE B == BPS_DENOMINATOR
           n == value * ratio + B - 1
           q == n \div B
<1>1. B \in Nat \ {0} /\ value * ratio \in Nat
  BY ProductIsNat, ConstantsAssumption DEF ConstantsAssumption
<1>2. n \in Nat
  BY <1>1, SMT
<1>3. q \in Nat
  BY <1>1, <1>2, DivBounds
<1>4. x + 1 \in Int /\ ((x + 1) * B <= n <=> x + 1 <= q)
  <2>1. x + 1 \in Int
    BY SMT
  <2> QED BY <1>1, <1>2, <2>1, FloorIsGreatest
<1>5. RequiredCollateral(value, ratio) = q
  BY DEF RequiredCollateral
<1>6. (x + 1) * B = x * B + B /\ x * B \in Nat
  BY <1>1, SMT
<1>7. n = value * ratio + B - 1
  OBVIOUS
<1> HIDE DEF q, n, B
<1>8. x + 1 <= q <=> ~(x >= q)
  BY <1>3, SMT
<1>9. (x + 1) * B <= n <=> x * B + 1 <= value * ratio
  BY <1>1, <1>6, <1>7, SMT
<1>10. x * B + 1 <= value * ratio <=> ~(value * ratio <= x * B)
  BY <1>1, <1>6, SMT
<1> QED BY <1>4, <1>5, <1>8, <1>9, <1>10 DEF B

\* A lamport more of profit adds one lamport to the fee, or none.
LEMMA FeeGrowsSlowly ==
  ASSUME NEW profit \in Nat, NEW rate \in 0..BPS_DENOMINATOR
  PROVE  Bps(profit + 1, rate) - Bps(profit, rate) \in {0, 1}
<1> DEFINE B == BPS_DENOMINATOR
           f == Bps(profit, rate)
           g == Bps(profit + 1, rate)
<1>1. B \in Nat \ {0} /\ rate \in Nat /\ profit + 1 \in Nat /\ rate <= B
  BY ConstantsAssumption, SMT DEF ConstantsAssumption
<1>2. f \in Nat /\ g \in Nat
  BY <1>1, BpsBounds
<1>3. f * B <= profit * rate /\ g * B <= (profit + 1) * rate
  <2>1. f \in Int /\ g \in Int /\ f <= Bps(profit, rate) /\ g <= Bps(profit + 1, rate)
    BY <1>2, SMT
  <2> QED BY <1>1, <2>1, BpsIsGreatest
<1>4. (profit + 1) * rate = profit * rate + rate /\ profit * rate \in Nat
  BY <1>1, SMT
<1>5. (g - 1) * B = g * B - B /\ g * B \in Nat /\ f * B \in Nat
  BY <1>1, <1>2, SMT
<1>6. g - 1 \in Int
  BY <1>2, SMT
<1>7. f * B <= (profit + 1) * rate /\ (g - 1) * B <= profit * rate
  <2> HIDE DEF f, g, B
  <2> QED BY <1>1, <1>2, <1>3, <1>4, <1>5, SMT
<1>8. f <= g
  <2>1. f \in Int
    BY <1>2, SMT
  <2> QED BY <1>1, <1>7, <2>1, BpsIsGreatest
<1>9. g - 1 <= f
  BY <1>1, <1>6, <1>7, BpsIsGreatest
<1> HIDE DEF f, g
<1>10. g - f \in {0, 1}
  BY <1>2, <1>8, <1>9, SMT
<1> QED BY <1>10 DEF f, g
-----------------------------------------------------------------------------
(* What the quote rests on *)

\* The terms, the principal and what is returned are amounts and rates.
QuoteTyped ==
  /\ principal \in Nat /\ returned \in Nat
  /\ terms.collateral_ratio_bps \in Nat /\ terms.max_drawdown_bps \in Nat
  /\ terms.fee_bps \in 0..BPS_DENOMINATOR

\* The terms that an operator may publish have a fee that is a share.
LEMMA OfferedTermsTyped ==
  ASSUME NEW t \in OfferedTerms
  PROVE  /\ t.collateral_ratio_bps \in Nat /\ t.max_drawdown_bps \in Nat
         /\ t.fee_bps \in 0..BPS_DENOMINATOR
<1>1. /\ t.collateral_ratio_bps \in Nat /\ t.max_drawdown_bps \in Nat /\ t.fee_bps \in Nat
      /\ WithinLimits(t)
  BY QuoteAssumption DEF OfferedTerms, QuoteAssumption, Validate
<1>2. /\ t.collateral_ratio_bps <= MAX_COLLATERAL_RATIO_BPS
      /\ t.fee_bps <= t.collateral_ratio_bps \div FEE_CAP_DIVISOR
      /\ MAX_COLLATERAL_RATIO_BPS \in 0..BPS_DENOMINATOR
      /\ FEE_CAP_DIVISOR \in Nat \ {0} /\ BPS_DENOMINATOR \in Nat
      /\ MIN_COLLATERAL_RATIO_BPS \in Nat
  BY <1>1, ConstantsAssumption, SMT DEF WithinLimits, MaxFeeBps, ConstantsAssumption
<1> DEFINE ratio == t.collateral_ratio_bps
           q == ratio \div FEE_CAP_DIVISOR
           fee == t.fee_bps
<1>3. q \in Nat /\ FEE_CAP_DIVISOR * q <= ratio
  BY <1>1, <1>2, DivBounds
<1>4. fee \in Nat /\ fee <= q /\ ratio \in Nat /\ ratio <= MAX_COLLATERAL_RATIO_BPS
  BY <1>1, <1>2
<1>5. q * 1 <= q * FEE_CAP_DIVISOR
  <2>1. 1 <= FEE_CAP_DIVISOR /\ 1 \in Nat /\ FEE_CAP_DIVISOR \in Nat
    BY <1>2, SMT
  <2> HIDE DEF q
  <2> QED BY <1>3, <2>1, ProductMonotone
<1> HIDE DEF q, ratio, fee
<1>6. q * FEE_CAP_DIVISOR = FEE_CAP_DIVISOR * q /\ q * 1 = q /\ FEE_CAP_DIVISOR * q \in Nat
  BY <1>2, <1>3, SMT
<1>7. fee \in 0..BPS_DENOMINATOR
  BY <1>2, <1>3, <1>4, <1>5, <1>6, SMT
<1> QED BY <1>1, <1>7 DEF fee

\* The quote is always typed.
LEMMA QuoteAlwaysTyped == Spec => []QuoteTyped
<1>1. Init => QuoteTyped
  BY OfferedTermsTyped, QuoteAssumption DEF Init, QuoteTyped, QuoteAssumption
<1>2. QuoteTyped /\ [ReturnOneMore]_quote => QuoteTyped'
  <2> SUFFICES ASSUME QuoteTyped, [ReturnOneMore]_quote PROVE QuoteTyped'
    OBVIOUS
  <2>1. returned + 1 \in Nat
    BY SMT DEF QuoteTyped
  <2> QED BY <2>1 DEF QuoteTyped, ReturnOneMore, quote
<1> QED BY <1>1, <1>2, PTL DEF Spec
-----------------------------------------------------------------------------
(* What a settlement pays, case by case *)

\* A settlement at a profit pays the fee and nothing of the bond.
LEMMA ProfitPaysFee ==
  ASSUME NEW P \in Nat, NEW R \in Nat, R >= P, NEW fee, NEW drawdown, NEW locked
  PROVE  /\ ComputeSettlement(P, R, fee, drawdown, locked).fee = Bps(R - P, fee)
         /\ ComputeSettlement(P, R, fee, drawdown, locked).slash = 0
BY DEF ComputeSettlement

\* What of a bond pays for `loss` when `allowed` of it is tolerated.
SlashFor(loss, allowed, locked) ==
  LET shortfall == IF loss > allowed THEN loss - allowed ELSE 0
  IN  IF shortfall <= locked THEN shortfall ELSE locked

\* A settlement at a loss pays no fee, and of the bond what is not tolerated.
LEMMA LossPaysSlash ==
  ASSUME NEW P \in Nat, NEW R \in Nat, ~(R >= P), NEW fee, NEW drawdown, NEW locked
  PROVE  /\ ComputeSettlement(P, R, fee, drawdown, locked).fee = 0
         /\ ComputeSettlement(P, R, fee, drawdown, locked).slash
              = SlashFor(P - R, Bps(P, drawdown), locked)
BY DEF ComputeSettlement, SlashFor

\* The slash is the least payment that makes the loss tolerable, or all.
LEMMA SlashIsLeast ==
  ASSUME NEW loss \in Int, NEW allowed \in Nat, NEW locked \in Nat,
         NEW slash, slash = SlashFor(loss, allowed, locked)
  PROVE  /\ slash \in 0..locked
         /\ \A x \in 0..locked : loss - x <= allowed => loss - slash <= allowed /\ slash <= x
         /\ loss - slash > allowed => slash = locked
BY SMT DEF SlashFor

\* Losing one lamport less costs the same of the bond, or one lamport less.
LEMMA SlashShrinksSlowly ==
  ASSUME NEW loss \in Nat \ {0}, NEW allowed \in Nat, NEW locked \in Nat
  PROVE  /\ SlashFor(loss, allowed, locked) - SlashFor(loss - 1, allowed, locked) \in {0, 1}
         /\ SlashFor(loss, allowed, locked) \in 0..locked
         /\ SlashFor(loss - 1, allowed, locked) \in 0..locked
         /\ SlashFor(0, allowed, locked) = 0
BY SMT DEF SlashFor
-----------------------------------------------------------------------------
(* What a quote promises *)

\* The slash is the least payment that makes the trader's loss tolerable.
LEMMA SlashAsPromised ==
  ASSUME QuoteTyped
  PROVE  LET enough == { x \in 0..Locked : Tolerated(principal - returned - x) }
         IN  IF enough = {} THEN Settled.slash = Locked
             ELSE Settled.slash \in enough /\ \A x \in enough : Settled.slash <= x
<1> DEFINE enough == { x \in 0..Locked : Tolerated(principal - returned - x) }
           allowed == Bps(principal, terms.max_drawdown_bps)
           loss == principal - returned
           slash == Settled.slash
<1>1. Locked \in Nat /\ allowed \in Nat
  BY RequiredCollateralBounds, BpsBounds DEF QuoteTyped, Locked
<1>2. loss \in Int /\ principal \in Nat /\ returned \in Nat
  BY SMT DEF QuoteTyped
<1>3. \A x \in 0..Locked : x \in enough <=> loss - x <= allowed
  <2> TAKE x \in 0..Locked
  <2>1. loss - x \in Int
    BY <1>1, <1>2, SMT
  <2>2. (loss - x) * BPS_DENOMINATOR <= principal * terms.max_drawdown_bps
          <=> loss - x <= allowed
    BY <2>1, BpsIsGreatest DEF QuoteTyped
  <2> QED BY <2>2 DEF Tolerated
<1>4. /\ slash \in 0..Locked
      /\ \A x \in 0..Locked : loss - x <= allowed => loss - slash <= allowed /\ slash <= x
      /\ loss - slash > allowed => slash = Locked
  <2>1. CASE returned >= principal
    <3>1. slash = 0
      BY <1>2, <2>1, ProfitPaysFee DEF Settled
    <3> HIDE DEF slash, allowed
    <3> QED BY <1>1, <1>2, <2>1, <3>1, SMT
  <2>2. CASE ~(returned >= principal)
    <3>1. slash = SlashFor(loss, allowed, Locked)
      BY <1>2, <2>2, LossPaysSlash DEF Settled
    <3> HIDE DEF slash, allowed, loss
    <3>2. loss \in Int
      BY <1>2
    <3> QED BY <1>1, <3>1, <3>2, SlashIsLeast
  <2> QED BY <2>1, <2>2
<1>5. enough \subseteq 0..Locked
  OBVIOUS
<1> HIDE DEF enough, slash, allowed, loss
<1>6. CASE enough = {}
  <2>1. ~(loss - slash <= allowed)
    BY <1>3, <1>4, <1>6
  <2>2. slash \in Int
    BY <1>1, <1>4, SMT
  <2>3. loss - slash > allowed
    BY <1>1, <1>2, <2>1, <2>2, SMT
  <2> QED BY <1>4, <1>6, <2>3 DEF enough, slash
<1>7. CASE enough # {}
  <2>1. PICK x \in enough : TRUE
    BY <1>7
  <2>2. loss - slash <= allowed
    BY <1>3, <1>4, <1>5, <2>1
  <2>3. slash \in enough
    BY <1>3, <1>4, <2>2
  <2>4. \A y \in enough : slash <= y
    BY <1>3, <1>4, <1>5
  <2> QED BY <1>7, <2>3, <2>4 DEF enough, slash
<1> QED BY <1>6, <1>7

\* The fee is the greatest amount that is at most the share of the profit.
LEMMA FeeAsPromised ==
  ASSUME QuoteTyped, NEW x \in Nat
  PROVE  x <= Settled.fee
           <=> x * BPS_DENOMINATOR
                 <= terms.fee_bps * (IF returned > principal THEN returned - principal ELSE 0)
<1> DEFINE profit == IF returned > principal THEN returned - principal ELSE 0
           rate == terms.fee_bps
<1>1. /\ principal \in Nat /\ returned \in Nat /\ rate \in Nat /\ profit \in Nat
      /\ BPS_DENOMINATOR \in Nat \ {0}
  BY ConstantsAssumption, SMT DEF QuoteTyped, ConstantsAssumption
<1>2. rate * profit = profit * rate
  <2> HIDE DEF rate, profit
  <2> QED BY <1>1, SMT
<1>3. x \in Int
  BY SMT
<1>4. x <= Bps(profit, rate) <=> x * BPS_DENOMINATOR <= rate * profit
  <2> HIDE DEF rate, profit
  <2> QED BY <1>1, <1>2, <1>3, BpsIsGreatest
<1>5. CASE returned >= principal
  <2>1. profit = returned - principal
    BY <1>1, <1>5, SMT
  <2>2. Settled.fee = Bps(profit, rate)
    BY <1>1, <1>5, <2>1, ProfitPaysFee DEF Settled
  <2> QED BY <1>4, <2>2
<1>6. CASE ~(returned >= principal)
  <2>1. Settled.fee = 0
    BY <1>1, <1>6, LossPaysSlash DEF Settled
  <2>2. profit = 0
    BY <1>1, <1>6, SMT
  <2>3. Bps(profit, rate) = 0
    <3>1. 0 * rate = 0
      BY <1>1, SMT
    <3>2. 0 \div BPS_DENOMINATOR = 0
      BY <1>1, SMT
    <3> QED BY <2>2, <3>1, <3>2 DEF Bps
  <2> QED BY <1>4, <2>1, <2>3
<1> QED BY <1>5, <1>6

\* Whatever the terms, the principal and what is returned: the slash is the
\* least that makes the loss tolerable, the bond the least that covers the
\* offered share, and the fee the greatest within the share of the profit
\* (compute_settlement, required_collateral).
THEOREM QuoteIsExact == Spec => []RoundsAsPromised
<1>1. QuoteTyped => RoundsAsPromised
  <2> SUFFICES ASSUME QuoteTyped PROVE RoundsAsPromised
    OBVIOUS
  <2>1. LET enough == { x \in 0..Locked : Tolerated(principal - returned - x) }
        IN  IF enough = {} THEN Settled.slash = Locked
            ELSE Settled.slash \in enough /\ \A x \in enough : Settled.slash <= x
    BY SlashAsPromised
  <2>2. \A x \in 0..principal :
          x >= Locked <=> principal * terms.collateral_ratio_bps <= x * BPS_DENOMINATOR
    <3> TAKE x \in 0..principal
    <3>1. x \in Nat
      BY SMT DEF QuoteTyped
    <3> QED BY <3>1, BondIsLeast DEF QuoteTyped, Locked
  <2>3. \A x \in 0..MAX_RETURNED :
          x <= Settled.fee
            <=> x * BPS_DENOMINATOR
                  <= terms.fee_bps * (IF returned > principal THEN returned - principal ELSE 0)
    <3> TAKE x \in 0..MAX_RETURNED
    <3>1. x \in Nat
      BY QuoteAssumption, SMT DEF QuoteAssumption
    <3> QED BY <3>1, FeeAsPromised
  <2> QED BY <2>1, <2>2, <2>3 DEF RoundsAsPromised
<1> QED BY <1>1, QuoteAlwaysTyped, PTL

\* Returning one lamport more never leaves the trader with less, never costs
\* the agent more of its bond and never lowers its fee (compute_settlement).
THEOREM WithholdingNeverPays == Spec => ReturningMorePays
<1> DEFINE Pays == /\ Payout' >= Payout
                   /\ Settled'.slash <= Settled.slash
                   /\ Settled'.fee >= Settled.fee
<1>1. ASSUME QuoteTyped, ReturnOneMore
      PROVE  Pays
  <2> DEFINE P == principal
             R == returned
             allowed == Bps(principal, terms.max_drawdown_bps)
             rate == terms.fee_bps
             locked == Locked
             s == Settled
             t == Settled'
  <2>1. /\ P \in Nat /\ R \in Nat /\ R + 1 \in Nat /\ allowed \in Nat /\ locked \in Nat
        /\ rate \in 0..BPS_DENOMINATOR /\ rate \in Nat
    <3>1. P \in Nat /\ R \in Nat /\ rate \in 0..BPS_DENOMINATOR
      BY <1>1 DEF QuoteTyped
    <3>2. R + 1 \in Nat /\ rate \in Nat
      BY <3>1, ConstantsAssumption, SMT DEF ConstantsAssumption
    <3>3. allowed \in Nat /\ locked \in Nat
      BY <1>1, RequiredCollateralBounds, BpsBounds DEF QuoteTyped, Locked
    <3> QED BY <3>1, <3>2, <3>3
  <2>2. t = ComputeSettlement(P, R + 1, rate, terms.max_drawdown_bps, locked)
    BY <1>1 DEF ReturnOneMore, Settled, Locked
  <2>3. s = ComputeSettlement(P, R, rate, terms.max_drawdown_bps, locked)
    BY DEF Settled
  <2>4. Payout = R - s.fee + s.slash /\ Payout' = (R + 1) - t.fee + t.slash
    <3>1. Payout = R - s.fee + s.slash
      BY DEF Payout
    <3>2. Payout' = returned' - t.fee + t.slash
      BY DEF Payout
    <3>3. returned' = R + 1
      BY <1>1 DEF ReturnOneMore
    <3> HIDE DEF s, t
    <3> QED BY <3>1, <3>2, <3>3
  <2>5. SUFFICES /\ (R + 1) - t.fee + t.slash >= R - s.fee + s.slash
                 /\ t.slash <= s.slash /\ t.fee >= s.fee
    BY <2>4
  <2>6. CASE R >= P
    <3>1. R + 1 >= P /\ R - P \in Nat /\ R + 1 - P = R - P + 1
      BY <2>1, <2>6, SMT
    <3>2. s.fee = Bps(R - P, rate) /\ s.slash = 0
      BY <2>1, <2>3, <2>6, ProfitPaysFee
    <3>3. t.fee = Bps(R - P + 1, rate) /\ t.slash = 0
      BY <2>1, <2>2, <3>1, ProfitPaysFee
    <3>4. t.fee - s.fee \in {0, 1}
      BY <2>1, <3>1, <3>2, <3>3, FeeGrowsSlowly
    <3>5. s.fee \in Nat /\ t.fee \in Nat
      <4>1. R - P + 1 \in Nat
        BY <3>1, SMT
      <4> QED BY <2>1, <3>1, <3>2, <3>3, <4>1, BpsBounds
    <3> HIDE DEF s, t
    <3> QED BY <2>1, <3>2, <3>3, <3>4, <3>5, SMT
  <2>7. CASE R + 1 = P
    <3>1. ~(R >= P) /\ P - R = 1 /\ R + 1 >= P /\ 0 \in Nat /\ R + 1 - P = 0
      BY <2>1, <2>7, SMT
    <3>2. s.fee = 0 /\ s.slash = SlashFor(1, allowed, locked)
      BY <2>1, <2>3, <3>1, LossPaysSlash
    <3>3. t.fee = Bps(0, rate) /\ t.slash = 0
      BY <2>1, <2>2, <3>1, ProfitPaysFee
    <3>4. t.fee = 0
      <4>1. 0 * rate = 0 /\ 0 \div BPS_DENOMINATOR = 0
        BY <2>1, ConstantsAssumption, SMT DEF ConstantsAssumption
      <4> QED BY <3>3, <4>1 DEF Bps
    <3>5. s.slash \in {0, 1}
      <4>1. 1 \in Nat \ {0} /\ 1 - 1 = 0
        BY SMT
      <4>2. s.slash - SlashFor(0, allowed, locked) \in {0, 1} /\ SlashFor(0, allowed, locked) = 0
        BY <2>1, <3>2, <4>1, SlashShrinksSlowly
      <4>3. s.slash \in 0..locked
        BY <2>1, <3>2, <4>1, SlashShrinksSlowly
      <4> HIDE DEF s
      <4> QED BY <2>1, <4>2, <4>3, SMT
    <3> HIDE DEF s, t
    <3> QED BY <2>1, <3>2, <3>3, <3>4, <3>5, SMT
  <2>8. CASE ~(R >= P) /\ R + 1 # P
    <3>1. ~(R + 1 >= P) /\ P - R \in Nat \ {0} /\ P - (R + 1) = (P - R) - 1
      BY <2>1, <2>8, SMT
    <3>2. s.fee = 0 /\ s.slash = SlashFor(P - R, allowed, locked)
      BY <2>1, <2>3, <2>8, LossPaysSlash
    <3>3. t.fee = 0 /\ t.slash = SlashFor(P - (R + 1), allowed, locked)
      BY <2>1, <2>2, <3>1, LossPaysSlash
    <3>4. s.slash - t.slash \in {0, 1} /\ s.slash \in 0..locked /\ t.slash \in 0..locked
      BY <2>1, <3>1, <3>2, <3>3, SlashShrinksSlowly
    <3> HIDE DEF s, t
    <3> QED BY <2>1, <3>2, <3>3, <3>4, SMT
  <2> QED BY <2>6, <2>7, <2>8
<1>2. ASSUME QuoteTyped, UNCHANGED quote
      PROVE  UNCHANGED quote
  BY <1>2
<1>3. QuoteTyped /\ [ReturnOneMore]_quote => [Pays]_quote
  BY <1>1
<1> QED BY <1>3, QuoteAlwaysTyped, PTL DEF Spec, ReturningMorePays
=============================================================================
