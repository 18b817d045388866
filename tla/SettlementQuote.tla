--------------------------- MODULE SettlementQuote ---------------------------
(***************************************************************************)
(* The settlement arithmetic as the agent sees it: a position opened under *)
(* some terms the program accepts, and an agent that wonders what          *)
(* returning one lamport more would change.  The exact integer rounding of *)
(* Settlement is checked against a definition that does not divide.        *)
(***************************************************************************)
EXTENDS Settlement

CONSTANTS Rates,        \* the basis points to choose terms from
          Principals,   \* the amounts to open a position with
          MAX_RETURNED  \* bound on what the agent returns

ASSUME QuoteAssumption ==
  /\ Rates \subseteq Nat /\ Principals \subseteq Nat
  /\ MAX_RETURNED \in Nat

VARIABLES terms, principal, returned

quote == <<terms, principal, returned>>

OfferedTerms ==
  { t \in [collateral_ratio_bps : Rates, fee_bps : Rates, max_drawdown_bps : Rates,
           min_duration_secs : {MIN_POSITION_DURATION},
           max_duration_secs : {MAX_POSITION_DURATION},
           disclosure : ValidDisclosures] : Validate(t) }

Init ==
  /\ terms \in OfferedTerms
  /\ principal \in Principals
  /\ returned = 0

ReturnOneMore ==
  /\ returned < MAX_RETURNED
  /\ returned' = returned + 1
  /\ UNCHANGED <<terms, principal>>

Spec == Init /\ [][ReturnOneMore]_quote

Locked == RequiredCollateral(principal, terms.collateral_ratio_bps)
Settled == ComputeSettlement(principal, returned, terms.fee_bps,
                             terms.max_drawdown_bps, Locked)
Payout == returned - Settled.fee + Settled.slash
-----------------------------------------------------------------------------
\* The loss `loss` is within the share of the principal that the terms tolerate.
Tolerated(loss) == loss * BPS_DENOMINATOR <= principal * terms.max_drawdown_bps

\* compute_settlement rounds the tolerated loss and required_collateral the bond
\* so that the slash is the least payment that makes the trader's loss tolerable,
\* or the whole bond where no payment within it does; the bond is the least
\* amount that is at least the offered share of the principal; and the fee is
\* the greatest amount that is at most the offered share of the profit.
RoundsAsPromised ==
  LET enough == { x \in 0..Locked : Tolerated(principal - returned - x) }
      Share(x, rate, value) == x * BPS_DENOMINATOR <= rate * value
      profit == IF returned > principal THEN returned - principal ELSE 0
  IN  /\ IF enough = {} THEN Settled.slash = Locked
         ELSE Settled.slash \in enough /\ \A x \in enough : Settled.slash <= x
      /\ \A x \in 0..principal :
           x >= Locked <=> principal * terms.collateral_ratio_bps <= x * BPS_DENOMINATOR
      /\ \A x \in 0..MAX_RETURNED : x <= Settled.fee <=> Share(x, terms.fee_bps, profit)

\* Returning more never leaves the trader with less, never costs the agent more
\* of its bond, and never lowers its fee: withholding does not pay.
ReturningMorePays ==
  [][ /\ Payout' >= Payout
      /\ Settled'.slash <= Settled.slash
      /\ Settled'.fee >= Settled.fee ]_quote
=============================================================================
