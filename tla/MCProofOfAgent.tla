--------------------------- MODULE MCProofOfAgent ---------------------------
(***************************************************************************)
(* Small instances of ProofOfAgent.  100% is 10 units instead of 10000, a  *)
(* day is a tick.  Amounts are chosen so that a bond of 2 backs a position *)
(* of 4 whose tolerated loss is 1: returning 2 slashes part of the bond,   *)
(* returning 0 all of it, 9 leaves a fee of 1, below the rent minimum 2.   *)
(***************************************************************************)
EXTENDS ProgramProperties

CONSTANTS op, ex, t1, t2, a1, a2, good, bad

MCTerms(ratio, fee, drawdown, disclosure) ==
  [collateral_ratio_bps |-> ratio, fee_bps |-> fee, max_drawdown_bps |-> drawdown,
   min_duration_secs |-> 1, max_duration_secs |-> 2, disclosure |-> disclosure]

OneOperator == [a \in Agents |-> op]
HalfBacked  == {MCTerms(5, 2, 3, good)}
\* Two offers to accept, then one to refuse for each check of validate().
TermsToRefuse ==
  {MCTerms(7, 2, 3, good), MCTerms(10, 5, 0, good),
   MCTerms(7, 4, 3, good), MCTerms(4, 2, 6, good), MCTerms(11, 2, 0, good),
   MCTerms(8, 2, 3, good), MCTerms(7, 2, 3, bad)}
TooLenient  == {MCTerms(8, 2, 5, good)}
NoTerms     == {}

\* The operator can create an agent and bond 6.
RichWallets   == [w \in Wallets |-> IF w = op THEN 9 ELSE 20]
\* The operator's wallet is empty once the agent is bonded with 4.
SparseWallets == [w \in Wallets |-> IF w = op THEN 7 ELSE 9]
=============================================================================
