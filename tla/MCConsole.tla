------------------------------ MODULE MCConsole ------------------------------
(***************************************************************************)
(* A small instance of the pages and the tools: one operator, one trader,  *)
(* a runner, and one who funds the scripts.                                *)
(***************************************************************************)
EXTENDS OperatorTools

CONSTANTS op, ex, t1, funder, good, none, console, traderTab

MCTerms(fee, longest) ==
  [collateral_ratio_bps |-> 5, fee_bps |-> fee, max_drawdown_bps |-> 3,
   min_duration_secs |-> 1, max_duration_secs |-> longest, disclosure |-> good]

OneOffer    == {MCTerms(1, 1)}
\* Published by an earlier program: bond and tolerated loss together exceed the principal.
OldTerms    == {[MCTerms(1, 1) EXCEPT !.collateral_ratio_bps = 8]}
ScriptTerms == MCTerms(1, 2)
OneOperator == [a \in Agents |-> op]
Connected   == [g \in Pages |-> IF g \in OperatorPages THEN op ELSE t1]
\* The trader can just afford one position.
SomeWallets == [w \in Wallets |-> CASE w = funder -> 100 [] w = t1 -> 9 [] OTHER -> 20]
Clicks      == [g \in Pages |-> IF g \in OperatorPages THEN 4 ELSE 2]
Clocks      == [pages |-> 2, terminal |-> 2, setup |-> 2, demo |-> 4]
=============================================================================
