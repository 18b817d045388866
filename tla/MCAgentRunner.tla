---------------------------- MODULE MCAgentRunner ----------------------------
(***************************************************************************)
(* Small instances of AgentRunner.  A position of 2 SOL sells one for 2    *)
(* USDC; 100% is 10 units instead of 10000.                                *)
(***************************************************************************)
EXTENDS RunnerProperties

CONSTANT p1

Skewed == {-1, 0}
=============================================================================
