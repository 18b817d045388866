-------------------------- MODULE MCSettlementQuote --------------------------
(* Every term from 0 to 100% in steps of a tenth, every principal up to 7:   *)
(* most quotients have a remainder, and dust is bonded and tolerated.        *)
EXTENDS SettlementQuote

CONSTANT good

AllRates      == 0..10
AllPrincipals == 1..7
=============================================================================
