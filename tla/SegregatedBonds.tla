--------------------------- MODULE SegregatedBonds ---------------------------
(***************************************************************************)
(* What proof_of_agent promises: the program keeps one vault and a few     *)
(* counters per agent, yet behaves as if every position had a bond of its  *)
(* own, put aside when it opens and used for nothing else.                 *)
(***************************************************************************)
EXTENDS Integers

CONSTANTS Agents, Positions, AgentOf(_)

VARIABLES
  free,      \* collateral of each agent that guarantees no position
  bond,      \* the bond put aside for each position
  escrow,    \* the trader's principal, while the agent has not drawn it
  stage,     \* "absent", "open", "trading", "closed"
  payout     \* what the trader of a closed position received

vars == <<free, bond, escrow, stage, payout>>

Init ==
  /\ free = [a \in Agents |-> 0]
  /\ bond = [p \in Positions |-> 0]
  /\ escrow = [p \in Positions |-> 0]
  /\ stage = [p \in Positions |-> "absent"]
  /\ payout = [p \in Positions |-> 0]

\* The operator tops up, or takes back, what guarantees no position.
MoveFree(a) ==
  /\ free'[a] \in Nat
  /\ free' = [free EXCEPT ![a] = free'[a]]
  /\ UNCHANGED <<bond, escrow, stage, payout>>

\* A new position takes its bond out of the free collateral.
Put(p) ==
  /\ stage[p] = "absent"
  /\ bond'[p] \in 1..free[AgentOf(p)]
  /\ escrow'[p] \in Nat
  /\ bond'[p] <= escrow'[p]
  /\ free' = [free EXCEPT ![AgentOf(p)] = @ - bond'[p]]
  /\ bond' = [bond EXCEPT ![p] = bond'[p]]
  /\ escrow' = [escrow EXCEPT ![p] = escrow'[p]]
  /\ stage' = [stage EXCEPT ![p] = "open"]
  /\ UNCHANGED payout

\* The agent takes the principal.
Draw(p) ==
  /\ stage[p] = "open"
  /\ escrow' = [escrow EXCEPT ![p] = 0]
  /\ stage' = [stage EXCEPT ![p] = "trading"]
  /\ UNCHANGED <<free, bond, payout>>

\* The position ends: the trader gets the principal if it was never drawn, else
\* no less than the bond, and only what the bond pays leaves the collateral.
Close(p) ==
  /\ stage[p] \in {"open", "trading"}
  /\ \E slash \in 0..(IF stage[p] = "open" THEN 0 ELSE bond[p]) :
       free' = [free EXCEPT ![AgentOf(p)] = @ + bond[p] - slash]
  /\ payout'[p] \in Nat
  /\ IF stage[p] = "open" THEN payout'[p] = escrow[p] ELSE payout'[p] >= bond[p]
  /\ payout' = [payout EXCEPT ![p] = payout'[p]]
  /\ bond' = [bond EXCEPT ![p] = 0]
  /\ escrow' = [escrow EXCEPT ![p] = 0]
  /\ stage' = [stage EXCEPT ![p] = "closed"]

Next ==
  \/ \E a \in Agents : MoveFree(a)
  \/ \E p \in Positions : Put(p) \/ Draw(p) \/ Close(p)

Spec == Init /\ [][Next]_vars
=============================================================================
