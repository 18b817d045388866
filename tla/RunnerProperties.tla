-------------------------- MODULE RunnerProperties --------------------------
(***************************************************************************)
(* What the agent runner promises to traders and to its operator.          *)
(***************************************************************************)
EXTENDS AgentRunner

\* The book of a position, in the file while the process is down.
BookOf(p) == IF pc = "down" THEN disk[p] ELSE books[p]
Trading(p) == position[p] = "trading"
-----------------------------------------------------------------------------
(* Safety *)

\* Across crashes, lost answers and swaps that land late, the book of a position
\* says exactly what the chain did for it: every swap that landed is booked once
\* or is the pending one, and no other is (state.ts:33).
BooksTellTheTruth ==
  \A p \in Positions : Trading(p) /\ BookOf(p).kept =>
    LET b == BookOf(p)
        t == IF b.pending # 0 /\ swaps[b.pending].status = "landed"
             THEN Record(b, swaps[b.pending]) ELSE b
    IN  held[p] = [sol |-> t.sol, usdc |-> t.usdc, cycles |-> t.cycles]

\* Never are two swaps of a position on their way, even if the runner dies while
\* one is.
OneSwapAtATime ==
  \A s1, s2 \in DOMAIN swaps :
    swaps[s1].status = "sent" /\ swaps[s2].status = "sent" /\ swaps[s1].of = swaps[s2].of
      => s1 = s2

\* A runner that keeps up with the clock never misses a deadline, whatever happens
\* to its swaps.
NeverLate == pace # "any" => \A p \in Positions : Trading(p) => now < DEADLINE
-----------------------------------------------------------------------------
(* Action properties *)

\* A settlement spends no SOL that belongs to the agent or to another position, unless
\* a swap was unresolved at the last call.
SettlesOwnMoney ==
  [][ \A tx \in settles : SettleLands(tx) /\ ~tx.emergency => tx.amount <= held[tx.p].sol ]_vars

\* A pending swap is forgotten only if it did not land and cannot land any more
\* (agent.ts:390, orca.ts:185-187, orca.ts:265).
ForgottenCannotLand ==
  [][ \A p \in Positions :
        LET s == books[p].pending
        IN  /\ pc # "down" /\ pc' # "down" /\ s # 0 /\ swaps[s].status \in {"sent", "landed"}
            /\ books'[p].kept
            => books'[p] \in {books[p], Record(books[p], swaps[s])} ]_vars
-----------------------------------------------------------------------------
(* Refinement and liveness *)

Lifecycle == INSTANCE PositionLifecycle WITH
  status <- position, deadline <- [p \in Positions |-> DEADLINE]

\* What the model lets happen to a position is what the program lets happen.
FollowsLifecycle == Lifecycle!Spec

\* Every position that was drawn is closed, by the runner if its trader never
\* claims it: no crash, lost state, hanging swap or short wallet strands it.
EveryDrawIsClosed == \A p \in Positions : Trading(p) ~> ~Trading(p)
=============================================================================
