-------------------------- MODULE ProgramProperties --------------------------
(***************************************************************************)
(* What proof_of_agent guarantees to its traders and operators.            *)
(***************************************************************************)
EXTENDS ProofOfAgent

TypeOK ==
  /\ now \in Nat
  /\ agent \in [Agents -> AgentRecord]
  /\ position \in [Positions -> PositionRecord]
  /\ wallet \in [Wallets -> Nat]
  /\ agent_vault \in [Agents -> Nat]
  /\ position_vault \in [Positions -> Nat]

PositionsOf(a, statuses) ==
  { p \in Positions : AgentOf(p) = a /\ position[p].status \in statuses }

LiveOf(a)   == PositionsOf(a, {"Open", "Trading"})
ClosedOf(a) == PositionsOf(a, {"Settled", "Defaulted", "Cancelled"})
Closed(p)   == position[p].status \in {"Settled", "Defaulted", "Cancelled"}

Bonds      == [p \in Positions |-> position[p].locked_collateral]
Principals == [p \in Positions |-> position[p].principal]
-----------------------------------------------------------------------------
(* Safety *)

\* The three counters that open_position adds to and every way out subtracts
\* from are, after any sequence of calls, exactly the sums over the live
\* positions: no close releases more or less than the position reserved.
CountersMatchPositions ==
  \A a \in Agents :
    /\ agent[a].locked_collateral = Total(Bonds, LiveOf(a))
    /\ agent[a].capital_managed = Total(Principals, LiveOf(a))
    /\ agent[a].open_positions = Cardinality(LiveOf(a))

\* The collateral recorded covers every reserved bond, and the vault really
\* holds it on top of its rent: withdrawals and slashes of some positions never
\* eat the bond of another.
VaultBacksBonds ==
  \A a \in Agents : agent[a].status # "Absent" =>
    /\ agent[a].locked_collateral <= agent[a].total_collateral
    /\ agent_vault[a] >= RENT_EXEMPT_MINIMUM + agent[a].total_collateral

\* A position's vault holds its principal until it is drawn and its rent until
\* it is closed, so cancel, decline and draw can always pay out.
VaultHoldsPrincipal ==
  \A p \in Positions :
    /\ position[p].status = "Open" =>
         position_vault[p] >= RENT_EXEMPT_MINIMUM + position[p].principal
    /\ position[p].status = "Trading" => position_vault[p] >= RENT_EXEMPT_MINIMUM

\* What each way to end a position checks, the runtime's rent rule on the balances
\* it would leave included.  (That the actions check nothing else, so that these say
\* when they are enabled, is proved in ProgramProofs.)
CancelPasses(p) ==
  /\ position[p].status = "Open"
  /\ CanRelease(agent[AgentOf(p)], position[p])
  /\ RentExempt(Credit(wallet, TraderOf(p), position_vault[p]), {TraderOf(p)})

ClaimPasses(p) ==
  LET a     == AgentOf(p)
      slash == position[p].locked_collateral
  IN  /\ position[p].status = "Trading"
      /\ DeadlineReached(p)
      /\ CanSlash(a, slash)
      /\ CanRelease(agent[a], position[p])
      /\ agent[a].defaulted_positions < U32_MAX
      /\ agent[a].breach_count < U32_MAX
      /\ RentExempt(Debit(agent_vault, a, slash), {a})
      /\ RentExempt(Credit(wallet, TraderOf(p), slash + position_vault[p]), {TraderOf(p)})

SentFor(p, returned) == IF position[p].status = "Open" THEN 0 ELSE returned

SettlementOf(p, returned) ==
  ComputeSettlement(position[p].principal,
                    IF position[p].status = "Open" THEN position[p].principal ELSE returned,
                    position[p].fee_bps, position[p].max_drawdown_bps,
                    position[p].locked_collateral)

BreachFor(p, returned) ==
  BreachOf(position[p].status # "Open" /\ DeadlineReached(p), SettlementOf(p, returned).slash)

FeeOf(key, p, returned) ==
  FeePaid(Debit(wallet, key, SentFor(p, returned)), OperatorOf[AgentOf(p)], TraderOf(p),
          SettlementOf(p, returned).fee)

WalletsAfter(key, p, returned) ==
  LET sent == SentFor(p, returned)
      fee  == FeeOf(key, p, returned)
  IN  Credit(Credit(Debit(wallet, key, sent), OperatorOf[AgentOf(p)], fee), TraderOf(p),
             SettlementOf(p, returned).slash + position_vault[p] + sent - fee)

SettlePasses(key, p, returned) ==
  LET a     == AgentOf(p)
      slash == SettlementOf(p, returned).slash
      fee   == FeeOf(key, p, returned)
  IN  /\ IsLive(p)
      /\ CanExecute(a, key)
      /\ wallet[key] >= SentFor(p, returned)
      /\ position_vault[p] + SentFor(p, returned) >= fee
      /\ CanSlash(a, slash)
      /\ CanRelease(agent[a], position[p])
      /\ position[p].status # "Open" => agent[a].settled_positions < U32_MAX
      /\ BreachFor(p, returned) # "None" => agent[a].breach_count < U32_MAX
      /\ agent[a].fees_earned + fee <= U64_MAX
      /\ RentExempt(Debit(agent_vault, a, slash), {a})
      /\ RentExempt(WalletsAfter(key, p, returned), {key, OperatorOf[a], TraderOf(p)})

\* No counter of the agent's track record is full.
CountersHaveRoom(a, slash, fee) ==
  /\ agent[a].settled_positions < U32_MAX
  /\ agent[a].defaulted_positions < U32_MAX
  /\ agent[a].breach_count < U32_MAX
  /\ agent[a].slashed_total + slash <= U64_MAX
  /\ agent[a].fees_earned + fee <= U64_MAX

\* Whoever holds a live position is never stuck: its trader can cancel while it
\* is open and claim once the deadline is reached, and the trading key can
\* decline, or settle with any amount its wallet can send.  Neither a trapped
\* subtraction nor an empty vault nor the rent rule on anybody's wallet is in the
\* way: nothing but a counter that is full.
NoCloseIsBlocked ==
  \A p \in Positions :
    /\ position[p].status = "Open" => CancelPasses(p)
    /\ /\ position[p].status = "Trading"
       /\ DeadlineReached(p)
       /\ CountersHaveRoom(AgentOf(p), position[p].locked_collateral, 0)
       => ClaimPasses(p)
    /\ \A key \in Wallets, returned \in Returns :
         LET left == wallet[key] - SentFor(p, returned)
         IN  /\ IsLive(p)
             /\ CanExecute(AgentOf(p), key)
             /\ left = 0 \/ left >= RENT_EXEMPT_MINIMUM
             /\ CountersHaveRoom(AgentOf(p), SettlementOf(p, returned).slash,
                                 FeeOf(key, p, returned))
             => SettlePasses(key, p, returned)

\* The public track record is what the closed positions say: a decline counts
\* for nothing, every breach counts once, and every slash and fee is in the sums.
TrackRecordIsTrue ==
  \A a \in Agents :
    LET drawn  == { p \in PositionsOf(a, {"Settled"}) : position[p].drawn_at # 0 }
        breach == { p \in ClosedOf(a) : position[p].breach # "None" }
    IN  /\ agent[a].settled_positions = Cardinality(drawn)
        /\ agent[a].defaulted_positions = Cardinality(PositionsOf(a, {"Defaulted"}))
        /\ agent[a].breach_count = Cardinality(breach)
        /\ agent[a].slashed_total =
             Total([p \in Positions |-> position[p].slashed], ClosedOf(a))
        /\ agent[a].fees_earned =
             Total([p \in Positions |-> position[p].fee_paid], ClosedOf(a))

\* The recorded breach is the truth about time and money: a missed deadline is
\* recorded exactly when a drawn position was closed at or after its deadline,
\* a drawdown exactly when the bond paid before it.
BreachTellsTheTruth ==
  \A p \in Positions :
    LET pos  == position[p]
        late == pos.drawn_at # 0 /\ pos.closed_at >= pos.deadline
    IN  Closed(p) => pos.breach = IF late THEN "MissedDeadline"
                                  ELSE IF pos.slashed > 0 THEN "Drawdown" ELSE "None"

\* What an agent is judged by is true: its counters and every closed position's breach.
RecordsAreTrue == TrackRecordIsTrue /\ BreachTellsTheTruth

\* Settling with nothing returned costs the agent the whole bond, the same as a
\* claimed default, for every position ever opened, whatever terms its agent
\* was published under.
SettlingNothingCostsTheBond ==
  \A p \in Positions :
    LET pos == position[p]
    IN  IsLive(p) =>
          ComputeSettlement(pos.principal, 0, pos.fee_bps, pos.max_drawdown_bps,
                            pos.locked_collateral).slash = pos.locked_collateral
-----------------------------------------------------------------------------
(* Action properties *)

\* What the PositionClosed event reports as trader_payout.
TraderPayout(pos) == pos.returned - pos.fee_paid + pos.slashed

\* On every way out the trader's loss is at most principal - bond, and the
\* money really arrives: a trader who is not also the agent's key receives the
\* reported payout and the position's rent, and the vault is left empty.
TraderRecoversBond ==
  [][ \A p \in Positions : IsLive(p) /\ Closed(p)' =>
        LET a == AgentOf(p)
            t == TraderOf(p)
        IN  /\ TraderPayout(position'[p]) >= position[p].locked_collateral
            /\ position_vault'[p] = 0
            /\ ~CanExecute(a, t) =>
                 wallet'[t] - wallet[t] >=
                   TraderPayout(position'[p]) + RENT_EXEMPT_MINIMUM ]_vars
-----------------------------------------------------------------------------
(* Refinement: the pooled vault behaves like one bond per position *)

Segregated == INSTANCE SegregatedBonds WITH
  free   <- [a \in Agents |-> agent[a].total_collateral - agent[a].locked_collateral],
  bond   <- [p \in Positions |-> IF IsLive(p) THEN position[p].locked_collateral ELSE 0],
  escrow <- [p \in Positions |-> IF position[p].status = "Open"
                                 THEN position[p].principal ELSE 0],
  stage  <- [p \in Positions |-> CASE position[p].status = "Absent"  -> "absent"
                                   [] position[p].status = "Open"    -> "open"
                                   [] position[p].status = "Trading" -> "trading"
                                   [] OTHER                          -> "closed"],
  payout <- [p \in Positions |-> IF Closed(p) THEN TraderPayout(position[p]) ELSE 0]

\* Every behaviour of the program is one of SegregatedBonds.
BondsAreSegregated == Segregated!Spec
-----------------------------------------------------------------------------
(* Refinement: the life of a position, as the runners rely on it *)

LowerCase ==
  [Absent |-> "absent", Open |-> "open", Trading |-> "trading", Settled |-> "settled",
   Defaulted |-> "defaulted", Cancelled |-> "cancelled"]

Lifecycle == INSTANCE PositionLifecycle WITH
  status   <- [p \in Positions |-> LowerCase[position[p].status]],
  deadline <- [p \in Positions |-> position[p].deadline]

\* Whoever calls whichever instruction in whatever order, a position is drawn only
\* before its deadline, defaults only when drawn and at or after it, and ends once:
\* the life that AgentRunner is shown to keep to as well.
FollowsLifecycle == Lifecycle!Spec
-----------------------------------------------------------------------------
(* Liveness *)

\* A position always ends, even if the operator and the trading key never act
\* again, as long as the clock advances and the trader ends it when allowed to.
EveryPositionEnds == \A p \in Positions : IsLive(p) ~> Closed(p)
=============================================================================
