---------------------------- MODULE ProgramProofs ----------------------------
(***************************************************************************)
(* Theorems about proof_of_agent for every set of agents, traders, wallets *)
(* and amounts and every value of the constants: it is well typed, the     *)
(* collateral covers every bond, the vaults hold what is owed, the         *)
(* counters and the track record of an agent are what its positions say,   *)
(* every trader gets the bond back, and the program implements             *)
(* PositionLifecycle, the life of a position that its traders and runners  *)
(* rely on, and SegregatedBonds, one bond put aside per position.          *)
(***************************************************************************)
EXTENDS ProgramProperties, SettlementProofs, FiniteSetTheorems

-----------------------------------------------------------------------------
(* Types of the helpers *)

\* The terms and identities an operator may submit are typed.
LEMMA TermsTyped ==
  /\ \A t \in Terms : t \in AgentTerms
  /\ \A t \in LegacyTerms : t \in AgentTerms
  /\ SomeTerms \in AgentTerms
  /\ SomeIdentity \in Identities
BY ProgramAssumption DEF ProgramAssumption, SomeTerms, SomeIdentity

\* A position's address names an agent, and its trader and operator have wallets.
LEMMA PositionKeys ==
  ASSUME NEW p \in Positions
  PROVE  /\ AgentOf(p) \in Agents
         /\ TraderOf(p) \in Wallets
         /\ OperatorOf[AgentOf(p)] \in Wallets
BY ProgramAssumption DEF ProgramAssumption, Positions, AgentOf, TraderOf

\* An agent's operator has a wallet.
LEMMA OperatorKey ==
  ASSUME NEW a \in Agents
  PROVE  OperatorOf[a] \in Wallets
BY ProgramAssumption DEF ProgramAssumption

\* What create_agent writes is an Agent account.
LEMMA NewAgentTyped ==
  ASSUME NEW a \in Agents, NEW i \in Identities, NEW t \in AgentTerms
  PROVE  NewAgent(a, i, t) \in AgentRecord
BY OperatorKey DEF NewAgent, AgentRecord, AgentStatus

\* So is every agent the system starts with.
LEMMA AgentAtStartTyped ==
  ASSUME NEW a \in Agents
  PROVE  AgentAtStart(a) \subseteq AgentRecord
<1>1. AbsentAgent(a) \in AgentRecord
  BY TermsTyped, NewAgentTyped DEF AbsentAgent, AgentRecord, AgentStatus
<1>2. ASSUME NEW t \in LegacyTerms PROVE LegacyAgent(a, t) \in AgentRecord
  BY TermsTyped, NewAgentTyped DEF LegacyAgent, AgentRecord, AgentStatus
<1> QED BY <1>1, <1>2 DEF AgentAtStart

\* Releasing what can be released keeps every counter a natural number.
LEMMA ReleasedTyped ==
  ASSUME NEW ag \in AgentRecord, NEW pos \in PositionRecord, CanRelease(ag, pos)
  PROVE  Released(ag, pos) \in AgentRecord
<1>1. /\ ag.locked_collateral - pos.locked_collateral \in Nat
      /\ ag.capital_managed - pos.principal \in Nat
      /\ ag.open_positions - 1 \in Nat
  BY DEF CanRelease, AgentRecord, PositionRecord
<1>2. ASSUME NEW x \in Nat, NEW y \in Nat, NEW z \in Nat
      PROVE  [ag EXCEPT !.locked_collateral = x, !.capital_managed = y,
                        !.open_positions = z] \in AgentRecord
  BY DEF AgentRecord
<1> QED BY <1>1, <1>2 DEF Released

\* So does slashing what the agent has, and the counters of the guarantee stay.
LEMMA SlashedTyped ==
  ASSUME NEW ag \in AgentRecord, NEW amount \in Nat, ag.total_collateral >= amount
  PROVE  /\ Slashed(ag, amount) \in AgentRecord
         /\ Slashed(ag, amount).status = ag.status
         /\ Slashed(ag, amount).locked_collateral = ag.locked_collateral
         /\ Slashed(ag, amount).capital_managed = ag.capital_managed
         /\ Slashed(ag, amount).open_positions = ag.open_positions
<1>1. ag.total_collateral - amount \in Nat /\ ag.slashed_total + amount \in Nat
  BY DEF AgentRecord
<1>2. ASSUME NEW x \in Nat, NEW y \in Nat
      PROVE  LET new == [ag EXCEPT !.total_collateral = x, !.slashed_total = y]
             IN  /\ new \in AgentRecord
                 /\ new.status = ag.status
                 /\ new.locked_collateral = ag.locked_collateral
                 /\ new.capital_managed = ag.capital_managed
                 /\ new.open_positions = ag.open_positions
  BY DEF AgentRecord
<1> QED BY <1>1, <1>2 DEF Slashed

\* A transfer of what the payer holds keeps every balance a natural number.
LEMMA CreditTyped ==
  ASSUME NEW K, NEW balance \in [K -> Nat], NEW k \in K, NEW n \in Nat
  PROVE  /\ Credit(balance, k, n) \in [K -> Nat]
         /\ balance[k] >= n => Debit(balance, k, n) \in [K -> Nat]
BY DEF Credit, Debit

\* A settlement computes amounts of lamports, the slash at most the bond.
LEMMA SettlementTyped ==
  ASSUME NEW principal \in Nat, NEW returned \in Nat, NEW fee_bps \in Nat,
         NEW drawdown \in Nat, NEW locked \in Nat
  PROVE  LET s == ComputeSettlement(principal, returned, fee_bps, drawdown, locked)
         IN  s.fee \in Nat /\ s.slash \in Nat /\ s.slash \in 0..locked
<1>1. CASE returned >= principal
  <2>1. returned - principal \in Nat
    BY <1>1
  <2>2. Bps(returned - principal, fee_bps) \in Nat
    BY <2>1, BpsBounds
  <2> QED BY <1>1, <2>2 DEF ComputeSettlement
<1>2. CASE ~(returned >= principal)
  <2> DEFINE allowed == Bps(principal, drawdown)
             loss == principal - returned
             shortfall == IF loss > allowed THEN loss - allowed ELSE 0
  <2>1. allowed \in Nat
    BY BpsBounds
  <2>2. /\ (IF shortfall <= locked THEN shortfall ELSE locked) \in Nat
        /\ (IF shortfall <= locked THEN shortfall ELSE locked) \in 0..locked
    <3> HIDE DEF allowed
    <3> QED BY <1>2, <2>1
  <2> QED BY <1>2, <2>2 DEF ComputeSettlement
<1> QED BY <1>1, <1>2
-----------------------------------------------------------------------------
(* The state is always well typed. *)

\* The initial state is typed.
LEMMA InitTypeOK == Init => TypeOK
<1> SUFFICES ASSUME Init PROVE TypeOK
  OBVIOUS
<1>1. now \in Nat
  BY DEF Init
<1>2. agent \in [Agents -> AgentRecord]
  BY AgentAtStartTyped DEF Init
<1>3. position \in [Positions -> PositionRecord]
  BY DEF Init, AbsentPosition, PositionRecord, PositionStatus, Breach
<1>4. wallet \in [Wallets -> Nat] /\ position_vault \in [Positions -> Nat]
  BY ProgramAssumption DEF Init, ProgramAssumption
<1>5. agent_vault \in [Agents -> Nat]
  BY ProgramAssumption DEF Init, ProgramAssumption
<1> QED BY <1>1, <1>2, <1>3, <1>4, <1>5 DEF TypeOK

\* No instruction of the operator breaks the types, whatever amounts, terms and keys it
\* is called with.
LEMMA OperatorCallsTyped ==
  ASSUME TypeOK, NEW a \in Agents
  PROVE  /\ \A i \in Identities, t \in AgentTerms :
               CreateAgent(a, i, t) \/ UpdateAgent(a, i, t) => TypeOK'
         /\ PublishAgent(a) => TypeOK'
         /\ \A key \in Wallets : SetExecutor(a, key) => TypeOK'
         /\ \A accepting \in BOOLEAN : SetAccepting(a, accepting) => TypeOK'
         /\ \A amount \in Nat :
               DepositCollateral(a, amount) \/ WithdrawCollateral(a, amount) => TypeOK'
<1> USE ProgramAssumption DEF ProgramAssumption, TypeOK
<1>0. OperatorOf[a] \in Wallets /\ agent[a] \in AgentRecord
  BY OperatorKey
<1>1. ASSUME NEW i \in Identities, NEW t \in AgentTerms, CreateAgent(a, i, t)
      PROVE  TypeOK'
  <2>1. NewAgent(a, i, t) \in AgentRecord
    BY NewAgentTyped
  <2>2. agent' \in [Agents -> AgentRecord]
    BY <1>1, <2>1 DEF CreateAgent
  <2>3. RENT_EXEMPT_MINIMUM + AGENT_ACCOUNT_RENT \in Nat
    OBVIOUS
  <2>4. wallet' \in [Wallets -> Nat] /\ agent_vault' \in [Agents -> Nat]
    BY <1>0, <1>1, <2>3, CreditTyped DEF CreateAgent
  <2> QED BY <1>1, <2>2, <2>4 DEF CreateAgent
<1>2. ASSUME NEW i \in Identities, NEW t \in AgentTerms, UpdateAgent(a, i, t)
      PROVE  TypeOK'
  <2>1. agent' \in [Agents -> AgentRecord]
    BY <1>0, <1>2 DEF UpdateAgent, AgentRecord
  <2> QED BY <1>2, <2>1 DEF UpdateAgent
<1>3. CASE PublishAgent(a)
  <2>1. agent' \in [Agents -> AgentRecord]
    BY <1>0, <1>3 DEF PublishAgent, AgentRecord, AgentStatus
  <2> QED BY <1>3, <2>1 DEF PublishAgent
<1>4. ASSUME NEW key \in Wallets, SetExecutor(a, key)
      PROVE  TypeOK'
  <2>1. agent' \in [Agents -> AgentRecord]
    BY <1>0, <1>4 DEF SetExecutor, AgentRecord
  <2> QED BY <1>4, <2>1 DEF SetExecutor
<1>5. ASSUME NEW accepting \in BOOLEAN, SetAccepting(a, accepting)
      PROVE  TypeOK'
  <2>1. agent' \in [Agents -> AgentRecord]
    BY <1>0, <1>5 DEF SetAccepting, AgentRecord, AgentStatus
  <2> QED BY <1>5, <2>1 DEF SetAccepting
<1>6. ASSUME NEW amount \in Nat, DepositCollateral(a, amount)
      PROVE  TypeOK'
  <2>1. agent' \in [Agents -> AgentRecord]
    BY <1>0, <1>6 DEF DepositCollateral, AgentRecord
  <2>2. wallet' \in [Wallets -> Nat] /\ agent_vault' \in [Agents -> Nat]
    BY <1>0, <1>6, CreditTyped DEF DepositCollateral
  <2> QED BY <1>6, <2>1, <2>2 DEF DepositCollateral
<1>7. ASSUME NEW amount \in Nat, WithdrawCollateral(a, amount)
      PROVE  TypeOK'
  <2>1. agent[a].total_collateral - amount \in Nat
    BY <1>0, <1>7 DEF WithdrawCollateral, FreeCollateral, AgentRecord
  <2>2. agent' \in [Agents -> AgentRecord]
    BY <1>0, <1>7, <2>1 DEF WithdrawCollateral, AgentRecord
  <2>3. wallet' \in [Wallets -> Nat] /\ agent_vault' \in [Agents -> Nat]
    BY <1>0, <1>7, CreditTyped DEF WithdrawCollateral
  <2> QED BY <1>7, <2>2, <2>3 DEF WithdrawCollateral
<1> QED BY <1>1, <1>2, <1>3, <1>4, <1>5, <1>6, <1>7

\* So no step of an operator breaks the types.
LEMMA OperatorTypeOK ==
  ASSUME TypeOK, NEW a \in Agents, OperatorNext(a)
  PROVE  TypeOK'
<1>1. /\ \A t \in Terms : t \in AgentTerms
      /\ \A key \in ExecutorKeys : key \in Wallets
      /\ \A amount \in Amounts : amount \in Nat
  BY TermsTyped, ProgramAssumption DEF ProgramAssumption
<1> QED BY <1>1, OperatorCallsTyped DEF OperatorNext

\* open_position keeps the types.
LEMMA OpenTypeOK ==
  ASSUME TypeOK, NEW p \in Positions, NEW amount \in Nat, NEW duration \in Nat,
         OpenPosition(p, amount, duration)
  PROVE  TypeOK'
<1> DEFINE a      == AgentOf(p)
           terms  == agent[a].terms
           locked == RequiredCollateral(amount, terms.collateral_ratio_bps)
           cost   == amount + RENT_EXEMPT_MINIMUM + POSITION_ACCOUNT_RENT
<1>1. /\ a \in Agents /\ TraderOf(p) \in Wallets /\ agent[a] \in AgentRecord
      /\ terms \in AgentTerms
  BY PositionKeys DEF TypeOK, AgentRecord
<1>2. locked \in Nat
  BY <1>1, RequiredCollateralBounds DEF AgentTerms
<1>3. cost \in Nat /\ amount + RENT_EXEMPT_MINIMUM \in Nat
  BY ProgramAssumption DEF ProgramAssumption
<1>4. NewPosition(amount, locked, terms, duration) \in PositionRecord
  <2>1. terms.fee_bps \in Nat /\ terms.max_drawdown_bps \in Nat /\ now + duration \in Nat
    BY <1>1 DEF AgentTerms, TypeOK
  <2> HIDE DEF locked, terms
  <2> QED BY <1>2, <2>1 DEF NewPosition, PositionRecord, PositionStatus, Breach
<1>5. /\ agent' = [agent EXCEPT ![a].locked_collateral = @ + locked,
                                ![a].capital_managed   = @ + amount,
                                ![a].open_positions    = @ + 1]
      /\ position' = [position EXCEPT ![p] = NewPosition(amount, locked, terms, duration)]
      /\ wallet[TraderOf(p)] >= cost
      /\ wallet' = Debit(wallet, TraderOf(p), cost)
      /\ position_vault' = Credit(position_vault, p, amount + RENT_EXEMPT_MINIMUM)
      /\ UNCHANGED <<now, agent_vault>>
  BY DEF OpenPosition
<1> HIDE DEF a, terms, locked, cost
<1>6. agent' \in [Agents -> AgentRecord]
  BY <1>1, <1>2, <1>5 DEF TypeOK, AgentRecord
<1>7. position' \in [Positions -> PositionRecord]
  BY <1>4, <1>5 DEF TypeOK
<1>8. wallet' \in [Wallets -> Nat] /\ position_vault' \in [Positions -> Nat]
  BY <1>1, <1>3, <1>5, CreditTyped DEF TypeOK
<1> QED BY <1>5, <1>6, <1>7, <1>8 DEF TypeOK

\* cancel_position keeps the types.
LEMMA CancelTypeOK ==
  ASSUME TypeOK, NEW p \in Positions, CancelPosition(p)
  PROVE  TypeOK'
<1> DEFINE a == AgentOf(p)
<1>1. /\ a \in Agents /\ TraderOf(p) \in Wallets /\ agent[a] \in AgentRecord
      /\ position[p] \in PositionRecord /\ position_vault[p] \in Nat
  BY PositionKeys DEF TypeOK
<1>2. Released(agent[a], position[p]) \in AgentRecord
  BY <1>1, ReleasedTyped DEF CancelPosition
<1>3. agent' \in [Agents -> AgentRecord]
  BY <1>1, <1>2 DEF TypeOK, CancelPosition
<1>4. position' \in [Positions -> PositionRecord]
  BY <1>1 DEF TypeOK, CancelPosition, PositionRecord, PositionStatus
<1>5. wallet' \in [Wallets -> Nat] /\ position_vault' \in [Positions -> Nat]
  BY <1>1, CreditTyped DEF TypeOK, CancelPosition
<1> QED BY <1>3, <1>4, <1>5 DEF TypeOK, CancelPosition

\* claim_default keeps the types.
LEMMA ClaimTypeOK ==
  ASSUME TypeOK, NEW p \in Positions, ClaimDefault(p)
  PROVE  TypeOK'
<1> DEFINE a     == AgentOf(p)
           slash == position[p].locked_collateral
           after == Released(Slashed(agent[a], slash), position[p])
<1>1. /\ a \in Agents /\ TraderOf(p) \in Wallets /\ agent[a] \in AgentRecord
      /\ position[p] \in PositionRecord /\ position_vault[p] \in Nat /\ slash \in Nat
  BY PositionKeys DEF TypeOK, PositionRecord
<1>2. after \in AgentRecord
  <2>1. CanRelease(Slashed(agent[a], slash), position[p])
    BY <1>1, SlashedTyped DEF ClaimDefault, CanRelease, CanSlash
  <2>2. Slashed(agent[a], slash) \in AgentRecord
    BY <1>1, SlashedTyped DEF ClaimDefault, CanSlash
  <2> QED BY <1>1, <2>1, <2>2, ReleasedTyped
<1>3. agent' = [agent EXCEPT ![a] = [after EXCEPT !.defaulted_positions = @ + 1,
                                                  !.breach_count = @ + 1]]
  BY DEF ClaimDefault
<1>4. agent' \in [Agents -> AgentRecord]
  <2> HIDE DEF after, a
  <2>1. after.defaulted_positions + 1 \in Nat /\ after.breach_count + 1 \in Nat
    BY <1>2 DEF AgentRecord
  <2>2. ASSUME NEW x \in Nat, NEW y \in Nat
        PROVE  [after EXCEPT !.defaulted_positions = x, !.breach_count = y] \in AgentRecord
    BY <1>2 DEF AgentRecord
  <2>3. [after EXCEPT !.defaulted_positions = @ + 1, !.breach_count = @ + 1] \in AgentRecord
    BY <2>1, <2>2
  <2> QED BY <1>1, <1>3, <2>3 DEF TypeOK
<1>5. position' \in [Positions -> PositionRecord]
  BY <1>1 DEF TypeOK, ClaimDefault, PositionRecord, PositionStatus, Breach
<1>6. /\ wallet' \in [Wallets -> Nat] /\ position_vault' \in [Positions -> Nat]
      /\ agent_vault' \in [Agents -> Nat]
  <2>1. slash + position_vault[p] \in Nat
    BY <1>1
  <2> QED BY <1>1, <2>1, CreditTyped DEF TypeOK, ClaimDefault, CanSlash
<1> QED BY <1>4, <1>5, <1>6 DEF TypeOK, ClaimDefault

\* draw_funds keeps the types.
LEMMA DrawTypeOK ==
  ASSUME TypeOK, NEW p \in Positions, NEW key \in Wallets, DrawFunds(key, p)
  PROVE  TypeOK'
<1>1. position[p] \in PositionRecord /\ position[p].principal \in Nat
  BY DEF TypeOK, PositionRecord
<1>2. position' \in [Positions -> PositionRecord]
  BY <1>1 DEF TypeOK, DrawFunds, PositionRecord, PositionStatus
<1>3. wallet' \in [Wallets -> Nat] /\ position_vault' \in [Positions -> Nat]
  BY <1>1, CreditTyped DEF TypeOK, DrawFunds
<1> QED BY <1>2, <1>3 DEF TypeOK, DrawFunds

\* settle_position keeps the types.
LEMMA SettleTypeOK ==
  ASSUME TypeOK, NEW p \in Positions, NEW key \in Wallets, NEW returned \in Nat,
         SettlePosition(key, p, returned)
  PROVE  TypeOK'
<1> DEFINE a         == AgentOf(p)
           pos       == position[p]
           operator  == OperatorOf[a]
           trader    == TraderOf(p)
           declined  == pos.status = "Open"
           sent      == IF declined THEN 0 ELSE returned
           effective == IF declined THEN pos.principal ELSE returned
           s         == ComputeSettlement(pos.principal, effective, pos.fee_bps,
                                          pos.max_drawdown_bps, pos.locked_collateral)
           after     == Debit(wallet, key, sent)
           fee       == FeePaid(after, operator, trader, s.fee)
           breach    == BreachOf(~declined /\ DeadlineReached(p), s.slash)
           released  == Released(Slashed(agent[a], s.slash), pos)
<1>1. /\ a \in Agents /\ trader \in Wallets /\ operator \in Wallets
      /\ agent[a] \in AgentRecord /\ pos \in PositionRecord /\ position_vault[p] \in Nat
  BY PositionKeys DEF TypeOK
<1>2. sent \in Nat /\ effective \in Nat
  BY <1>1 DEF PositionRecord
<1>3. s.fee \in Nat /\ s.slash \in Nat
  <2>1. /\ pos.principal \in Nat /\ pos.fee_bps \in Nat /\ pos.max_drawdown_bps \in Nat
        /\ pos.locked_collateral \in Nat
    BY <1>1 DEF PositionRecord
  <2> HIDE DEF pos, effective
  <2> QED BY <1>2, <2>1, SettlementTyped
<1>4. fee \in Nat
  <2> HIDE DEF s, after, operator, trader
  <2> QED BY <1>3 DEF FeePaid
<1>5. breach \in Breach
  BY DEF BreachOf, Breach
<1>6. /\ CanSlash(a, s.slash) /\ CanRelease(agent[a], pos)
      /\ wallet[key] >= sent /\ position_vault[p] + sent >= fee
      /\ agent' = [agent EXCEPT ![a] =
                     [released EXCEPT !.settled_positions = IF declined THEN @ ELSE @ + 1,
                                      !.breach_count = IF breach = "None" THEN @ ELSE @ + 1,
                                      !.fees_earned = @ + fee]]
      /\ position' = [position EXCEPT ![p].status = "Settled",
                                      ![p].breach = breach,
                                      ![p].returned = effective,
                                      ![p].slashed = s.slash,
                                      ![p].fee_paid = fee,
                                      ![p].closed_at = now]
      /\ agent_vault' = Debit(agent_vault, a, s.slash)
      /\ wallet' = Credit(Credit(after, operator, fee), trader,
                          s.slash + position_vault[p] + sent - fee)
      /\ position_vault' = [position_vault EXCEPT ![p] = 0]
      /\ UNCHANGED now
  BY DEF SettlePosition
<1>7. released \in AgentRecord
  <2> HIDE DEF s, pos, a
  <2>1. Slashed(agent[a], s.slash) \in AgentRecord /\ CanRelease(Slashed(agent[a], s.slash), pos)
    BY <1>1, <1>3, <1>6, SlashedTyped DEF CanSlash, CanRelease
  <2> QED BY <1>1, <2>1, ReleasedTyped
<1>8. after \in [Wallets -> Nat]
  <2> HIDE DEF sent
  <2> QED BY <1>2, <1>6, CreditTyped DEF TypeOK
<1> HIDE DEF a, pos, operator, trader, declined, sent, effective, s, after, fee, breach, released
<1>9. agent' \in [Agents -> AgentRecord]
  <2>1. /\ (IF declined THEN released.settled_positions
            ELSE released.settled_positions + 1) \in Nat
        /\ (IF breach = "None" THEN released.breach_count
            ELSE released.breach_count + 1) \in Nat
        /\ released.fees_earned + fee \in Nat
    BY <1>4, <1>7 DEF AgentRecord
  <2>2. ASSUME NEW x \in Nat, NEW y \in Nat, NEW z \in Nat
        PROVE  [released EXCEPT !.settled_positions = x, !.breach_count = y,
                                !.fees_earned = z] \in AgentRecord
    BY <1>7 DEF AgentRecord
  <2>3. [released EXCEPT !.settled_positions = IF declined THEN @ ELSE @ + 1,
                         !.breach_count = IF breach = "None" THEN @ ELSE @ + 1,
                         !.fees_earned = @ + fee] \in AgentRecord
    BY <2>1, <2>2
  <2> QED BY <1>1, <1>6, <2>3 DEF TypeOK
<1>10. position' \in [Positions -> PositionRecord]
  <2>1. position[p] \in PositionRecord /\ now \in Nat
    BY DEF TypeOK
  <2>2. ASSUME NEW e \in Nat, NEW x \in Nat, NEW f \in Nat, NEW t \in Nat, NEW b \in Breach
        PROVE  [position[p] EXCEPT !.status = "Settled", !.breach = b, !.returned = e,
                  !.slashed = x, !.fee_paid = f, !.closed_at = t] \in PositionRecord
    BY <2>1 DEF PositionRecord, PositionStatus
  <2>3. position'
          = [position EXCEPT ![p] = [position[p] EXCEPT !.status = "Settled",
               !.breach = breach, !.returned = effective, !.slashed = s.slash,
               !.fee_paid = fee, !.closed_at = now]]
    BY <1>6 DEF TypeOK
  <2> QED BY <1>2, <1>3, <1>4, <1>5, <2>1, <2>2, <2>3 DEF TypeOK
<1>11. wallet' \in [Wallets -> Nat]
  <2>1. s.slash + position_vault[p] + sent - fee \in Nat
    BY <1>1, <1>2, <1>3, <1>4, <1>6
  <2>2. Credit(after, operator, fee) \in [Wallets -> Nat]
    BY <1>1, <1>4, <1>8, CreditTyped
  <2> QED BY <1>1, <1>6, <2>1, <2>2, CreditTyped
<1>12. agent_vault' \in [Agents -> Nat] /\ position_vault' \in [Positions -> Nat]
  BY <1>1, <1>3, <1>6, CreditTyped DEF TypeOK, CanSlash
<1> QED BY <1>6, <1>9, <1>10, <1>11, <1>12 DEF TypeOK

\* Neither the clock nor a plain transfer breaks the types.
LEMMA EnvironmentTypeOK ==
  ASSUME TypeOK
  PROVE  /\ Tick => TypeOK'
         /\ \A from \in Wallets, amount \in Gifts : SystemTransfer(from, amount) => TypeOK'
<1>1. Tick => TypeOK'
  BY DEF TypeOK, Tick
<1>2. ASSUME NEW from \in Wallets, NEW amount \in Gifts, SystemTransfer(from, amount)
      PROVE  TypeOK'
  <2>1. amount \in Nat
    BY ProgramAssumption DEF ProgramAssumption
  <2>2. Debit(wallet, from, amount) \in [Wallets -> Nat]
    BY <1>2, <2>1, CreditTyped DEF SystemTransfer, TypeOK
  <2>3. wallet' \in [Wallets -> Nat]
    BY <1>2, <2>1, <2>2, CreditTyped DEF SystemTransfer
  <2>4. agent_vault' \in [Agents -> Nat]
    BY <1>2, <2>1, CreditTyped DEF SystemTransfer, TypeOK
  <2>5. position_vault' \in [Positions -> Nat]
    BY <1>2, <2>1, CreditTyped DEF SystemTransfer, TypeOK
  <2> QED BY <1>2, <2>3, <2>4, <2>5 DEF SystemTransfer, TypeOK
<1> QED BY <1>1, <1>2

\* No step breaks the types.
LEMMA NextTypeOK == TypeOK /\ [Next]_vars => TypeOK'
<1> SUFFICES ASSUME TypeOK, [Next]_vars PROVE TypeOK'
  OBVIOUS
<1>1. ASSUME NEW a \in Agents, OperatorNext(a) PROVE TypeOK'
  BY <1>1, OperatorTypeOK
<1>2. ASSUME NEW p \in Positions, TraderNext(p) PROVE TypeOK'
  <2>1. \A amount \in Amounts : amount \in Nat
    BY ProgramAssumption DEF ProgramAssumption
  <2>2. \A duration \in MIN_POSITION_DURATION..MAX_POSITION_DURATION : duration \in Nat
    BY ConstantsAssumption DEF ConstantsAssumption
  <2> QED BY <1>2, <2>1, <2>2, OpenTypeOK, CancelTypeOK, ClaimTypeOK DEF TraderNext
<1>3. ASSUME NEW p \in Positions, ExecutorNext(p) PROVE TypeOK'
  <2>1. \A returned \in Returns : returned \in Nat
    BY ProgramAssumption DEF ProgramAssumption
  <2> QED BY <1>3, <2>1, DrawTypeOK, SettleTypeOK DEF ExecutorNext
<1>4. CASE UNCHANGED vars
  BY <1>4 DEF TypeOK, vars
<1> QED BY <1>1, <1>2, <1>3, <1>4, EnvironmentTypeOK DEF Next

\* Every reachable state of the program is well typed: no subtraction of the
\* counters or of the balances ever goes below zero.
THEOREM ProgramTypeCorrect == Spec => []TypeOK
BY InitTypeOK, NextTypeOK, PTL DEF Spec
-----------------------------------------------------------------------------
(* The collateral covers every bond and the vaults hold what is owed *)

\* What every way out of p does to the agent and to p: the reservation is
\* released and `slash` leaves the collateral.
Settles(p, slash) ==
  LET a == AgentOf(p)
  IN  /\ IsLive(p)
      /\ slash \in 0..position[p].locked_collateral
      /\ \A b \in Agents \ {a} : agent'[b] = agent[b] /\ agent_vault'[b] = agent_vault[b]
      /\ agent'[a].status = agent[a].status
      /\ agent'[a].locked_collateral
           = agent[a].locked_collateral - position[p].locked_collateral
      /\ agent'[a].capital_managed = agent[a].capital_managed - position[p].principal
      /\ agent'[a].open_positions = agent[a].open_positions - 1
      /\ agent'[a].total_collateral = agent[a].total_collateral - slash
      /\ agent_vault'[a] = agent_vault[a] - slash
      /\ \A q \in Positions \ {p} : /\ position'[q] = position[q]
                                    /\ position_vault'[q] = position_vault[q]
      /\ position'[p].status \notin {"Absent", "Open", "Trading"}

\* Every way out of a position settles it with a slash of at most its bond.
LEMMA ClosesSettle ==
  ASSUME TypeOK, NEW p \in Positions,
         \/ CancelPosition(p)
         \/ ClaimDefault(p)
         \/ \E key \in Wallets, returned \in Nat : SettlePosition(key, p, returned)
  PROVE  \E slash \in Nat : Settles(p, slash)
<1> DEFINE a == AgentOf(p)
<1>1. /\ a \in Agents /\ agent[a] \in AgentRecord /\ position[p] \in PositionRecord
      /\ position[p].locked_collateral \in Nat
  BY PositionKeys DEF TypeOK, PositionRecord
<1>2. CASE CancelPosition(p)
  <2>1. Settles(p, 0)
    BY <1>1, <1>2 DEF CancelPosition, Released, Settles, IsLive, TypeOK, AgentRecord, PositionRecord
  <2> QED BY <2>1
<1>3. CASE ClaimDefault(p)
  <2>1. Settles(p, position[p].locked_collateral)
    BY <1>1, <1>3
       DEF ClaimDefault, Released, Slashed, Debit, Settles, IsLive, TypeOK, AgentRecord,
           PositionRecord
  <2> QED BY <1>1, <2>1
<1>4. ASSUME NEW key \in Wallets, NEW returned \in Nat, SettlePosition(key, p, returned)
      PROVE  \E slash \in Nat : Settles(p, slash)
  <2> DEFINE pos       == position[p]
             declined  == pos.status = "Open"
             effective == IF declined THEN pos.principal ELSE returned
             s         == ComputeSettlement(pos.principal, effective, pos.fee_bps,
                                            pos.max_drawdown_bps, pos.locked_collateral)
             after     == Debit(wallet, key, IF declined THEN 0 ELSE returned)
             fee       == FeePaid(after, OperatorOf[a], TraderOf(p), s.fee)
             breach    == BreachOf(~declined /\ DeadlineReached(p), s.slash)
             slashed   == Slashed(agent[a], s.slash)
  <2>1. s.slash \in 0..pos.locked_collateral
    <3>1. /\ pos.principal \in Nat /\ pos.fee_bps \in Nat /\ pos.max_drawdown_bps \in Nat
          /\ pos.locked_collateral \in Nat /\ effective \in Nat
      BY <1>1 DEF PositionRecord
    <3> HIDE DEF pos, effective
    <3> QED BY <3>1, SettlementTyped
  <2>2. /\ agent' = [agent EXCEPT ![a] =
              [Released(slashed, pos)
                 EXCEPT !.settled_positions = IF declined THEN @ ELSE @ + 1,
                        !.breach_count = IF breach = "None" THEN @ ELSE @ + 1,
                        !.fees_earned = @ + fee]]
        /\ position' = [position EXCEPT ![p].status = "Settled", ![p].breach = breach,
                                        ![p].returned = effective, ![p].slashed = s.slash,
                                        ![p].fee_paid = fee, ![p].closed_at = now]
        /\ agent_vault' = Debit(agent_vault, a, s.slash)
        /\ position_vault' = [position_vault EXCEPT ![p] = 0]
        /\ agent[a].total_collateral >= s.slash
        /\ IsLive(p)
    BY <1>4 DEF SettlePosition, CanSlash
  <2> DEFINE slash == s.slash
  <2> HIDE DEF effective, s, after, fee, breach
  <2>3. /\ slashed \in AgentRecord
        /\ slashed.status = agent[a].status
        /\ slashed.locked_collateral = agent[a].locked_collateral
        /\ slashed.capital_managed = agent[a].capital_managed
        /\ slashed.open_positions = agent[a].open_positions
        /\ slashed.total_collateral = agent[a].total_collateral - slash
    <3>1. slash \in Nat
      BY <1>1, <2>1
    <3>2. agent[a].total_collateral - slash \in Nat /\ agent[a].slashed_total + slash \in Nat
      BY <1>1, <2>2, <3>1 DEF AgentRecord
    <3>3. ASSUME NEW x \in Nat, NEW y \in Nat
          PROVE  [agent[a] EXCEPT !.total_collateral = x, !.slashed_total = y].total_collateral = x
      BY <1>1 DEF AgentRecord
    <3> QED BY <1>1, <2>2, <3>1, <3>2, <3>3, SlashedTyped DEF Slashed
  <2> HIDE DEF slashed
  <2>4. /\ \A b \in Agents \ {a} : agent'[b] = agent[b]
        /\ agent'[a].status = slashed.status
        /\ agent'[a].locked_collateral = slashed.locked_collateral - pos.locked_collateral
        /\ agent'[a].capital_managed = slashed.capital_managed - pos.principal
        /\ agent'[a].open_positions = slashed.open_positions - 1
        /\ agent'[a].total_collateral = slashed.total_collateral
    BY <1>1, <2>2, <2>3 DEF Released, TypeOK, AgentRecord
  <2>5. /\ \A q \in Positions \ {p} : /\ position'[q] = position[q]
                                      /\ position_vault'[q] = position_vault[q]
        /\ position'[p].status = "Settled"
    BY <1>1, <2>2 DEF TypeOK, PositionRecord
  <2>6. /\ \A b \in Agents \ {a} : agent_vault'[b] = agent_vault[b]
        /\ agent_vault'[a] = agent_vault[a] - slash
    BY <1>1, <2>2 DEF Debit, TypeOK
  <2>7. Settles(p, slash)
    BY <2>1, <2>2, <2>3, <2>4, <2>5, <2>6 DEF Settles
  <2> QED BY <1>1, <2>1, <2>7
<1> QED BY <1>2, <1>3, <1>4
-----------------------------------------------------------------------------
\* What open_position does to the agent's money and to the vaults.
Opens(p) ==
  LET a == AgentOf(p)
  IN  /\ position[p].status = "Absent"
      /\ \A b \in Agents \ {a} : agent'[b] = agent[b]
      /\ agent[a].status = "Active"
      /\ agent'[a].total_collateral = agent[a].total_collateral
      /\ agent'[a].locked_collateral
           = agent[a].locked_collateral + position'[p].locked_collateral
      /\ position'[p].locked_collateral <= FreeCollateral(agent[a])
      /\ \A q \in Positions \ {p} : /\ position'[q] = position[q]
                                    /\ position_vault'[q] = position_vault[q]
      /\ position'[p].status = "Open"
      /\ position_vault'[p]
           = position_vault[p] + (position'[p].principal + RENT_EXEMPT_MINIMUM)
      /\ agent_vault' = agent_vault

\* open_position does that, with the terms in force and for a positive amount.
LEMMA OpenOpens ==
  ASSUME TypeOK, NEW p \in Positions, NEW amount \in Nat, NEW duration \in Nat,
         OpenPosition(p, amount, duration)
  PROVE  LET terms == agent[AgentOf(p)].terms
         IN  /\ Opens(p)
             /\ amount > 0
             /\ position'[p].principal = amount
             /\ position'[p].locked_collateral
                  = RequiredCollateral(amount, terms.collateral_ratio_bps)
             /\ position'[p].max_drawdown_bps = terms.max_drawdown_bps
             /\ RatioAndDrawdownFit(terms.collateral_ratio_bps, terms.max_drawdown_bps)
<1> DEFINE a      == AgentOf(p)
           terms  == agent[a].terms
           locked == RequiredCollateral(amount, terms.collateral_ratio_bps)
           new    == NewPosition(amount, locked, terms, duration)
<1>1. a \in Agents /\ agent[a] \in AgentRecord
  BY PositionKeys DEF TypeOK
<1>2. /\ new.principal = amount /\ new.locked_collateral = locked
      /\ new.max_drawdown_bps = terms.max_drawdown_bps /\ new.status = "Open"
  BY DEF NewPosition
<1>3. /\ position[p].status = "Absent" /\ amount > 0 /\ agent[a].status = "Active"
      /\ RatioAndDrawdownFit(terms.collateral_ratio_bps, terms.max_drawdown_bps)
      /\ locked <= FreeCollateral(agent[a])
      /\ agent' = [agent EXCEPT ![a].locked_collateral = @ + locked,
                                ![a].capital_managed   = @ + amount,
                                ![a].open_positions    = @ + 1]
      /\ position' = [position EXCEPT ![p] = new]
      /\ position_vault' = Credit(position_vault, p, amount + RENT_EXEMPT_MINIMUM)
      /\ agent_vault' = agent_vault
  BY DEF OpenPosition
<1> HIDE DEF new, locked, terms
<1>4. Opens(p)
  BY <1>1, <1>2, <1>3 DEF Opens, Credit, TypeOK, AgentRecord
<1> QED BY <1>2, <1>3, <1>4 DEF TypeOK, new, locked, terms
-----------------------------------------------------------------------------
(* The collateral backs every bond *)

\* Nothing is bonded at first, and the vaults of agents hold their rent.
LEMMA InitBacks == Init => VaultBacksBonds
<1> SUFFICES ASSUME Init, NEW a \in Agents, agent[a].status # "Absent"
             PROVE  /\ agent[a].locked_collateral <= agent[a].total_collateral
                    /\ agent_vault[a] >= RENT_EXEMPT_MINIMUM + agent[a].total_collateral
  BY DEF VaultBacksBonds
<1>1. agent[a] \in AgentAtStart(a) /\ agent_vault[a] = RENT_EXEMPT_MINIMUM
  BY DEF Init
<1>2. agent[a].locked_collateral = 0 /\ agent[a].total_collateral = 0
  BY <1>1 DEF AgentAtStart, AbsentAgent, LegacyAgent, NewAgent
<1> QED BY <1>1, <1>2, ProgramAssumption DEF ProgramAssumption

\* The operator can take back no more than what guarantees no position.
LEMMA OperatorBacks ==
  ASSUME TypeOK, VaultBacksBonds, NEW a \in Agents, OperatorNext(a)
  PROVE  VaultBacksBonds'
<1> USE DEF TypeOK, AgentRecord, VaultBacksBonds
<1>0. agent[a] \in AgentRecord /\ RENT_EXEMPT_MINIMUM \in Nat /\ agent_vault[a] \in Nat
  BY ProgramAssumption DEF ProgramAssumption
<1>1. ASSUME NEW i \in Identities, NEW t \in Terms, CreateAgent(a, i, t)
      PROVE  VaultBacksBonds'
  <2>1. /\ \A b \in Agents \ {a} : agent'[b] = agent[b] /\ agent_vault'[b] = agent_vault[b]
        /\ agent'[a].locked_collateral = 0 /\ agent'[a].total_collateral = 0
        /\ agent_vault'[a] = agent_vault[a] + RENT_EXEMPT_MINIMUM
    BY <1>1 DEF CreateAgent, NewAgent, Credit
  <2> QED BY <1>0, <2>1
<1>2. ASSUME NEW i \in Identities, NEW t \in Terms, UpdateAgent(a, i, t)
      PROVE  VaultBacksBonds'
  BY <1>2 DEF UpdateAgent
<1>3. ASSUME PublishAgent(a) PROVE VaultBacksBonds'
  BY <1>3 DEF PublishAgent
<1>4. ASSUME NEW key \in ExecutorKeys, SetExecutor(a, key) PROVE VaultBacksBonds'
  BY <1>4 DEF SetExecutor
<1>5. ASSUME NEW accepting \in BOOLEAN, SetAccepting(a, accepting) PROVE VaultBacksBonds'
  BY <1>5 DEF SetAccepting, IsPublished
<1>6. ASSUME NEW amount \in Amounts, DepositCollateral(a, amount) PROVE VaultBacksBonds'
  <2>1. /\ \A b \in Agents \ {a} : agent'[b] = agent[b] /\ agent_vault'[b] = agent_vault[b]
        /\ agent'[a].locked_collateral = agent[a].locked_collateral
        /\ agent[a].status # "Absent" /\ amount > 0 /\ amount \in Nat
        /\ agent'[a].total_collateral = agent[a].total_collateral + amount
        /\ agent_vault'[a] = agent_vault[a] + amount
    BY <1>6, ProgramAssumption DEF DepositCollateral, Credit, ProgramAssumption
  <2> QED BY <1>0, <2>1
<1>7. ASSUME NEW amount \in Amounts, WithdrawCollateral(a, amount) PROVE VaultBacksBonds'
  <2>1. /\ \A b \in Agents \ {a} : agent'[b] = agent[b] /\ agent_vault'[b] = agent_vault[b]
        /\ agent'[a].locked_collateral = agent[a].locked_collateral
        /\ agent[a].status # "Absent" /\ amount \in Nat
        /\ amount <= FreeCollateral(agent[a])
        /\ agent'[a].total_collateral = agent[a].total_collateral - amount
        /\ agent_vault'[a] = agent_vault[a] - amount
    BY <1>7, ProgramAssumption DEF WithdrawCollateral, Debit, ProgramAssumption
  <2> QED BY <1>0, <2>1 DEF FreeCollateral
<1> QED BY <1>1, <1>2, <1>3, <1>4, <1>5, <1>6, <1>7 DEF OperatorNext

\* A position opens only where the free collateral covers its bond, and its end
\* takes no more than that bond.
LEMMA PositionBacks ==
  ASSUME TypeOK, TypeOK', VaultBacksBonds, NEW p \in Positions,
         Opens(p) \/ \E slash \in Nat : Settles(p, slash)
  PROVE  VaultBacksBonds'
<1> DEFINE a == AgentOf(p)
<1>1. /\ a \in Agents /\ agent[a] \in AgentRecord /\ agent_vault[a] \in Nat
      /\ position'[p].locked_collateral \in Nat /\ position[p].locked_collateral \in Nat
      /\ RENT_EXEMPT_MINIMUM \in Nat
  BY PositionKeys, ProgramAssumption DEF TypeOK, PositionRecord, ProgramAssumption
<1> HIDE DEF a
<1>2. CASE Opens(p)
  BY <1>1, <1>2 DEF Opens, VaultBacksBonds, FreeCollateral, AgentRecord, a
<1>3. ASSUME NEW slash \in Nat, Settles(p, slash) PROVE VaultBacksBonds'
  BY <1>1, <1>3 DEF Settles, VaultBacksBonds, AgentRecord, a
<1> QED BY <1>2, <1>3

\* No step eats into a bond.
LEMMA NextBacks == TypeOK /\ TypeOK' /\ VaultBacksBonds /\ [Next]_vars => VaultBacksBonds'
<1> SUFFICES ASSUME TypeOK, TypeOK', VaultBacksBonds, [Next]_vars PROVE VaultBacksBonds'
  OBVIOUS
<1>1. ASSUME NEW a \in Agents, OperatorNext(a) PROVE VaultBacksBonds'
  BY <1>1, OperatorBacks
<1>2. ASSUME NEW p \in Positions, TraderNext(p) \/ ExecutorNext(p) PROVE VaultBacksBonds'
  <2>1. /\ \A returned \in Returns : returned \in Nat
        /\ \A amount \in Amounts : amount \in Nat
    BY ProgramAssumption DEF ProgramAssumption
  <2>2. \A duration \in MIN_POSITION_DURATION..MAX_POSITION_DURATION : duration \in Nat
    BY ConstantsAssumption DEF ConstantsAssumption
  <2>3. ASSUME NEW key \in Wallets, DrawFunds(key, p) PROVE VaultBacksBonds'
    BY <2>3 DEF DrawFunds, VaultBacksBonds
  <2> QED BY <1>2, <2>1, <2>2, <2>3, OpenOpens, ClosesSettle, PositionBacks
          DEF TraderNext, ExecutorNext
<1>3. ASSUME NEW from \in Wallets, NEW amount \in Gifts, SystemTransfer(from, amount)
      PROVE  VaultBacksBonds'
  <2>1. amount \in Nat /\ RENT_EXEMPT_MINIMUM \in Nat
    BY ProgramAssumption DEF ProgramAssumption
  <2>2. \A a \in Agents : agent_vault'[a] >= agent_vault[a]
    BY <1>3, <2>1 DEF SystemTransfer, Credit, TypeOK
  <2>3. agent' = agent
    BY <1>3 DEF SystemTransfer
  <2> QED BY <2>1, <2>2, <2>3 DEF VaultBacksBonds, TypeOK, AgentRecord
<1>4. CASE Tick \/ UNCHANGED vars
  BY <1>4 DEF Tick, vars, VaultBacksBonds
<1> QED BY <1>1, <1>2, <1>3, <1>4 DEF Next

\* In every reachable state the collateral recorded covers every bond and the
\* vault holds it: no withdrawal, slash or settlement eats another bond.
THEOREM BondsAlwaysBacked == Spec => []VaultBacksBonds
BY InitTypeOK, NextTypeOK, InitBacks, NextBacks, PTL DEF Spec
-----------------------------------------------------------------------------
(* The position vaults hold what is owed *)

\* No instruction of the operator touches a position or its vault.
LEMMA OperatorLeavesPositions ==
  ASSUME NEW a \in Agents, OperatorNext(a)
  PROVE  position' = position /\ position_vault' = position_vault
BY DEF OperatorNext, CreateAgent, UpdateAgent, PublishAgent, SetExecutor, SetAccepting,
       DepositCollateral, WithdrawCollateral

\* draw_funds takes the principal and leaves the rent.
LEMMA DrawHolds ==
  ASSUME TypeOK, VaultHoldsPrincipal, NEW p \in Positions, NEW key \in Wallets,
         DrawFunds(key, p)
  PROVE  VaultHoldsPrincipal'
<1>1. /\ position[p] \in PositionRecord /\ position_vault[p] \in Nat
      /\ RENT_EXEMPT_MINIMUM \in Nat
  BY ProgramAssumption DEF TypeOK, ProgramAssumption
<1>2. /\ \A q \in Positions \ {p} : /\ position'[q] = position[q]
                                    /\ position_vault'[q] = position_vault[q]
      /\ position[p].status = "Open" /\ position'[p].status = "Trading"
      /\ position_vault'[p] = position_vault[p] - position[p].principal
  BY <1>1 DEF DrawFunds, Debit, TypeOK, PositionRecord
<1> QED BY <1>1, <1>2 DEF VaultHoldsPrincipal, PositionRecord

\* Opening pays principal and rent into the vault, and closing empties it.
LEMMA PositionHolds ==
  ASSUME TypeOK, TypeOK', VaultHoldsPrincipal, NEW p \in Positions,
         Opens(p) \/ \E slash \in Nat : Settles(p, slash)
  PROVE  VaultHoldsPrincipal'
<1>1. /\ position_vault[p] \in Nat /\ RENT_EXEMPT_MINIMUM \in Nat
      /\ position'[p].principal \in Nat
  BY ProgramAssumption DEF TypeOK, ProgramAssumption, PositionRecord
<1>2. CASE Opens(p)
  BY <1>1, <1>2 DEF Opens, VaultHoldsPrincipal
<1>3. ASSUME NEW slash \in Nat, Settles(p, slash) PROVE VaultHoldsPrincipal'
  BY <1>3 DEF Settles, VaultHoldsPrincipal
<1> QED BY <1>2, <1>3

\* No step takes a principal that was not drawn, or the rent of a live position.
LEMMA NextHolds ==
  TypeOK /\ TypeOK' /\ VaultHoldsPrincipal /\ [Next]_vars => VaultHoldsPrincipal'
<1> SUFFICES ASSUME TypeOK, TypeOK', VaultHoldsPrincipal, [Next]_vars
             PROVE  VaultHoldsPrincipal'
  OBVIOUS
<1>1. ASSUME NEW a \in Agents, OperatorNext(a) PROVE VaultHoldsPrincipal'
  BY <1>1, OperatorLeavesPositions DEF VaultHoldsPrincipal
<1>2. ASSUME NEW p \in Positions, TraderNext(p) \/ ExecutorNext(p) PROVE VaultHoldsPrincipal'
  <2>1. /\ \A returned \in Returns : returned \in Nat
        /\ \A amount \in Amounts : amount \in Nat
    BY ProgramAssumption DEF ProgramAssumption
  <2>2. \A duration \in MIN_POSITION_DURATION..MAX_POSITION_DURATION : duration \in Nat
    BY ConstantsAssumption DEF ConstantsAssumption
  <2> QED BY <1>2, <2>1, <2>2, DrawHolds, OpenOpens, ClosesSettle, PositionHolds
          DEF TraderNext, ExecutorNext
<1>3. ASSUME NEW from \in Wallets, NEW amount \in Gifts, SystemTransfer(from, amount)
      PROVE  VaultHoldsPrincipal'
  <2>1. amount \in Nat /\ RENT_EXEMPT_MINIMUM \in Nat
    BY ProgramAssumption DEF ProgramAssumption
  <2>2. \A p \in Positions : position_vault'[p] >= position_vault[p]
    BY <1>3, <2>1 DEF SystemTransfer, Credit, TypeOK
  <2>3. position' = position
    BY <1>3 DEF SystemTransfer
  <2> QED BY <2>1, <2>2, <2>3 DEF VaultHoldsPrincipal, TypeOK, PositionRecord
<1>4. CASE Tick \/ UNCHANGED vars
  BY <1>4 DEF Tick, vars, VaultHoldsPrincipal
<1> QED BY <1>1, <1>2, <1>3, <1>4 DEF Next

\* In every reachable state the vault of an open position holds its principal,
\* and that of a live position its rent.
THEOREM PrincipalAlwaysHeld == Spec => []VaultHoldsPrincipal
<1>1. Init => VaultHoldsPrincipal
  BY DEF Init, AbsentPosition, VaultHoldsPrincipal
<1> QED BY <1>1, InitTypeOK, NextTypeOK, NextHolds, PTL DEF Spec
-----------------------------------------------------------------------------
(* Settling nothing costs the bond *)

\* A live position locked what some ratio requires, and that ratio and the
\* position's own tolerance fit in 100%, whatever its agent's terms are now.
LiveFit ==
  \A p \in Positions : IsLive(p) =>
    /\ position[p].principal > 0
    /\ \E ratio \in Nat :
         /\ position[p].locked_collateral = RequiredCollateral(position[p].principal, ratio)
         /\ RatioAndDrawdownFit(ratio, position[p].max_drawdown_bps)

\* open_position checks the fit itself, so the terms of an agent published
\* before the check existed cannot break it.
LEMMA OpenFit ==
  ASSUME TypeOK, LiveFit, NEW p \in Positions, NEW amount \in Nat, NEW duration \in Nat,
         OpenPosition(p, amount, duration)
  PROVE  LiveFit'
<1>1. agent[AgentOf(p)].terms.collateral_ratio_bps \in Nat
  BY PositionKeys DEF TypeOK, AgentRecord, AgentTerms
<1>2. \A q \in Positions \ {p} : position'[q] = position[q]
  BY OpenOpens DEF Opens
<1> QED BY <1>1, <1>2, OpenOpens DEF LiveFit, IsLive

\* No step changes what a live position locked or tolerates.
LEMMA NextFit == TypeOK /\ LiveFit /\ [Next]_vars => LiveFit'
<1> SUFFICES ASSUME TypeOK, LiveFit, [Next]_vars PROVE LiveFit'
  OBVIOUS
<1>1. ASSUME NEW a \in Agents, OperatorNext(a) PROVE LiveFit'
  BY <1>1, OperatorLeavesPositions DEF LiveFit, IsLive
<1>2. ASSUME NEW p \in Positions, NEW slash \in Nat, Settles(p, slash) PROVE LiveFit'
  BY <1>2 DEF Settles, LiveFit, IsLive
<1>3. ASSUME NEW p \in Positions, TraderNext(p) \/ ExecutorNext(p) PROVE LiveFit'
  <2>1. /\ \A returned \in Returns : returned \in Nat
        /\ \A amount \in Amounts : amount \in Nat
    BY ProgramAssumption DEF ProgramAssumption
  <2>2. \A duration \in MIN_POSITION_DURATION..MAX_POSITION_DURATION : duration \in Nat
    BY ConstantsAssumption DEF ConstantsAssumption
  <2>3. ASSUME NEW key \in Wallets, DrawFunds(key, p) PROVE LiveFit'
    <3>1. \A q \in Positions :
            /\ position'[q].locked_collateral = position[q].locked_collateral
            /\ position'[q].principal = position[q].principal
            /\ position'[q].max_drawdown_bps = position[q].max_drawdown_bps
            /\ IsLive(q)' => IsLive(q)
      BY <2>3 DEF DrawFunds, IsLive, TypeOK, PositionRecord
    <3> QED BY <3>1 DEF LiveFit
  <2> QED BY <1>2, <1>3, <2>1, <2>2, <2>3, OpenFit, ClosesSettle
          DEF TraderNext, ExecutorNext
<1>4. CASE UNCHANGED position
  BY <1>4 DEF LiveFit, IsLive
<1> QED BY <1>1, <1>3, <1>4 DEF Next, SystemTransfer, Tick, vars

\* For every position ever opened, under whatever terms, a settlement that
\* returns nothing slashes the whole bond: it is never cheaper than defaulting.
THEOREM SettlingNothingAlwaysCosts == Spec => []SettlingNothingCostsTheBond
<1>1. Init => LiveFit
  BY DEF Init, AbsentPosition, LiveFit, IsLive
<1>2. TypeOK /\ LiveFit => SettlingNothingCostsTheBond
  <2> SUFFICES ASSUME TypeOK, LiveFit, NEW p \in Positions, IsLive(p)
               PROVE  LET pos == position[p]
                      IN  ComputeSettlement(pos.principal, 0, pos.fee_bps,
                            pos.max_drawdown_bps, pos.locked_collateral).slash
                            = pos.locked_collateral
    BY DEF SettlingNothingCostsTheBond
  <2>1. /\ position[p].principal \in Nat \ {0} /\ position[p].fee_bps \in Nat
        /\ position[p].max_drawdown_bps \in Nat
    BY DEF TypeOK, LiveFit, PositionRecord
  <2>2. PICK ratio \in Nat :
          /\ position[p].locked_collateral = RequiredCollateral(position[p].principal, ratio)
          /\ RatioAndDrawdownFit(ratio, position[p].max_drawdown_bps)
    BY DEF LiveFit
  <2> QED BY <2>1, <2>2, ReturningNothingCostsTheBond
<1> QED BY <1>1, <1>2, InitTypeOK, NextTypeOK, NextFit, PTL DEF Spec
-----------------------------------------------------------------------------
(* Sums of lamports: adding and removing one position *)

\* The lamports f[p] of the positions in S are finitely many, n in all.
SumsTo(f, S, n) == IsFiniteSet(Lamports(f, S)) /\ Total(f, S) = n

\* No position has no lamports.
LEMMA SumOfNone ==
  ASSUME NEW f
  PROVE  SumsTo(f, {}, 0)
<1>1. Lamports(f, {}) = {}
  BY DEF Lamports
<1> QED BY <1>1, FS_EmptySet DEF SumsTo, Total

\* A sum depends on the terms only.
LEMMA SumSame ==
  ASSUME NEW f, NEW g, NEW S, NEW n, SumsTo(f, S, n), \A q \in S : g[q] = f[q]
  PROVE  SumsTo(g, S, n)
<1>1. Lamports(g, S) = Lamports(f, S)
  BY DEF Lamports
<1> QED BY <1>1 DEF SumsTo, Total

\* One position has as many lamports as f says.
LEMMA LamportsOfOne ==
  ASSUME NEW p, NEW k \in Nat
  PROVE  IsFiniteSet({p} \X (1..k)) /\ Cardinality({p} \X (1..k)) = k
<1>1. IsFiniteSet({p}) /\ Cardinality({p}) = 1
  BY FS_Singleton
<1>2. IsFiniteSet(1..k) /\ Cardinality(1..k) = k
  BY FS_Interval
<1>3. /\ IsFiniteSet({p} \X (1..k))
      /\ Cardinality({p} \X (1..k)) = Cardinality({p}) * Cardinality(1..k)
  BY <1>1, <1>2, FS_Product
<1>4. 1 * k = k
  BY SMT
<1> QED BY <1>1, <1>2, <1>3, <1>4

\* A position that joins adds its term.
LEMMA SumWith ==
  ASSUME NEW f, NEW g, NEW S, NEW n \in Int, NEW p, SumsTo(f, S, n), p \notin S,
         g[p] \in Nat, \A q \in S : g[q] = f[q]
  PROVE  SumsTo(g, S \cup {p}, n + g[p])
<1> DEFINE one == {p} \X (1..g[p])
<1>1. Lamports(g, S \cup {p}) = Lamports(f, S) \cup one
  BY DEF Lamports
<1>2. Lamports(f, S) \cap one = {}
  BY DEF Lamports
<1>3. IsFiniteSet(one) /\ Cardinality(one) = g[p]
  BY LamportsOfOne
<1>4. IsFiniteSet(Lamports(f, S)) /\ Cardinality(Lamports(f, S)) = n
  BY DEF SumsTo, Total
<1> HIDE DEF one
<1>5. /\ IsFiniteSet(Lamports(f, S) \cup one)
      /\ Cardinality(Lamports(f, S) \cup one)
           = Cardinality(Lamports(f, S)) + Cardinality(one) - Cardinality(Lamports(f, S) \cap one)
  BY <1>3, <1>4, FS_Union
<1>6. Cardinality(Lamports(f, S) \cap one) = 0
  BY <1>2, FS_EmptySet
<1>7. Cardinality(Lamports(f, S) \cup one) = n + g[p]
  BY <1>3, <1>4, <1>5, <1>6, SMT
<1> QED BY <1>1, <1>5, <1>7 DEF SumsTo, Total

\* A position that leaves takes its term away.
LEMMA SumWithout ==
  ASSUME NEW f, NEW g, NEW S, NEW n \in Int, NEW p \in S, SumsTo(f, S, n),
         f[p] \in Nat, \A q \in S \ {p} : g[q] = f[q]
  PROVE  SumsTo(g, S \ {p}, n - f[p])
<1> DEFINE one == {p} \X (1..f[p])
<1>1. Lamports(g, S \ {p}) = Lamports(f, S) \ one
  BY DEF Lamports
<1>2. Lamports(f, S) \cap one = one
  BY DEF Lamports
<1>3. IsFiniteSet(one) /\ Cardinality(one) = f[p]
  BY LamportsOfOne
<1>4. IsFiniteSet(Lamports(f, S)) /\ Cardinality(Lamports(f, S)) = n
  BY DEF SumsTo, Total
<1> HIDE DEF one
<1>5. /\ IsFiniteSet(Lamports(f, S) \ one)
      /\ Cardinality(Lamports(f, S) \ one)
           = Cardinality(Lamports(f, S)) - Cardinality(Lamports(f, S) \cap one)
  BY <1>4, FS_Difference
<1>6. Cardinality(Lamports(f, S) \ one) = n - f[p]
  BY <1>2, <1>3, <1>4, <1>5
<1> QED BY <1>1, <1>5, <1>6 DEF SumsTo, Total
-----------------------------------------------------------------------------
(* The counters *)

\* The inductive invariant: the sums, the finiteness they rest on, and that no
\* position is live before its agent exists (create_agent resets the counters).
CountersInv ==
  \A a \in Agents :
    /\ SumsTo(Bonds, LiveOf(a), agent[a].locked_collateral)
    /\ SumsTo(Principals, LiveOf(a), agent[a].capital_managed)
    /\ IsFiniteSet(LiveOf(a))
    /\ Cardinality(LiveOf(a)) = agent[a].open_positions
    /\ agent[a].status = "Absent" =>
         /\ LiveOf(a) = {}
         /\ agent[a].locked_collateral = 0
         /\ agent[a].capital_managed = 0
         /\ agent[a].open_positions = 0

\* A step that keeps each position's reservation and every counter.
Keeps ==
  /\ \A p \in Positions :
       /\ position'[p].locked_collateral = position[p].locked_collateral
       /\ position'[p].principal = position[p].principal
       /\ IsLive(p)' <=> IsLive(p)
  /\ \A a \in Agents :
       /\ agent'[a].locked_collateral = agent[a].locked_collateral
       /\ agent'[a].capital_managed = agent[a].capital_managed
       /\ agent'[a].open_positions = agent[a].open_positions
       /\ agent'[a].status = "Absent" => agent[a].status = "Absent"

\* A step that makes p live and adds its reservation.
Reserves(p) ==
  LET a == AgentOf(p)
  IN  /\ ~IsLive(p) /\ IsLive(p)'
      /\ \A q \in Positions \ {p} : position'[q] = position[q]
      /\ \A b \in Agents \ {a} : agent'[b] = agent[b]
      /\ agent'[a].status # "Absent"
      /\ agent'[a].locked_collateral
           = agent[a].locked_collateral + position'[p].locked_collateral
      /\ agent'[a].capital_managed = agent[a].capital_managed + position'[p].principal
      /\ agent'[a].open_positions = agent[a].open_positions + 1

\* A step that closes p and takes its reservation away.
Releases(p) ==
  LET a == AgentOf(p)
  IN  /\ IsLive(p) /\ ~IsLive(p)'
      /\ \A q \in Positions \ {p} : position'[q] = position[q]
      /\ \A b \in Agents \ {a} : agent'[b] = agent[b]
      /\ agent'[a].status = agent[a].status
      /\ agent'[a].locked_collateral
           = agent[a].locked_collateral - position[p].locked_collateral
      /\ agent'[a].capital_managed = agent[a].capital_managed - position[p].principal
      /\ agent'[a].open_positions = agent[a].open_positions - 1
-----------------------------------------------------------------------------
\* The live positions of an agent, by the agent and the status.
LEMMA LiveMembers ==
  /\ \A a, p : p \in LiveOf(a) <=> p \in Positions /\ AgentOf(p) = a /\ IsLive(p)
  /\ \A a, p : p \in LiveOf(a)' <=> p \in Positions /\ AgentOf(p) = a /\ IsLive(p)'
BY DEF LiveOf, PositionsOf, IsLive

\* A step that keeps the reservations keeps the sums.
LEMMA KeepsCounters ==
  ASSUME CountersInv, Keeps
  PROVE  CountersInv'
<1> SUFFICES ASSUME NEW a \in Agents
             PROVE  /\ SumsTo(Bonds', LiveOf(a)', agent'[a].locked_collateral)
                    /\ SumsTo(Principals', LiveOf(a)', agent'[a].capital_managed)
                    /\ IsFiniteSet(LiveOf(a)')
                    /\ Cardinality(LiveOf(a)') = agent'[a].open_positions
                    /\ agent'[a].status = "Absent" =>
                         /\ LiveOf(a)' = {}
                         /\ agent'[a].locked_collateral = 0
                         /\ agent'[a].capital_managed = 0
                         /\ agent'[a].open_positions = 0
  BY DEF CountersInv
<1>1. LiveOf(a)' = LiveOf(a)
  <2>1. \A p \in Positions : IsLive(p)' <=> IsLive(p)
    BY DEF Keeps
  <2> QED BY <2>1, LiveMembers
<1>2. /\ \A p \in LiveOf(a) : Bonds'[p] = Bonds[p]
      /\ \A p \in LiveOf(a) : Principals'[p] = Principals[p]
  BY LiveMembers DEF Keeps, Bonds, Principals
<1>3. SumsTo(Bonds', LiveOf(a), agent[a].locked_collateral)
  BY <1>2, SumSame DEF CountersInv
<1>4. SumsTo(Principals', LiveOf(a), agent[a].capital_managed)
  BY <1>2, SumSame DEF CountersInv
<1> QED BY <1>1, <1>3, <1>4 DEF CountersInv, Keeps

\* A step that opens a position keeps the sums.
LEMMA ReservesCounters ==
  ASSUME TypeOK, TypeOK', CountersInv, NEW p \in Positions, Reserves(p)
  PROVE  CountersInv'
<1> SUFFICES ASSUME NEW b \in Agents
             PROVE  /\ SumsTo(Bonds', LiveOf(b)', agent'[b].locked_collateral)
                    /\ SumsTo(Principals', LiveOf(b)', agent'[b].capital_managed)
                    /\ IsFiniteSet(LiveOf(b)')
                    /\ Cardinality(LiveOf(b)') = agent'[b].open_positions
                    /\ agent'[b].status = "Absent" =>
                         /\ LiveOf(b)' = {}
                         /\ agent'[b].locked_collateral = 0
                         /\ agent'[b].capital_managed = 0
                         /\ agent'[b].open_positions = 0
  BY DEF CountersInv
<1>1. /\ \A q \in Positions : Bonds[q] = position[q].locked_collateral
      /\ \A q \in Positions : Bonds'[q] = position'[q].locked_collateral
      /\ \A q \in Positions : Principals[q] = position[q].principal
      /\ \A q \in Positions : Principals'[q] = position'[q].principal
  BY DEF Bonds, Principals
<1>2. /\ \A q \in LiveOf(b) : q \in Positions /\ q # p
      /\ p \notin LiveOf(b)
  BY LiveMembers DEF Reserves
<1>3. /\ \A q \in LiveOf(b) : Bonds'[q] = Bonds[q]
      /\ \A q \in LiveOf(b) : Principals'[q] = Principals[q]
  BY <1>1, <1>2 DEF Reserves
<1>4. CASE b # AgentOf(p)
  <2>1. LiveOf(b)' = LiveOf(b)
    <3>1. \A q \in Positions : AgentOf(q) = b => (IsLive(q)' <=> IsLive(q))
      BY <1>4 DEF Reserves, IsLive
    <3> QED BY <3>1, LiveMembers
  <2>2. agent'[b] = agent[b]
    BY <1>4 DEF Reserves
  <2>3. SumsTo(Bonds', LiveOf(b), agent[b].locked_collateral)
    BY <1>3, SumSame DEF CountersInv
  <2>4. SumsTo(Principals', LiveOf(b), agent[b].capital_managed)
    BY <1>3, SumSame DEF CountersInv
  <2> QED BY <2>1, <2>2, <2>3, <2>4 DEF CountersInv
<1>5. CASE b = AgentOf(p)
  <2>1. LiveOf(b)' = LiveOf(b) \cup {p}
    <3>1. \A q \in Positions \ {p} : IsLive(q)' <=> IsLive(q)
      BY DEF Reserves, IsLive
    <3>2. IsLive(p)'
      BY DEF Reserves
    <3> QED BY <1>5, <3>1, <3>2, LiveMembers
  <2>2. /\ agent[b].locked_collateral \in Int /\ agent[b].capital_managed \in Int
        /\ agent[b].open_positions \in Nat
    BY DEF TypeOK, AgentRecord
  <2>3. Bonds'[p] \in Nat /\ Principals'[p] \in Nat
    BY <1>1 DEF TypeOK, PositionRecord
  <2>4. SumsTo(Bonds', LiveOf(b) \cup {p}, agent[b].locked_collateral + Bonds'[p])
    BY <1>2, <1>3, <2>2, <2>3, SumWith DEF CountersInv
  <2>5. SumsTo(Principals', LiveOf(b) \cup {p}, agent[b].capital_managed + Principals'[p])
    BY <1>2, <1>3, <2>2, <2>3, SumWith DEF CountersInv
  <2>6. /\ IsFiniteSet(LiveOf(b) \cup {p})
        /\ Cardinality(LiveOf(b) \cup {p}) = agent[b].open_positions + 1
    BY <1>2, FS_AddElement DEF CountersInv
  <2>7. /\ agent'[b].locked_collateral = agent[b].locked_collateral + Bonds'[p]
        /\ agent'[b].capital_managed = agent[b].capital_managed + Principals'[p]
        /\ agent'[b].open_positions = agent[b].open_positions + 1
        /\ agent'[b].status # "Absent"
    BY <1>1, <1>5 DEF Reserves
  <2> QED BY <2>1, <2>4, <2>5, <2>6, <2>7
<1> QED BY <1>4, <1>5

\* A step that closes a position keeps the sums.
LEMMA ReleasesCounters ==
  ASSUME TypeOK, CountersInv, NEW p \in Positions, Releases(p)
  PROVE  CountersInv'
<1> SUFFICES ASSUME NEW b \in Agents
             PROVE  /\ SumsTo(Bonds', LiveOf(b)', agent'[b].locked_collateral)
                    /\ SumsTo(Principals', LiveOf(b)', agent'[b].capital_managed)
                    /\ IsFiniteSet(LiveOf(b)')
                    /\ Cardinality(LiveOf(b)') = agent'[b].open_positions
                    /\ agent'[b].status = "Absent" =>
                         /\ LiveOf(b)' = {}
                         /\ agent'[b].locked_collateral = 0
                         /\ agent'[b].capital_managed = 0
                         /\ agent'[b].open_positions = 0
  BY DEF CountersInv
<1>1. /\ \A q \in Positions : Bonds[q] = position[q].locked_collateral
      /\ \A q \in Positions : Bonds'[q] = position'[q].locked_collateral
      /\ \A q \in Positions : Principals[q] = position[q].principal
      /\ \A q \in Positions : Principals'[q] = position'[q].principal
  BY DEF Bonds, Principals
<1>2. /\ \A q \in LiveOf(b) \ {p} : Bonds'[q] = Bonds[q]
      /\ \A q \in LiveOf(b) \ {p} : Principals'[q] = Principals[q]
  BY <1>1, LiveMembers DEF Releases
<1>3. \A q \in Positions \ {p} : IsLive(q)' <=> IsLive(q)
  BY DEF Releases, IsLive
<1>4. CASE b # AgentOf(p)
  <2>1. LiveOf(b)' = LiveOf(b) /\ p \notin LiveOf(b)
    BY <1>3, <1>4, LiveMembers
  <2>2. agent'[b] = agent[b]
    BY <1>4 DEF Releases
  <2>3. SumsTo(Bonds', LiveOf(b), agent[b].locked_collateral)
    BY <1>2, <2>1, SumSame DEF CountersInv
  <2>4. SumsTo(Principals', LiveOf(b), agent[b].capital_managed)
    BY <1>2, <2>1, SumSame DEF CountersInv
  <2> QED BY <2>1, <2>2, <2>3, <2>4 DEF CountersInv
<1>5. CASE b = AgentOf(p)
  <2>1. p \in LiveOf(b) /\ LiveOf(b)' = LiveOf(b) \ {p}
    BY <1>3, <1>5, LiveMembers DEF Releases
  <2>2. /\ agent[b].locked_collateral \in Int /\ agent[b].capital_managed \in Int
        /\ agent[b].open_positions \in Nat
    BY DEF TypeOK, AgentRecord
  <2>3. Bonds[p] \in Nat /\ Principals[p] \in Nat
    BY <1>1 DEF TypeOK, PositionRecord
  <2>4. SumsTo(Bonds', LiveOf(b) \ {p}, agent[b].locked_collateral - Bonds[p])
    BY <1>2, <2>1, <2>2, <2>3, SumWithout DEF CountersInv
  <2>5. SumsTo(Principals', LiveOf(b) \ {p}, agent[b].capital_managed - Principals[p])
    BY <1>2, <2>1, <2>2, <2>3, SumWithout DEF CountersInv
  <2>6. /\ IsFiniteSet(LiveOf(b) \ {p})
        /\ Cardinality(LiveOf(b) \ {p}) = agent[b].open_positions - 1
    BY <2>1, FS_RemoveElement DEF CountersInv
  <2>7. /\ agent'[b].locked_collateral = agent[b].locked_collateral - Bonds[p]
        /\ agent'[b].capital_managed = agent[b].capital_managed - Principals[p]
        /\ agent'[b].open_positions = agent[b].open_positions - 1
        /\ agent'[b].status # "Absent"
    BY <1>1, <1>5, <2>1 DEF Releases, CountersInv
  <2> QED BY <2>1, <2>4, <2>5, <2>6, <2>7
<1> QED BY <1>4, <1>5
-----------------------------------------------------------------------------
\* Nothing is reserved at first.
LEMMA InitCounters == Init => CountersInv
<1> SUFFICES ASSUME Init, NEW a \in Agents
             PROVE  /\ SumsTo(Bonds, LiveOf(a), agent[a].locked_collateral)
                    /\ SumsTo(Principals, LiveOf(a), agent[a].capital_managed)
                    /\ IsFiniteSet(LiveOf(a))
                    /\ Cardinality(LiveOf(a)) = agent[a].open_positions
                    /\ agent[a].status = "Absent" =>
                         /\ LiveOf(a) = {}
                         /\ agent[a].locked_collateral = 0
                         /\ agent[a].capital_managed = 0
                         /\ agent[a].open_positions = 0
  BY DEF CountersInv
<1>1. LiveOf(a) = {}
  BY DEF Init, AbsentPosition, LiveOf, PositionsOf
<1>2. /\ agent[a].locked_collateral = 0 /\ agent[a].capital_managed = 0
      /\ agent[a].open_positions = 0
  <2>1. agent[a] \in AgentAtStart(a)
    BY DEF Init
  <2> QED BY <2>1 DEF AgentAtStart, AbsentAgent, LegacyAgent, NewAgent
<1> QED BY <1>1, <1>2, SumOfNone, FS_EmptySet

\* create_agent resets the counters of an agent that had none.
LEMMA CreateCounters ==
  ASSUME TypeOK, CountersInv, NEW a \in Agents, NEW i, NEW t, CreateAgent(a, i, t)
  PROVE  CountersInv'
<1>1. \A b \in Agents \ {a} : agent'[b] = agent[b]
  BY DEF CreateAgent, TypeOK
<1>2. /\ agent'[a].locked_collateral = 0 /\ agent'[a].capital_managed = 0
      /\ agent'[a].open_positions = 0 /\ agent'[a].status = "Draft"
  BY DEF CreateAgent, NewAgent, TypeOK
<1>3. /\ agent[a].locked_collateral = 0 /\ agent[a].capital_managed = 0
      /\ agent[a].open_positions = 0
  BY DEF CreateAgent, CountersInv
<1>4. Keeps
  BY <1>1, <1>2, <1>3 DEF CreateAgent, Keeps, IsLive
<1> QED BY <1>4, KeepsCounters

\* The other instructions of the operator touch neither counters nor positions.
LEMMA OperatorCounters ==
  ASSUME TypeOK, CountersInv, NEW a \in Agents, OperatorNext(a)
  PROVE  CountersInv'
<1>1. ASSUME NEW i \in Identities, NEW t \in Terms, CreateAgent(a, i, t) PROVE CountersInv'
  BY <1>1, CreateCounters
<1>2. ASSUME NEW i \in Identities, NEW t \in Terms, UpdateAgent(a, i, t) PROVE Keeps
  BY <1>2 DEF UpdateAgent, Keeps, IsLive, TypeOK, AgentRecord
<1>3. ASSUME PublishAgent(a) PROVE Keeps
  BY <1>3 DEF PublishAgent, Keeps, IsLive, TypeOK, AgentRecord
<1>4. ASSUME NEW key \in ExecutorKeys, SetExecutor(a, key) PROVE Keeps
  BY <1>4 DEF SetExecutor, Keeps, IsLive, TypeOK, AgentRecord
<1>5. ASSUME NEW accepting \in BOOLEAN, SetAccepting(a, accepting) PROVE Keeps
  BY <1>5 DEF SetAccepting, Keeps, IsLive, TypeOK, AgentRecord, IsPublished
<1>6. ASSUME NEW amount \in Amounts, DepositCollateral(a, amount) PROVE Keeps
  BY <1>6 DEF DepositCollateral, Keeps, IsLive, TypeOK, AgentRecord
<1>7. ASSUME NEW amount \in Amounts, WithdrawCollateral(a, amount) PROVE Keeps
  BY <1>7 DEF WithdrawCollateral, Keeps, IsLive, TypeOK, AgentRecord
<1> QED BY <1>1, <1>2, <1>3, <1>4, <1>5, <1>6, <1>7, KeepsCounters DEF OperatorNext

\* open_position reserves.
LEMMA OpenCounters ==
  ASSUME TypeOK, TypeOK', CountersInv, NEW p \in Positions, NEW amount, NEW duration,
         OpenPosition(p, amount, duration)
  PROVE  CountersInv'
<1>1. AgentOf(p) \in Agents
  BY PositionKeys
<1>2. Reserves(p)
  BY <1>1 DEF OpenPosition, NewPosition, Reserves, IsLive, TypeOK, AgentRecord
<1> QED BY <1>2, ReservesCounters

\* cancel_position, claim_default and settle_position release what was reserved.
LEMMA CloseCounters ==
  ASSUME TypeOK, CountersInv, NEW p \in Positions,
         \/ CancelPosition(p)
         \/ ClaimDefault(p)
         \/ \E key \in Wallets, returned \in Nat : SettlePosition(key, p, returned)
  PROVE  CountersInv'
<1>1. PICK slash \in Nat : Settles(p, slash)
  BY ClosesSettle
<1>2. Releases(p)
  BY <1>1 DEF Settles, Releases, IsLive
<1> QED BY <1>2, ReleasesCounters

\* No step breaks the invariant.
LEMMA NextCounters == TypeOK /\ TypeOK' /\ CountersInv /\ [Next]_vars => CountersInv'
<1> SUFFICES ASSUME TypeOK, TypeOK', CountersInv, [Next]_vars PROVE CountersInv'
  OBVIOUS
<1>1. ASSUME NEW a \in Agents, OperatorNext(a) PROVE CountersInv'
  BY <1>1, OperatorCounters
<1>2. ASSUME NEW p \in Positions, TraderNext(p) PROVE CountersInv'
  BY <1>2, OpenCounters, CloseCounters DEF TraderNext
<1>3. ASSUME NEW p \in Positions, ExecutorNext(p) PROVE CountersInv'
  <2>1. \A returned \in Returns : returned \in Nat
    BY ProgramAssumption DEF ProgramAssumption
  <2>2. ASSUME NEW key \in Wallets, DrawFunds(key, p) PROVE Keeps
    BY <2>2 DEF DrawFunds, Keeps, IsLive, TypeOK, PositionRecord
  <2> QED BY <1>3, <2>1, <2>2, KeepsCounters, CloseCounters DEF ExecutorNext
<1>4. ASSUME NEW from \in Wallets, NEW amount \in Gifts, SystemTransfer(from, amount)
      PROVE  CountersInv'
  BY <1>4, KeepsCounters DEF SystemTransfer, Keeps, IsLive
<1>5. CASE Tick \/ UNCHANGED vars
  BY <1>5, KeepsCounters DEF Tick, vars, Keeps, IsLive
<1> QED BY <1>1, <1>2, <1>3, <1>4, <1>5 DEF Next

\* The counters of every agent are, in every reachable state, the sums over its
\* live positions: every close releases exactly what the opening reserved.
THEOREM CountersAlwaysMatch == Spec => []CountersMatchPositions
<1>1. CountersInv => CountersMatchPositions
  BY DEF CountersInv, CountersMatchPositions, SumsTo
<1> QED BY <1>1, InitTypeOK, NextTypeOK, InitCounters, NextCounters, PTL DEF Spec
-----------------------------------------------------------------------------
(* The track record *)

DrawnOf(a)     == { p \in PositionsOf(a, {"Settled"}) : position[p].drawn_at # 0 }
DefaultedOf(a) == PositionsOf(a, {"Defaulted"})
BreachedOf(a)  == { p \in ClosedOf(a) : position[p].breach # "None" }

Slashes == [p \in Positions |-> position[p].slashed]
Fees    == [p \in Positions |-> position[p].fee_paid]

\* A position that has not ended carries no result yet, and a time stamp tells
\* whether it was drawn.
FreshUntilClosed ==
  /\ now # 0
  /\ \A p \in Positions : ~Closed(p) =>
       /\ position[p].breach = "None" /\ position[p].slashed = 0
       /\ position[p].fee_paid = 0 /\ position[p].returned = 0
       /\ position[p].drawn_at # 0 <=> position[p].status = "Trading"

\* What the counters of an agent say of its closed positions.
RecordOf(a) ==
  /\ IsFiniteSet(DrawnOf(a)) /\ agent[a].settled_positions = Cardinality(DrawnOf(a))
  /\ IsFiniteSet(DefaultedOf(a)) /\ agent[a].defaulted_positions = Cardinality(DefaultedOf(a))
  /\ IsFiniteSet(BreachedOf(a)) /\ agent[a].breach_count = Cardinality(BreachedOf(a))
  /\ SumsTo(Slashes, ClosedOf(a), agent[a].slashed_total)
  /\ SumsTo(Fees, ClosedOf(a), agent[a].fees_earned)

\* The inductive invariant: again create_agent resets counters, so no position may
\* have ended before its agent exists.
RecordsInv ==
  /\ FreshUntilClosed
  /\ BreachTellsTheTruth
  /\ \A a \in Agents :
       /\ RecordOf(a)
       /\ agent[a].status = "Absent" =>
            /\ ClosedOf(a) = {}
            /\ agent[a].settled_positions = 0 /\ agent[a].defaulted_positions = 0
            /\ agent[a].breach_count = 0
            /\ agent[a].slashed_total = 0 /\ agent[a].fees_earned = 0

\* A step that ends nothing and leaves the record alone.
KeepsRecord ==
  /\ \A p \in Positions : /\ Closed(p)' <=> Closed(p)
                          /\ Closed(p) => position'[p] = position[p]
  /\ \A a \in Agents :
       /\ agent'[a].settled_positions = agent[a].settled_positions
       /\ agent'[a].defaulted_positions = agent[a].defaulted_positions
       /\ agent'[a].breach_count = agent[a].breach_count
       /\ agent'[a].slashed_total = agent[a].slashed_total
       /\ agent'[a].fees_earned = agent[a].fees_earned
       /\ agent'[a].status = "Absent" => agent[a].status = "Absent"

\* A step that ends p and adds what p then says to the record.
Records(p) ==
  LET a   == AgentOf(p)
      new == position'[p]
  IN  /\ IsLive(p) /\ Closed(p)'
      /\ new.drawn_at = position[p].drawn_at
      /\ \A q \in Positions \ {p} : position'[q] = position[q]
      /\ \A b \in Agents \ {a} : agent'[b] = agent[b]
      /\ agent'[a].status = agent[a].status
      /\ agent'[a].settled_positions = IF new.status = "Settled" /\ new.drawn_at # 0
           THEN agent[a].settled_positions + 1 ELSE agent[a].settled_positions
      /\ agent'[a].defaulted_positions = IF new.status = "Defaulted"
           THEN agent[a].defaulted_positions + 1 ELSE agent[a].defaulted_positions
      /\ agent'[a].breach_count = IF new.breach # "None"
           THEN agent[a].breach_count + 1 ELSE agent[a].breach_count
      /\ agent'[a].slashed_total = agent[a].slashed_total + new.slashed
      /\ agent'[a].fees_earned = agent[a].fees_earned + new.fee_paid
      /\ new.breach = BreachOf(new.drawn_at # 0 /\ new.closed_at >= new.deadline, new.slashed)

\* The members of the sets that are counted.
LEMMA RecordMembers ==
  ASSUME NEW a
  PROVE  /\ \A p : p \in ClosedOf(a) <=> p \in Positions /\ AgentOf(p) = a /\ Closed(p)
         /\ \A p : p \in DrawnOf(a) <=> /\ p \in Positions /\ AgentOf(p) = a
                                        /\ position[p].status = "Settled"
                                        /\ position[p].drawn_at # 0
         /\ \A p : p \in DefaultedOf(a) <=> /\ p \in Positions /\ AgentOf(p) = a
                                            /\ position[p].status = "Defaulted"
         /\ \A p : p \in BreachedOf(a) <=> /\ p \in Positions /\ AgentOf(p) = a
                                           /\ Closed(p) /\ position[p].breach # "None"
         /\ \A p : p \in ClosedOf(a)' <=> p \in Positions /\ AgentOf(p) = a /\ Closed(p)'
         /\ \A p : p \in DrawnOf(a)' <=> /\ p \in Positions /\ AgentOf(p) = a
                                         /\ position'[p].status = "Settled"
                                         /\ position'[p].drawn_at # 0
         /\ \A p : p \in DefaultedOf(a)' <=> /\ p \in Positions /\ AgentOf(p) = a
                                             /\ position'[p].status = "Defaulted"
         /\ \A p : p \in BreachedOf(a)' <=> /\ p \in Positions /\ AgentOf(p) = a
                                            /\ Closed(p)' /\ position'[p].breach # "None"
BY DEF ClosedOf, DrawnOf, DefaultedOf, BreachedOf, PositionsOf, Closed

\* Where no position of an agent changes, the sets do not.
LEMMA SamePositionsSameRecord ==
  ASSUME NEW a, \A p \in Positions : AgentOf(p) = a => position'[p] = position[p]
  PROVE  /\ ClosedOf(a)' = ClosedOf(a) /\ DrawnOf(a)' = DrawnOf(a)
         /\ DefaultedOf(a)' = DefaultedOf(a) /\ BreachedOf(a)' = BreachedOf(a)
<1>1. \A p \in Positions : AgentOf(p) = a =>
        (Closed(p)' <=> Closed(p)) /\ position'[p] = position[p]
  BY DEF Closed
<1>2. \A p : p \in ClosedOf(a)' <=> p \in ClosedOf(a)
  BY <1>1, RecordMembers
<1>3. \A p : p \in DrawnOf(a)' <=> p \in DrawnOf(a)
  BY <1>1, RecordMembers
<1>4. \A p : p \in DefaultedOf(a)' <=> p \in DefaultedOf(a)
  BY <1>1, RecordMembers
<1>5. \A p : p \in BreachedOf(a)' <=> p \in BreachedOf(a)
  BY <1>1, RecordMembers
<1> QED BY <1>2, <1>3, <1>4, <1>5

\* A step that ends nothing keeps the record true.
LEMMA KeepsRecordTrue ==
  ASSUME RecordsInv, KeepsRecord, FreshUntilClosed'
  PROVE  RecordsInv'
<1>1. BreachTellsTheTruth'
  BY DEF RecordsInv, KeepsRecord, BreachTellsTheTruth
<1>2. ASSUME NEW a \in Agents
      PROVE  /\ ClosedOf(a)' = ClosedOf(a) /\ DrawnOf(a)' = DrawnOf(a)
             /\ DefaultedOf(a)' = DefaultedOf(a) /\ BreachedOf(a)' = BreachedOf(a)
  <2>1. \A p \in Positions : /\ Closed(p)' <=> Closed(p)
                             /\ Closed(p) => position'[p] = position[p]
    BY DEF KeepsRecord
  <2>2. \A p \in Positions :
          /\ position'[p].status = "Settled" \/ position'[p].status = "Defaulted" => Closed(p)'
          /\ position[p].status = "Settled" \/ position[p].status = "Defaulted" => Closed(p)
    BY DEF Closed
  <2>3. \A p : p \in ClosedOf(a)' <=> p \in ClosedOf(a)
    BY <2>1, RecordMembers
  <2>4. \A p : p \in DrawnOf(a)' <=> p \in DrawnOf(a)
    BY <2>1, <2>2, RecordMembers
  <2>5. \A p : p \in DefaultedOf(a)' <=> p \in DefaultedOf(a)
    BY <2>1, <2>2, RecordMembers
  <2>6. \A p : p \in BreachedOf(a)' <=> p \in BreachedOf(a)
    BY <2>1, RecordMembers
  <2> QED BY <2>3, <2>4, <2>5, <2>6
<1>3. ASSUME NEW a \in Agents
      PROVE  /\ SumsTo(Slashes', ClosedOf(a), agent[a].slashed_total)
             /\ SumsTo(Fees', ClosedOf(a), agent[a].fees_earned)
  <2>1. /\ \A p \in ClosedOf(a) : Slashes'[p] = Slashes[p]
        /\ \A p \in ClosedOf(a) : Fees'[p] = Fees[p]
    BY RecordMembers DEF KeepsRecord, Slashes, Fees
  <2> QED BY <2>1, SumSame DEF RecordsInv, RecordOf
<1> QED BY <1>1, <1>2, <1>3 DEF RecordsInv, RecordOf, KeepsRecord

\* The end of a position keeps it true.
LEMMA RecordsRecordTrue ==
  ASSUME TypeOK, TypeOK', CountersInv, RecordsInv, NEW p \in Positions, Records(p), now' = now
  PROVE  RecordsInv'
<1> DEFINE a == AgentOf(p)
<1>1. a \in Agents /\ agent[a].status # "Absent" /\ ~Closed(p)
  BY PositionKeys, LiveMembers DEF CountersInv, Records, Closed, IsLive
<1>2. \A q \in Positions \ {p} : /\ position'[q] = position[q]
                                 /\ Closed(q)' <=> Closed(q)
  BY DEF Records, Closed
<1>3. FreshUntilClosed'
  BY <1>2 DEF RecordsInv, FreshUntilClosed, Records
<1>4. BreachTellsTheTruth'
  BY <1>2 DEF RecordsInv, BreachTellsTheTruth, Records, BreachOf
<1>5. ASSUME NEW b \in Agents \ {a}
      PROVE  RecordOf(b)' /\ agent'[b] = agent[b] /\ ClosedOf(b)' = ClosedOf(b)
  <2>1. agent'[b] = agent[b]
    BY DEF Records
  <2>2. /\ ClosedOf(b)' = ClosedOf(b) /\ DrawnOf(b)' = DrawnOf(b)
        /\ DefaultedOf(b)' = DefaultedOf(b) /\ BreachedOf(b)' = BreachedOf(b)
    <3>1. \A q \in Positions : AgentOf(q) = b => position'[q] = position[q]
      BY <1>2
    <3> QED BY <3>1, SamePositionsSameRecord
  <2>3. /\ \A q \in ClosedOf(b) : Slashes'[q] = Slashes[q]
        /\ \A q \in ClosedOf(b) : Fees'[q] = Fees[q]
    BY <1>2, RecordMembers DEF Slashes, Fees
  <2>4. /\ SumsTo(Slashes', ClosedOf(b), agent[b].slashed_total)
        /\ SumsTo(Fees', ClosedOf(b), agent[b].fees_earned)
    BY <2>3, SumSame DEF RecordsInv, RecordOf
  <2> QED BY <2>1, <2>2, <2>4 DEF RecordsInv, RecordOf
<1>6. RecordOf(a)'
  <2> DEFINE new == position'[p]
  <2>1. p \notin DrawnOf(a) /\ p \notin DefaultedOf(a) /\ p \notin BreachedOf(a)
        /\ p \notin ClosedOf(a)
    BY <1>1, RecordMembers DEF Closed
  <2>2. /\ DrawnOf(a)' = IF new.status = "Settled" /\ new.drawn_at # 0
                         THEN DrawnOf(a) \cup {p} ELSE DrawnOf(a)
        /\ DefaultedOf(a)' = IF new.status = "Defaulted"
                             THEN DefaultedOf(a) \cup {p} ELSE DefaultedOf(a)
        /\ BreachedOf(a)' = IF new.breach # "None"
                            THEN BreachedOf(a) \cup {p} ELSE BreachedOf(a)
        /\ ClosedOf(a)' = ClosedOf(a) \cup {p}
    <3>1. Closed(p)'
      BY DEF Records
    <3>2. \A q : q \in DrawnOf(a)' <=>
            q \in DrawnOf(a) \/ (q = p /\ new.status = "Settled" /\ new.drawn_at # 0)
      BY <1>2, <2>1, RecordMembers
    <3>3. \A q : q \in DefaultedOf(a)' <=>
            q \in DefaultedOf(a) \/ (q = p /\ new.status = "Defaulted")
      BY <1>2, <2>1, RecordMembers
    <3>4. \A q : q \in BreachedOf(a)' <=>
            q \in BreachedOf(a) \/ (q = p /\ new.breach # "None")
      BY <1>2, <2>1, <3>1, RecordMembers
    <3>5. \A q : q \in ClosedOf(a)' <=> q \in ClosedOf(a) \/ q = p
      BY <1>2, <2>1, <3>1, RecordMembers
    <3> HIDE DEF new, a
    <3> QED BY <3>2, <3>3, <3>4, <3>5
  <2>3. /\ IsFiniteSet(DrawnOf(a)')
        /\ agent'[a].settled_positions = Cardinality(DrawnOf(a)')
    <3> DEFINE c == new.status = "Settled" /\ new.drawn_at # 0
    <3>1. IsFiniteSet(DrawnOf(a)) /\ agent[a].settled_positions = Cardinality(DrawnOf(a))
      BY <1>1 DEF RecordsInv, RecordOf
    <3>2. agent'[a].settled_positions = IF c THEN agent[a].settled_positions + 1 ELSE agent[a].settled_positions
      BY DEF Records
    <3>3. DrawnOf(a)' = IF c THEN DrawnOf(a) \cup {p} ELSE DrawnOf(a)
      BY <2>2
    <3> HIDE DEF c, new, a
    <3>4. CASE c
      BY <2>1, <3>1, <3>2, <3>3, <3>4, FS_AddElement
    <3>5. CASE ~c
      BY <3>1, <3>2, <3>3, <3>5
    <3> QED BY <3>4, <3>5
  <2>4. /\ IsFiniteSet(DefaultedOf(a)')
        /\ agent'[a].defaulted_positions = Cardinality(DefaultedOf(a)')
    <3> DEFINE c == new.status = "Defaulted"
    <3>1. IsFiniteSet(DefaultedOf(a)) /\ agent[a].defaulted_positions = Cardinality(DefaultedOf(a))
      BY <1>1 DEF RecordsInv, RecordOf
    <3>2. agent'[a].defaulted_positions = IF c THEN agent[a].defaulted_positions + 1 ELSE agent[a].defaulted_positions
      BY DEF Records
    <3>3. DefaultedOf(a)' = IF c THEN DefaultedOf(a) \cup {p} ELSE DefaultedOf(a)
      BY <2>2
    <3> HIDE DEF c, new, a
    <3>4. CASE c
      BY <2>1, <3>1, <3>2, <3>3, <3>4, FS_AddElement
    <3>5. CASE ~c
      BY <3>1, <3>2, <3>3, <3>5
    <3> QED BY <3>4, <3>5
  <2>5. /\ IsFiniteSet(BreachedOf(a)')
        /\ agent'[a].breach_count = Cardinality(BreachedOf(a)')
    <3> DEFINE c == new.breach # "None"
    <3>1. IsFiniteSet(BreachedOf(a)) /\ agent[a].breach_count = Cardinality(BreachedOf(a))
      BY <1>1 DEF RecordsInv, RecordOf
    <3>2. agent'[a].breach_count = IF c THEN agent[a].breach_count + 1 ELSE agent[a].breach_count
      BY DEF Records
    <3>3. BreachedOf(a)' = IF c THEN BreachedOf(a) \cup {p} ELSE BreachedOf(a)
      BY <2>2
    <3> HIDE DEF c, new, a
    <3>4. CASE c
      BY <2>1, <3>1, <3>2, <3>3, <3>4, FS_AddElement
    <3>5. CASE ~c
      BY <3>1, <3>2, <3>3, <3>5
    <3> QED BY <3>4, <3>5
  <2>6. /\ Slashes'[p] = new.slashed /\ Fees'[p] = new.fee_paid
        /\ new.slashed \in Nat /\ new.fee_paid \in Nat
        /\ agent[a].slashed_total \in Int /\ agent[a].fees_earned \in Int
    BY <1>1 DEF Slashes, Fees, TypeOK, PositionRecord, AgentRecord
  <2>7. /\ \A q \in ClosedOf(a) : Slashes'[q] = Slashes[q]
        /\ \A q \in ClosedOf(a) : Fees'[q] = Fees[q]
    BY <1>2, <2>1, RecordMembers DEF Slashes, Fees
  <2>8. SumsTo(Slashes', ClosedOf(a) \cup {p}, agent[a].slashed_total + Slashes'[p])
    <3>1. SumsTo(Slashes, ClosedOf(a), agent[a].slashed_total)
      BY <1>1 DEF RecordsInv, RecordOf
    <3>2. Slashes'[p] \in Nat
      BY <2>6
    <3> HIDE DEF a, new
    <3> QED BY <2>1, <2>6, <2>7, <3>1, <3>2, SumWith
  <2>9. SumsTo(Fees', ClosedOf(a) \cup {p}, agent[a].fees_earned + Fees'[p])
    <3>1. SumsTo(Fees, ClosedOf(a), agent[a].fees_earned)
      BY <1>1 DEF RecordsInv, RecordOf
    <3>2. Fees'[p] \in Nat
      BY <2>6
    <3> HIDE DEF a, new
    <3> QED BY <2>1, <2>6, <2>7, <3>1, <3>2, SumWith
  <2>10. /\ agent'[a].slashed_total = agent[a].slashed_total + Slashes'[p]
         /\ agent'[a].fees_earned = agent[a].fees_earned + Fees'[p]
    BY <2>6 DEF Records
  <2> QED BY <2>2, <2>3, <2>4, <2>5, <2>8, <2>9, <2>10 DEF RecordOf
<1>7. agent'[a].status # "Absent"
  BY <1>1 DEF Records
<1> QED BY <1>3, <1>4, <1>5, <1>6, <1>7 DEF RecordsInv
-----------------------------------------------------------------------------
\* Nothing has ended at first.
LEMMA InitRecords == Init => RecordsInv
<1> SUFFICES ASSUME Init PROVE RecordsInv
  OBVIOUS
<1>1. \A p \in Positions : position[p] = AbsentPosition /\ ~Closed(p)
  BY DEF Init, AbsentPosition, Closed
<1>2. FreshUntilClosed /\ BreachTellsTheTruth
  BY <1>1 DEF FreshUntilClosed, BreachTellsTheTruth, AbsentPosition, Init
<1>3. ASSUME NEW a \in Agents
      PROVE  /\ agent[a].settled_positions = 0 /\ agent[a].defaulted_positions = 0
             /\ agent[a].breach_count = 0
             /\ agent[a].slashed_total = 0 /\ agent[a].fees_earned = 0
  <2>1. agent[a] \in AgentAtStart(a)
    BY DEF Init
  <2> QED BY <2>1 DEF AgentAtStart, AbsentAgent, LegacyAgent, NewAgent
<1>4. ASSUME NEW a \in Agents
      PROVE  /\ ClosedOf(a) = {} /\ DrawnOf(a) = {}
             /\ DefaultedOf(a) = {} /\ BreachedOf(a) = {}
  BY <1>1 DEF ClosedOf, DrawnOf, DefaultedOf, BreachedOf, PositionsOf, AbsentPosition
<1> QED BY <1>2, <1>3, <1>4, SumOfNone, FS_EmptySet DEF RecordsInv, RecordOf

\* create_agent resets the record of an agent that had none.
LEMMA CreateRecords ==
  ASSUME TypeOK, RecordsInv, NEW a \in Agents, NEW i, NEW t, CreateAgent(a, i, t)
  PROVE  RecordsInv'
<1>1. \A b \in Agents \ {a} : agent'[b] = agent[b]
  BY DEF CreateAgent, TypeOK
<1>2. /\ agent'[a].settled_positions = 0 /\ agent'[a].defaulted_positions = 0
      /\ agent'[a].breach_count = 0 /\ agent'[a].slashed_total = 0
      /\ agent'[a].fees_earned = 0 /\ agent'[a].status = "Draft"
  BY DEF CreateAgent, NewAgent, TypeOK
<1>3. agent[a].status = "Absent" /\ position' = position /\ now' = now
  BY DEF CreateAgent
<1>4. KeepsRecord
  BY <1>1, <1>2, <1>3 DEF RecordsInv, KeepsRecord, Closed
<1>5. FreshUntilClosed'
  BY <1>3 DEF RecordsInv, FreshUntilClosed, Closed
<1> QED BY <1>4, <1>5, KeepsRecordTrue

\* The other instructions of the operator touch neither the record nor positions.
LEMMA OperatorRecords ==
  ASSUME TypeOK, RecordsInv, NEW a \in Agents, OperatorNext(a)
  PROVE  RecordsInv'
<1>1. ASSUME NEW i \in Identities, NEW t \in Terms, CreateAgent(a, i, t) PROVE RecordsInv'
  BY <1>1, CreateRecords
<1>2. ASSUME NEW i \in Identities, NEW t \in Terms, UpdateAgent(a, i, t) PROVE KeepsRecord
  BY <1>2 DEF UpdateAgent, KeepsRecord, Closed, TypeOK, AgentRecord
<1>3. ASSUME PublishAgent(a) PROVE KeepsRecord
  BY <1>3 DEF PublishAgent, KeepsRecord, Closed, TypeOK, AgentRecord
<1>4. ASSUME NEW key \in ExecutorKeys, SetExecutor(a, key) PROVE KeepsRecord
  BY <1>4 DEF SetExecutor, KeepsRecord, Closed, TypeOK, AgentRecord
<1>5. ASSUME NEW accepting \in BOOLEAN, SetAccepting(a, accepting) PROVE KeepsRecord
  BY <1>5 DEF SetAccepting, KeepsRecord, Closed, TypeOK, AgentRecord, IsPublished
<1>6. ASSUME NEW amount \in Amounts, DepositCollateral(a, amount) PROVE KeepsRecord
  BY <1>6 DEF DepositCollateral, KeepsRecord, Closed, TypeOK, AgentRecord
<1>7. ASSUME NEW amount \in Amounts, WithdrawCollateral(a, amount) PROVE KeepsRecord
  BY <1>7 DEF WithdrawCollateral, KeepsRecord, Closed, TypeOK, AgentRecord
<1>8. FreshUntilClosed'
  <2>1. position' = position
    BY OperatorLeavesPositions
  <2>2. now' = now
    BY DEF OperatorNext, CreateAgent, UpdateAgent, PublishAgent, SetExecutor, SetAccepting,
           DepositCollateral, WithdrawCollateral
  <2> QED BY <2>1, <2>2 DEF RecordsInv, FreshUntilClosed, Closed
<1> QED BY <1>1, <1>2, <1>3, <1>4, <1>5, <1>6, <1>7, <1>8, KeepsRecordTrue DEF OperatorNext

\* A position opens without a result.
LEMMA OpenRecords ==
  ASSUME TypeOK, RecordsInv, NEW p \in Positions, NEW amount, NEW duration,
         OpenPosition(p, amount, duration)
  PROVE  RecordsInv'
<1>1. /\ \A q \in Positions \ {p} : position'[q] = position[q]
      /\ position[p].status = "Absent" /\ position'[p].status = "Open"
      /\ position'[p].breach = "None" /\ position'[p].slashed = 0
      /\ position'[p].fee_paid = 0 /\ position'[p].returned = 0
      /\ position'[p].drawn_at = 0 /\ now' = now
  BY DEF OpenPosition, NewPosition, TypeOK
<1>2. KeepsRecord
  <2>1. AgentOf(p) \in Agents /\ agent[AgentOf(p)] \in AgentRecord
    BY PositionKeys DEF TypeOK
  <2> QED BY <1>1, <2>1 DEF OpenPosition, KeepsRecord, Closed, TypeOK, AgentRecord
<1>3. FreshUntilClosed'
  BY <1>1 DEF RecordsInv, FreshUntilClosed, Closed
<1> QED BY <1>2, <1>3, KeepsRecordTrue

\* draw_funds stamps the time of the draw, which is never 0.
LEMMA DrawRecords ==
  ASSUME TypeOK, RecordsInv, NEW p \in Positions, NEW key \in Wallets, DrawFunds(key, p)
  PROVE  RecordsInv'
<1>1. /\ \A q \in Positions \ {p} : position'[q] = position[q]
      /\ position[p].status = "Open" /\ position'[p].status = "Trading"
      /\ position'[p].breach = position[p].breach
      /\ position'[p].slashed = position[p].slashed
      /\ position'[p].fee_paid = position[p].fee_paid
      /\ position'[p].returned = position[p].returned
      /\ position'[p].drawn_at = now /\ now' = now /\ agent' = agent
  BY DEF DrawFunds, TypeOK, PositionRecord
<1>2. KeepsRecord
  BY <1>1 DEF KeepsRecord, Closed
<1>3. FreshUntilClosed'
  BY <1>1 DEF RecordsInv, FreshUntilClosed, Closed
<1> QED BY <1>2, <1>3, KeepsRecordTrue

\* cancel_position records nothing: the position was not drawn.
LEMMA CancelRecords ==
  ASSUME TypeOK, RecordsInv, NEW p \in Positions, CancelPosition(p)
  PROVE  Records(p)
<1> DEFINE a == AgentOf(p)
<1>1. a \in Agents /\ agent[a] \in AgentRecord /\ position[p] \in PositionRecord
  BY PositionKeys DEF TypeOK
<1>2. /\ \A q \in Positions \ {p} : position'[q] = position[q]
      /\ position[p].status = "Open" /\ position'[p].status = "Cancelled"
      /\ position'[p].breach = position[p].breach
      /\ position'[p].slashed = position[p].slashed
      /\ position'[p].fee_paid = position[p].fee_paid
      /\ position'[p].drawn_at = position[p].drawn_at
  BY <1>1 DEF CancelPosition, TypeOK, PositionRecord
<1>3. /\ position[p].breach = "None" /\ position[p].slashed = 0
      /\ position[p].fee_paid = 0 /\ position[p].drawn_at = 0
  BY <1>2 DEF RecordsInv, FreshUntilClosed, Closed
<1>4. /\ \A b \in Agents \ {a} : agent'[b] = agent[b]
      /\ agent'[a].status = agent[a].status
      /\ agent'[a].settled_positions = agent[a].settled_positions
      /\ agent'[a].defaulted_positions = agent[a].defaulted_positions
      /\ agent'[a].breach_count = agent[a].breach_count
      /\ agent'[a].slashed_total = agent[a].slashed_total
      /\ agent'[a].fees_earned = agent[a].fees_earned
      /\ agent[a].slashed_total \in Nat /\ agent[a].fees_earned \in Nat
  BY <1>1 DEF CancelPosition, Released, TypeOK, AgentRecord
<1> HIDE DEF a
<1> QED BY <1>2, <1>3, <1>4 DEF Records, IsLive, Closed, BreachOf, a

\* claim_default records a default, a missed deadline and the whole bond.
LEMMA ClaimRecords ==
  ASSUME TypeOK, RecordsInv, NEW p \in Positions, ClaimDefault(p)
  PROVE  Records(p)
<1> DEFINE a    == AgentOf(p)
           bond == position[p].locked_collateral
<1>1. a \in Agents /\ agent[a] \in AgentRecord /\ position[p] \in PositionRecord
  BY PositionKeys DEF TypeOK
<1>2. /\ \A q \in Positions \ {p} : position'[q] = position[q]
      /\ position[p].status = "Trading" /\ position'[p].status = "Defaulted"
      /\ position'[p].breach = "MissedDeadline"
      /\ position'[p].slashed = bond
      /\ position'[p].fee_paid = position[p].fee_paid
      /\ position'[p].drawn_at = position[p].drawn_at
      /\ position'[p].deadline = position[p].deadline
      /\ position'[p].closed_at = now
      /\ now >= position[p].deadline
  BY <1>1 DEF ClaimDefault, DeadlineReached, TypeOK, PositionRecord
<1>3. position[p].fee_paid = 0 /\ position[p].drawn_at # 0
  BY <1>2 DEF RecordsInv, FreshUntilClosed, Closed
<1>4. /\ \A b \in Agents \ {a} : agent'[b] = agent[b]
      /\ agent'[a].status = agent[a].status
      /\ agent'[a].settled_positions = agent[a].settled_positions
      /\ agent'[a].defaulted_positions = agent[a].defaulted_positions + 1
      /\ agent'[a].breach_count = agent[a].breach_count + 1
      /\ agent'[a].slashed_total = agent[a].slashed_total + bond
      /\ agent'[a].fees_earned = agent[a].fees_earned
      /\ agent[a].fees_earned \in Nat
  BY <1>1 DEF ClaimDefault, Released, Slashed, TypeOK, AgentRecord
<1> HIDE DEF a, bond
<1> QED BY <1>2, <1>3, <1>4 DEF Records, IsLive, Closed, BreachOf, a

\* settle_position counts the position if it was drawn, and its breach, slash and fee.
LEMMA SettleRecords ==
  ASSUME TypeOK, RecordsInv, NEW p \in Positions, NEW key \in Wallets, NEW returned \in Nat,
         SettlePosition(key, p, returned)
  PROVE  Records(p)
<1> DEFINE a         == AgentOf(p)
           pos       == position[p]
           declined  == pos.status = "Open"
           effective == IF declined THEN pos.principal ELSE returned
           s         == ComputeSettlement(pos.principal, effective, pos.fee_bps,
                                          pos.max_drawdown_bps, pos.locked_collateral)
           after     == Debit(wallet, key, IF declined THEN 0 ELSE returned)
           fee       == FeePaid(after, OperatorOf[a], TraderOf(p), s.fee)
           late      == ~declined /\ DeadlineReached(p)
           breach    == BreachOf(late, s.slash)
           slash     == s.slash
<1>1. a \in Agents /\ agent[a] \in AgentRecord /\ pos \in PositionRecord
  BY PositionKeys DEF TypeOK
<1>2. /\ IsLive(p)
      /\ agent' = [agent EXCEPT ![a] =
            [Released(Slashed(agent[a], slash), pos)
               EXCEPT !.settled_positions = IF declined THEN @ ELSE @ + 1,
                      !.breach_count = IF breach = "None" THEN @ ELSE @ + 1,
                      !.fees_earned = @ + fee]]
      /\ position' = [position EXCEPT ![p].status = "Settled", ![p].breach = breach,
                                      ![p].returned = effective, ![p].slashed = slash,
                                      ![p].fee_paid = fee, ![p].closed_at = now]
  BY DEF SettlePosition
<1> HIDE DEF effective, s, after, fee, breach, slash
<1>3. /\ \A q \in Positions \ {p} : position'[q] = position[q]
      /\ position'[p].status = "Settled" /\ position'[p].breach = breach
      /\ position'[p].slashed = slash /\ position'[p].fee_paid = fee
      /\ position'[p].closed_at = now
      /\ position'[p].drawn_at = pos.drawn_at /\ position'[p].deadline = pos.deadline
  BY <1>1, <1>2 DEF TypeOK, PositionRecord
<1>4. declined <=> pos.drawn_at = 0
  BY <1>2 DEF RecordsInv, FreshUntilClosed, Closed, IsLive
<1>5. late <=> position'[p].drawn_at # 0 /\ position'[p].closed_at >= position'[p].deadline
  BY <1>3, <1>4 DEF DeadlineReached
<1>6. position'[p].breach = BreachOf(late, position'[p].slashed)
  BY <1>3 DEF breach, slash
<1>7. /\ \A b \in Agents \ {a} : agent'[b] = agent[b]
      /\ agent'[a].status = agent[a].status
      /\ agent'[a].settled_positions = IF declined THEN agent[a].settled_positions
                                       ELSE agent[a].settled_positions + 1
      /\ agent'[a].defaulted_positions = agent[a].defaulted_positions
      /\ agent'[a].breach_count = IF breach = "None" THEN agent[a].breach_count
                                  ELSE agent[a].breach_count + 1
      /\ agent'[a].slashed_total = agent[a].slashed_total + slash
      /\ agent'[a].fees_earned = agent[a].fees_earned + fee
  BY <1>1, <1>2 DEF Released, Slashed, TypeOK, AgentRecord
<1> HIDE DEF a, pos, declined, late
<1>8. Closed(p)'
  BY <1>3 DEF Closed
<1>9. position'[p].breach
        = BreachOf(position'[p].drawn_at # 0 /\ position'[p].closed_at >= position'[p].deadline,
                   position'[p].slashed)
  BY <1>5, <1>6 DEF BreachOf
<1> QED BY <1>2, <1>3, <1>4, <1>7, <1>8, <1>9 DEF Records, a, pos

\* No step makes the record false.
LEMMA NextRecords ==
  TypeOK /\ TypeOK' /\ CountersInv /\ RecordsInv /\ [Next]_vars => RecordsInv'
<1> SUFFICES ASSUME TypeOK, TypeOK', CountersInv, RecordsInv, [Next]_vars PROVE RecordsInv'
  OBVIOUS
<1>1. ASSUME NEW a \in Agents, OperatorNext(a) PROVE RecordsInv'
  BY <1>1, OperatorRecords
<1>2. ASSUME NEW p \in Positions, CancelPosition(p) \/ ClaimDefault(p) PROVE RecordsInv'
  <2>1. Records(p)
    BY <1>2, CancelRecords, ClaimRecords
  <2>2. now' = now
    BY <1>2 DEF CancelPosition, ClaimDefault
  <2> QED BY <2>1, <2>2, RecordsRecordTrue
<1>3. ASSUME NEW p \in Positions, TraderNext(p) PROVE RecordsInv'
  BY <1>2, <1>3, OpenRecords DEF TraderNext
<1>4. ASSUME NEW p \in Positions, NEW key \in Wallets, NEW returned \in Returns,
             SettlePosition(key, p, returned)
      PROVE  RecordsInv'
  <2>1. returned \in Nat
    BY ProgramAssumption DEF ProgramAssumption
  <2>2. Records(p)
    BY <1>4, <2>1, SettleRecords
  <2>3. now' = now
    BY <1>4 DEF SettlePosition
  <2> QED BY <2>2, <2>3, RecordsRecordTrue
<1>5. ASSUME NEW p \in Positions, ExecutorNext(p) PROVE RecordsInv'
  BY <1>4, <1>5, DrawRecords DEF ExecutorNext
<1>6. CASE Tick \/ UNCHANGED vars \/ \E from \in Wallets, amount \in Gifts :
                                        SystemTransfer(from, amount)
  <2>1. /\ agent' = agent /\ position' = position
        /\ now' = now \/ now' = now + 1
    BY <1>6 DEF Tick, SystemTransfer, vars
  <2>2. KeepsRecord
    BY <2>1 DEF KeepsRecord, Closed
  <2>3. FreshUntilClosed'
    <3>1. now' # 0
      BY <2>1 DEF RecordsInv, FreshUntilClosed, TypeOK
    <3> QED BY <2>1, <3>1 DEF RecordsInv, FreshUntilClosed, Closed
  <2> QED BY <2>2, <2>3, KeepsRecordTrue
<1> QED BY <1>1, <1>3, <1>5, <1>6 DEF Next

\* After any calls in any order the public track record of every agent is what its
\* closed positions say, and every closed position's breach is the truth about when
\* and how it ended.
THEOREM RecordsAlwaysTrue == Spec => []RecordsAreTrue
<1>1. RecordsInv => RecordsAreTrue
  BY DEF RecordsInv, RecordOf, RecordsAreTrue, TrackRecordIsTrue, SumsTo, Slashes, Fees,
         DrawnOf, DefaultedOf, BreachedOf
<1> QED BY <1>1, InitTypeOK, NextTypeOK, InitCounters, NextCounters, InitRecords, NextRecords,
           PTL DEF Spec
-----------------------------------------------------------------------------
(* The life of a position *)

\* What the lifecycle sees of the positions.
Statuses  == [p \in Positions |-> LowerCase[position[p].status]]
Deadlines == [p \in Positions |-> position[p].deadline]

\* A step that replaces the record of one position changes one status and one
\* deadline.
LEMMA OneMove ==
  ASSUME TypeOK, NEW p \in Positions, NEW record, position' = [position EXCEPT ![p] = record]
  PROVE  /\ Statuses' = [Statuses EXCEPT ![p] = LowerCase[record.status]]
         /\ Deadlines' = [Deadlines EXCEPT ![p] = record.deadline]
<1>1. ASSUME NEW q \in Positions
      PROVE  /\ LowerCase[position'[q].status]
                  = IF q = p THEN LowerCase[record.status] ELSE LowerCase[position[q].status]
             /\ position'[q].deadline = IF q = p THEN record.deadline ELSE position[q].deadline
  <2>1. CASE q = p
    BY <2>1 DEF TypeOK
  <2>2. CASE q # p
    BY <2>2 DEF TypeOK
  <2> QED BY <2>1, <2>2
<1>2. Statuses' = [q \in Positions |->
                     IF q = p THEN LowerCase[record.status] ELSE LowerCase[position[q].status]]
  BY <1>1 DEF Statuses
<1>3. Deadlines' = [q \in Positions |-> IF q = p THEN record.deadline ELSE position[q].deadline]
  BY <1>1 DEF Deadlines
<1>4. Statuses' = [Statuses EXCEPT ![p] = LowerCase[record.status]]
  BY <1>2 DEF Statuses
<1>5. Deadlines' = [Deadlines EXCEPT ![p] = record.deadline]
  BY <1>3 DEF Deadlines
<1> QED BY <1>4, <1>5

\* If it keeps the deadline, it is a move of the lifecycle.
LEMMA MoveKeepsDeadline ==
  ASSUME TypeOK, NEW p \in Positions, NEW record, position' = [position EXCEPT ![p] = record],
         record.deadline = position[p].deadline, now' = now,
         NEW from, LowerCase[position[p].status] \in from
  PROVE  /\ Lifecycle!Move(p, from, LowerCase[record.status])
         /\ Deadlines' = Deadlines
<1>1. /\ Statuses' = [Statuses EXCEPT ![p] = LowerCase[record.status]]
      /\ Deadlines' = [Deadlines EXCEPT ![p] = record.deadline]
  BY OneMove
<1>2. Deadlines' = Deadlines
  BY <1>1 DEF Deadlines
<1>3. Statuses[p] \in from
  BY DEF Statuses
<1> QED BY <1>1, <1>2, <1>3 DEF Lifecycle!Move, Statuses

\* A position opens with a deadline that lies in the future.
LEMMA OpenIsOpen ==
  ASSUME TypeOK, NEW p \in Positions, NEW amount \in Nat,
         NEW duration \in MIN_POSITION_DURATION..MAX_POSITION_DURATION,
         OpenPosition(p, amount, duration)
  PROVE  Lifecycle!Open(p)
<1> DEFINE terms  == agent[AgentOf(p)].terms
           record == NewPosition(amount, RequiredCollateral(amount, terms.collateral_ratio_bps),
                                 terms, duration)
<1>1. /\ position' = [position EXCEPT ![p] = record] /\ now' = now
      /\ position[p].status = "Absent"
  BY DEF OpenPosition
<1>2. record.status = "Open" /\ record.deadline = now + duration
  BY DEF NewPosition
<1>3. now + duration > now
  BY ConstantsAssumption DEF ConstantsAssumption, TypeOK
<1> HIDE DEF record
<1>4. LowerCase[record.status] = "open"
  BY <1>2 DEF LowerCase
<1>5. /\ Statuses' = [Statuses EXCEPT ![p] = LowerCase[record.status]]
      /\ Deadlines' = [Deadlines EXCEPT ![p] = record.deadline]
  <2> HIDE DEF terms
  <2> QED BY <1>1, OneMove
<1>6. /\ Statuses' = [Statuses EXCEPT ![p] = "open"]
      /\ Deadlines' = [Deadlines EXCEPT ![p] = record.deadline]
  BY <1>4, <1>5
<1>7. Statuses[p] = "absent"
  BY <1>1 DEF Statuses, LowerCase
<1>8. Deadlines'[p] = record.deadline
  BY <1>6 DEF Deadlines
<1> QED BY <1>1, <1>2, <1>3, <1>6, <1>7, <1>8
        DEF Lifecycle!Open, Lifecycle!Move, Statuses, Deadlines

\* What else a trader may do cancels or defaults a position.
LEMMA TraderLives ==
  ASSUME TypeOK, NEW p \in Positions, TraderNext(p)
  PROVE  Lifecycle!Next
<1>0. position[p] \in PositionRecord
  BY DEF TypeOK
<1>1. CASE CancelPosition(p)
  <2> DEFINE record == [position[p] EXCEPT !.status = "Cancelled",
                                           !.returned = position[p].principal,
                                           !.closed_at = now]
  <2>0. /\ position' = [position EXCEPT ![p].status = "Cancelled",
                                         ![p].returned = position[p].principal,
                                         ![p].closed_at = now]
        /\ position[p].status = "Open" /\ now' = now
    BY <1>1 DEF CancelPosition
  <2>1. position' = [position EXCEPT ![p] = record] /\ now' = now
    BY <2>0 DEF TypeOK
  <2>1a. LowerCase[position[p].status] \in {"open"}
    BY <2>0 DEF LowerCase
  <2>2. record.deadline = position[p].deadline /\ LowerCase[record.status] = "cancelled"
    BY <1>0 DEF PositionRecord, LowerCase
  <2> HIDE DEF record
  <2>3. Lifecycle!Move(p, {"open"}, "cancelled") /\ Deadlines' = Deadlines
    BY <2>1, <2>1a, <2>2, MoveKeepsDeadline
  <2> QED BY <2>3 DEF Lifecycle!Next, Lifecycle!Cancel, Deadlines
<1>2. CASE ClaimDefault(p)
  <2> DEFINE record == [position[p] EXCEPT !.status = "Defaulted",
                                           !.breach = "MissedDeadline",
                                           !.slashed = position[p].locked_collateral,
                                           !.closed_at = now]
  <2>0. /\ position' = [position EXCEPT ![p].status = "Defaulted",
                                         ![p].breach = "MissedDeadline",
                                         ![p].slashed = position[p].locked_collateral,
                                         ![p].closed_at = now]
        /\ position[p].status = "Trading" /\ DeadlineReached(p) /\ now' = now
    BY <1>2 DEF ClaimDefault
  <2>1. position' = [position EXCEPT ![p] = record] /\ now' = now
    BY <2>0 DEF TypeOK
  <2>1a. LowerCase[position[p].status] \in {"trading"}
    BY <2>0 DEF LowerCase
  <2>1b. now >= Deadlines[p]
    BY <2>0 DEF DeadlineReached, Deadlines
  <2>2. record.deadline = position[p].deadline /\ LowerCase[record.status] = "defaulted"
    BY <1>0 DEF PositionRecord, LowerCase
  <2> HIDE DEF record
  <2>3. Lifecycle!Move(p, {"trading"}, "defaulted") /\ Deadlines' = Deadlines
    BY <2>1, <2>1a, <2>2, MoveKeepsDeadline
  <2> QED BY <2>1b, <2>3 DEF Lifecycle!Next, Lifecycle!Default, Deadlines
<1>3. ASSUME NEW amount \in Amounts,
             NEW duration \in MIN_POSITION_DURATION..MAX_POSITION_DURATION,
             OpenPosition(p, amount, duration)
      PROVE  Lifecycle!Next
  <2>1. amount \in Nat
    BY ProgramAssumption DEF ProgramAssumption
  <2> QED BY <1>3, <2>1, OpenIsOpen DEF Lifecycle!Next
<1> QED BY <1>1, <1>2, <1>3 DEF TraderNext

\* The trading key draws before the deadline, or settles.
LEMMA ExecutorLives ==
  ASSUME TypeOK, NEW p \in Positions, ExecutorNext(p)
  PROVE  Lifecycle!Next
<1>0. position[p] \in PositionRecord
  BY DEF TypeOK
<1>1. ASSUME NEW key \in Wallets, DrawFunds(key, p) PROVE Lifecycle!Next
  <2> DEFINE record == [position[p] EXCEPT !.status = "Trading", !.drawn_at = now]
  <2>0. /\ position' = [position EXCEPT ![p].status = "Trading", ![p].drawn_at = now]
        /\ position[p].status = "Open" /\ ~DeadlineReached(p) /\ now' = now
    BY <1>1 DEF DrawFunds
  <2>1. position' = [position EXCEPT ![p] = record] /\ now' = now
    BY <2>0 DEF TypeOK
  <2>1a. LowerCase[position[p].status] \in {"open"}
    BY <2>0 DEF LowerCase
  <2>1b. ~(now >= Deadlines[p])
    BY <2>0 DEF DeadlineReached, Deadlines
  <2>2. record.deadline = position[p].deadline /\ LowerCase[record.status] = "trading"
    BY <1>0 DEF PositionRecord, LowerCase
  <2> HIDE DEF record
  <2>3. Lifecycle!Move(p, {"open"}, "trading") /\ Deadlines' = Deadlines
    BY <2>1, <2>1a, <2>2, MoveKeepsDeadline
  <2>4. now < Deadlines[p]
    BY <1>0, <2>1b DEF Deadlines, PositionRecord, TypeOK
  <2> QED BY <2>3, <2>4 DEF Lifecycle!Next, Lifecycle!Draw, Deadlines
<1>2. ASSUME NEW key \in Wallets, NEW returned \in Returns, SettlePosition(key, p, returned)
      PROVE  Lifecycle!Next
  <2>1. PICK breach, effective, slash, fee :
          position' = [position EXCEPT ![p].status = "Settled", ![p].breach = breach,
                                       ![p].returned = effective, ![p].slashed = slash,
                                       ![p].fee_paid = fee, ![p].closed_at = now]
    BY <1>2 DEF SettlePosition
  <2> DEFINE record == [position[p] EXCEPT !.status = "Settled", !.breach = breach,
                                           !.returned = effective, !.slashed = slash,
                                           !.fee_paid = fee, !.closed_at = now]
  <2>2. position' = [position EXCEPT ![p] = record]
    BY <2>1 DEF TypeOK
  <2>3. now' = now /\ position[p].status \in {"Open", "Trading"}
    BY <1>2 DEF SettlePosition, IsLive
  <2>3a. LowerCase[position[p].status] \in {"open", "trading"}
    BY <2>3 DEF LowerCase
  <2>4. record.deadline = position[p].deadline /\ LowerCase[record.status] = "settled"
    BY <1>0 DEF PositionRecord, LowerCase
  <2> HIDE DEF record
  <2>5. Lifecycle!Move(p, {"open", "trading"}, "settled") /\ Deadlines' = Deadlines
    BY <2>2, <2>3, <2>3a, <2>4, MoveKeepsDeadline
  <2> QED BY <2>5 DEF Lifecycle!Next, Lifecycle!Settle, Deadlines
<1> QED BY <1>1, <1>2 DEF ExecutorNext

\* Whoever calls whichever instruction in whatever order, a position is drawn only
\* before its deadline, defaults only when drawn and at or after it, and ends once
\* (draw_funds.rs:45, claim_default.rs:50, settle_position.rs:104).
THEOREM LifeIsFollowed == Spec => FollowsLifecycle
<1>1. Init => Lifecycle!Init
  <2> SUFFICES ASSUME Init PROVE Lifecycle!Init
    OBVIOUS
  <2>1. \A p \in Positions : position[p].status = "Absent" /\ position[p].deadline = 0
    BY DEF Init, AbsentPosition
  <2> QED BY <2>1 DEF Init, Lifecycle!Init, LowerCase
<1>2. TypeOK /\ [Next]_vars => [Lifecycle!Next]_(Lifecycle!vars)
  <2> SUFFICES ASSUME TypeOK, [Next]_vars PROVE [Lifecycle!Next]_(Lifecycle!vars)
    OBVIOUS
  <2>1. ASSUME position' = position, now' = now PROVE UNCHANGED Lifecycle!vars
    BY <2>1 DEF Lifecycle!vars
  <2>2. ASSUME NEW a \in Agents, OperatorNext(a) PROVE position' = position /\ now' = now
    BY <2>2 DEF OperatorNext, CreateAgent, UpdateAgent, PublishAgent, SetExecutor,
                SetAccepting, DepositCollateral, WithdrawCollateral
  <2>3. ASSUME Tick PROVE Lifecycle!Next
    BY <2>3 DEF Tick, Lifecycle!Next, Lifecycle!Pass, TypeOK
  <2>4. ASSUME NEW from \in Wallets, NEW amount \in Gifts, SystemTransfer(from, amount)
        PROVE  position' = position /\ now' = now
    BY <2>4 DEF SystemTransfer
  <2>5. CASE UNCHANGED vars
    BY <2>1, <2>5 DEF vars
  <2> QED BY <2>1, <2>2, <2>3, <2>4, <2>5, TraderLives, ExecutorLives DEF Next
<1> QED BY <1>1, <1>2, ProgramTypeCorrect, PTL DEF Spec, FollowsLifecycle, Lifecycle!Spec
-----------------------------------------------------------------------------
(* What the trader gets back *)

\* The terms in force are within the limits, and so is the fee of a live position.
TermsInv ==
  /\ \A a \in Agents : agent[a].status # "Absent" => WithinLimits(agent[a].terms)
  /\ \A p \in Positions : IsLive(p) => position[p].fee_bps <= BPS_DENOMINATOR

\* A step that keeps every agent's terms and lets no position live that did not.
KeepsTerms ==
  /\ \A a \in Agents : /\ agent'[a].terms = agent[a].terms
                       /\ agent[a].status = "Absent" => agent'[a].status = "Absent"
  /\ \A p \in Positions : IsLive(p)' => IsLive(p) /\ position'[p].fee_bps = position[p].fee_bps

\* A fee within the limits is a share.
LEMMA FeeIsShare ==
  ASSUME NEW t \in AgentTerms, WithinLimits(t)
  PROVE  t.fee_bps \in 0..BPS_DENOMINATOR /\ t.collateral_ratio_bps > 0
<1>1. /\ t.fee_bps \in Nat /\ t.collateral_ratio_bps \in Nat
      /\ t.collateral_ratio_bps >= MIN_COLLATERAL_RATIO_BPS
      /\ t.collateral_ratio_bps <= MAX_COLLATERAL_RATIO_BPS
      /\ t.fee_bps <= t.collateral_ratio_bps \div FEE_CAP_DIVISOR
  BY ConstantsAssumption DEF WithinLimits, MaxFeeBps, AgentTerms, ConstantsAssumption
<1>2. /\ FEE_CAP_DIVISOR \in Nat \ {0} /\ MIN_COLLATERAL_RATIO_BPS \in Nat \ {0}
      /\ MAX_COLLATERAL_RATIO_BPS \in 0..BPS_DENOMINATOR /\ BPS_DENOMINATOR \in Nat
  BY ConstantsAssumption DEF ConstantsAssumption
<1> DEFINE q == t.collateral_ratio_bps \div FEE_CAP_DIVISOR
<1>3. q \in Nat /\ FEE_CAP_DIVISOR * q <= t.collateral_ratio_bps
  BY <1>1, <1>2, DivBounds
<1> HIDE DEF q
<1>4. q <= FEE_CAP_DIVISOR * q
  <2>1. q * 1 <= q * FEE_CAP_DIVISOR
    BY <1>2, <1>3, ProductMonotone
  <2> QED BY <1>2, <1>3, <2>1, SMT
<1>5. FEE_CAP_DIVISOR * q \in Nat
  BY <1>2, <1>3, ProductIsNat
<1>6. t.fee_bps <= q
  BY <1>1 DEF q
<1> QED BY <1>1, <1>2, <1>3, <1>4, <1>5, <1>6

\* A step that keeps the terms keeps them within the limits.
LEMMA KeepsTermsInv == TermsInv /\ KeepsTerms => TermsInv'
BY DEF TermsInv, KeepsTerms

\* The terms are within the limits at first, those published by earlier versions too.
LEMMA InitTerms == Init => TermsInv
<1> SUFFICES ASSUME Init PROVE TermsInv
  OBVIOUS
<1>1. ASSUME NEW a \in Agents, agent[a].status # "Absent" PROVE WithinLimits(agent[a].terms)
  <2>1. agent[a] \in AgentAtStart(a)
    BY DEF Init
  <2>2. agent[a] # AbsentAgent(a)
    BY <1>1 DEF AbsentAgent, NewAgent
  <2>3. PICK t \in LegacyTerms : agent[a] = LegacyAgent(a, t)
    BY <2>1, <2>2 DEF AgentAtStart
  <2> QED BY <2>3, ProgramAssumption DEF ProgramAssumption, LegacyAgent, NewAgent
<1> QED BY <1>1 DEF TermsInv, Init, AbsentPosition, IsLive

\* create_agent and update_agent validate the terms; nothing else of the operator
\* touches them.
LEMMA OperatorTerms ==
  ASSUME TypeOK, TermsInv, NEW a \in Agents, OperatorNext(a)
  PROVE  TermsInv'
<1>1. ASSUME NEW i \in Identities, NEW t \in Terms, CreateAgent(a, i, t) \/ UpdateAgent(a, i, t)
      PROVE  TermsInv'
  <2>1. \A b \in Agents \ {a} : agent'[b] = agent[b]
    BY <1>1 DEF CreateAgent, UpdateAgent, TypeOK
  <2>2. agent'[a].terms = t /\ WithinLimits(t) /\ position' = position
    BY <1>1 DEF CreateAgent, UpdateAgent, NewAgent, Validate, TypeOK, AgentRecord
  <2> QED BY <2>1, <2>2 DEF TermsInv, IsLive
<1>2. ASSUME \/ PublishAgent(a)
             \/ \E key \in ExecutorKeys : SetExecutor(a, key)
             \/ \E accepting \in BOOLEAN : SetAccepting(a, accepting)
             \/ \E amount \in Amounts : DepositCollateral(a, amount) \/ WithdrawCollateral(a, amount)
      PROVE  KeepsTerms
  <2>1. position' = position
    BY <1>2 DEF PublishAgent, SetExecutor, SetAccepting, DepositCollateral, WithdrawCollateral
  <2>2. \A b \in Agents : /\ agent'[b].terms = agent[b].terms
                          /\ agent[b].status = "Absent" => agent'[b].status = "Absent"
    <3>1. CASE PublishAgent(a)
      BY <3>1 DEF PublishAgent, TypeOK, AgentRecord
    <3>2. ASSUME NEW key \in ExecutorKeys, SetExecutor(a, key)
          PROVE  \A b \in Agents : /\ agent'[b].terms = agent[b].terms
                                   /\ agent[b].status = "Absent" => agent'[b].status = "Absent"
      BY <3>2 DEF SetExecutor, TypeOK, AgentRecord
    <3>3. ASSUME NEW accepting \in BOOLEAN, SetAccepting(a, accepting)
          PROVE  \A b \in Agents : /\ agent'[b].terms = agent[b].terms
                                   /\ agent[b].status = "Absent" => agent'[b].status = "Absent"
      BY <3>3 DEF SetAccepting, IsPublished, TypeOK, AgentRecord
    <3>4. ASSUME NEW amount \in Amounts,
                 DepositCollateral(a, amount) \/ WithdrawCollateral(a, amount)
          PROVE  \A b \in Agents : /\ agent'[b].terms = agent[b].terms
                                   /\ agent[b].status = "Absent" => agent'[b].status = "Absent"
      BY <3>4 DEF DepositCollateral, WithdrawCollateral, TypeOK, AgentRecord
    <3> QED BY <1>2, <3>1, <3>2, <3>3, <3>4
  <2> QED BY <2>1, <2>2 DEF KeepsTerms, IsLive
<1> QED BY <1>1, <1>2, KeepsTermsInv DEF OperatorNext

\* A position takes its fee from the terms in force.
LEMMA OpenTerms ==
  ASSUME TypeOK, TermsInv, NEW p \in Positions, NEW amount, NEW duration,
         OpenPosition(p, amount, duration)
  PROVE  TermsInv'
<1> DEFINE a == AgentOf(p)
<1>1. a \in Agents /\ agent[a] \in AgentRecord /\ agent[a].terms \in AgentTerms
  BY PositionKeys DEF TypeOK, AgentRecord
<1>2. agent[a].status = "Active" /\ WithinLimits(agent[a].terms)
  BY <1>1 DEF OpenPosition, TermsInv
<1>3. /\ \A q \in Positions \ {p} : position'[q] = position[q]
      /\ position'[p].fee_bps = agent[a].terms.fee_bps
  BY DEF OpenPosition, NewPosition, TypeOK
<1>4. \A b \in Agents : /\ agent'[b].terms = agent[b].terms
                        /\ agent'[b].status = agent[b].status
  BY <1>1 DEF OpenPosition, TypeOK, AgentRecord
<1>5. agent[a].terms.fee_bps <= BPS_DENOMINATOR
  BY <1>1, <1>2, FeeIsShare, ConstantsAssumption DEF ConstantsAssumption
<1> QED BY <1>3, <1>4, <1>5 DEF TermsInv, IsLive

\* Neither the draw nor an end of a position changes terms or fees.
LEMMA PositionTerms ==
  ASSUME TypeOK, NEW p \in Positions, NEW key \in Wallets, NEW returned \in Nat,
         \/ CancelPosition(p) \/ ClaimDefault(p)
         \/ DrawFunds(key, p) \/ SettlePosition(key, p, returned)
  PROVE  KeepsTerms
<1> DEFINE a == AgentOf(p)
<1>1. a \in Agents /\ agent[a] \in AgentRecord /\ position[p] \in PositionRecord
  BY PositionKeys DEF TypeOK
<1>2. CASE CancelPosition(p)
  BY <1>1, <1>2 DEF CancelPosition, Released, KeepsTerms, IsLive, TypeOK, AgentRecord,
                    PositionRecord
<1>3. CASE ClaimDefault(p)
  BY <1>1, <1>3 DEF ClaimDefault, Released, Slashed, KeepsTerms, IsLive, TypeOK, AgentRecord,
                    PositionRecord
<1>4. CASE DrawFunds(key, p)
  BY <1>1, <1>4 DEF DrawFunds, KeepsTerms, IsLive, TypeOK, PositionRecord
<1>5. CASE SettlePosition(key, p, returned)
  <2> DEFINE pos       == position[p]
             declined  == pos.status = "Open"
             effective == IF declined THEN pos.principal ELSE returned
             s         == ComputeSettlement(pos.principal, effective, pos.fee_bps,
                                            pos.max_drawdown_bps, pos.locked_collateral)
             after     == Debit(wallet, key, IF declined THEN 0 ELSE returned)
             fee       == FeePaid(after, OperatorOf[a], TraderOf(p), s.fee)
             breach    == BreachOf(~declined /\ DeadlineReached(p), s.slash)
             slash     == s.slash
  <2>1. /\ agent' = [agent EXCEPT ![a] =
              [Released(Slashed(agent[a], slash), pos)
                 EXCEPT !.settled_positions = IF declined THEN @ ELSE @ + 1,
                        !.breach_count = IF breach = "None" THEN @ ELSE @ + 1,
                        !.fees_earned = @ + fee]]
        /\ position' = [position EXCEPT ![p].status = "Settled", ![p].breach = breach,
                                        ![p].returned = effective, ![p].slashed = slash,
                                        ![p].fee_paid = fee, ![p].closed_at = now]
    BY <1>5 DEF SettlePosition
  <2> HIDE DEF effective, s, after, fee, breach, slash
  <2>2. \A b \in Agents : /\ agent'[b].terms = agent[b].terms
                          /\ agent'[b].status = agent[b].status
    BY <1>1, <2>1 DEF Released, Slashed, TypeOK, AgentRecord
  <2>3. /\ \A q \in Positions \ {p} : position'[q] = position[q]
        /\ position'[p].status = "Settled"
    BY <1>1, <2>1 DEF TypeOK, PositionRecord
  <2> QED BY <2>2, <2>3 DEF KeepsTerms, IsLive
<1> QED BY <1>2, <1>3, <1>4, <1>5

\* No step breaks the limits.
LEMMA NextTerms == TypeOK /\ TermsInv /\ [Next]_vars => TermsInv'
<1> SUFFICES ASSUME TypeOK, TermsInv, [Next]_vars PROVE TermsInv'
  OBVIOUS
<1>1. ASSUME NEW a \in Agents, OperatorNext(a) PROVE TermsInv'
  BY <1>1, OperatorTerms
<1>2. ASSUME NEW p \in Positions, TraderNext(p) \/ ExecutorNext(p) PROVE TermsInv'
  <2>1. \A returned \in Returns : returned \in Nat
    BY ProgramAssumption DEF ProgramAssumption
  <2>2. ASSUME CancelPosition(p) \/ ClaimDefault(p) PROVE TermsInv'
    <3>1. TraderOf(p) \in Wallets
      BY PositionKeys
    <3>2. 0 \in Nat
      OBVIOUS
    <3> QED BY <2>2, <3>1, <3>2, PositionTerms, KeepsTermsInv
  <2>3. ASSUME NEW key \in Wallets,
               DrawFunds(key, p) \/ \E returned \in Returns : SettlePosition(key, p, returned)
        PROVE  TermsInv'
    <3>1. 0 \in Nat
      OBVIOUS
    <3> QED BY <2>1, <2>3, <3>1, PositionTerms, KeepsTermsInv
  <2> QED BY <1>2, <2>2, <2>3, OpenTerms DEF TraderNext, ExecutorNext
<1>3. CASE UNCHANGED <<agent, position>>
  BY <1>3 DEF TermsInv, IsLive
<1> QED BY <1>1, <1>2, <1>3 DEF Next, Tick, SystemTransfer, vars

\* What the end of p gives to its trader, as TraderRecoversBond states it.
Recovers(p) ==
  LET a == AgentOf(p)
      t == TraderOf(p)
  IN  /\ TraderPayout(position'[p]) >= position[p].locked_collateral
      /\ position_vault'[p] = 0
      /\ ~CanExecute(a, t) =>
           wallet'[t] - wallet[t] >= TraderPayout(position'[p]) + RENT_EXEMPT_MINIMUM

\* A live position's bond is positive or not, but never above its principal.
LEMMA BondFits ==
  ASSUME TypeOK, LiveFit, NEW p \in Positions, IsLive(p)
  PROVE  /\ position[p].principal \in Nat \ {0}
         /\ position[p].locked_collateral \in Nat
         /\ position[p].locked_collateral <= position[p].principal
<1>1. /\ position[p].principal \in Nat \ {0} /\ position[p].locked_collateral \in Nat
      /\ position[p].max_drawdown_bps \in Nat
  BY DEF TypeOK, LiveFit, PositionRecord
<1>2. PICK ratio \in Nat :
        /\ position[p].locked_collateral = RequiredCollateral(position[p].principal, ratio)
        /\ RatioAndDrawdownFit(ratio, position[p].max_drawdown_bps)
  BY DEF LiveFit
<1>3. /\ position[p].locked_collateral
           + Bps(position[p].principal, position[p].max_drawdown_bps) <= position[p].principal
      /\ Bps(position[p].principal, position[p].max_drawdown_bps) \in Nat
  BY <1>1, <1>2, BondAndToleranceFit, BpsBounds
<1> QED BY <1>1, <1>3

\* What a settlement does with the money: `effective` counts as returned, the trader
\* keeps at least the bond, and declining moves nothing to or from the agent.
SettlesWith(p, key, returned, sent, fee, slash) ==
  LET declined  == position[p].status = "Open"
      effective == IF declined THEN position[p].principal ELSE returned
  IN  /\ sent = IF declined THEN 0 ELSE returned
      /\ effective - fee + slash >= position[p].locked_collateral
      /\ declined => fee = 0 /\ slash = 0
      /\ agent'[AgentOf(p)].total_collateral = agent[AgentOf(p)].total_collateral - slash
      /\ position' = [position EXCEPT ![p].status = "Settled",
                                      ![p].breach = position'[p].breach,
                                      ![p].returned = effective, ![p].slashed = slash,
                                      ![p].fee_paid = fee, ![p].closed_at = now]
      /\ wallet' = Credit(Credit(Debit(wallet, key, sent), OperatorOf[AgentOf(p)], fee),
                          TraderOf(p), slash + position_vault[p] + sent - fee)

\* Every settlement does that, with amounts that are numbers.
LEMMA SettleFacts ==
  ASSUME TypeOK, LiveFit, TermsInv, NEW p \in Positions, NEW key \in Wallets,
         NEW returned \in Nat, SettlePosition(key, p, returned)
  PROVE  \E sent \in Nat, fee \in Nat, slash \in Nat :
           SettlesWith(p, key, returned, sent, fee, slash)
<1> DEFINE a         == AgentOf(p)
           pos       == position[p]
           declined  == pos.status = "Open"
           sent      == IF declined THEN 0 ELSE returned
           effective == IF declined THEN pos.principal ELSE returned
           s         == ComputeSettlement(pos.principal, effective, pos.fee_bps,
                                          pos.max_drawdown_bps, pos.locked_collateral)
           after     == Debit(wallet, key, sent)
           fee       == FeePaid(after, OperatorOf[a], TraderOf(p), s.fee)
           breach    == BreachOf(~declined /\ DeadlineReached(p), s.slash)
           slash     == s.slash
<1>1. a \in Agents /\ agent[a] \in AgentRecord /\ pos \in PositionRecord
  BY PositionKeys DEF TypeOK
<1>2. /\ IsLive(p)
      /\ agent' = [agent EXCEPT ![a] =
            [Released(Slashed(agent[a], slash), pos)
               EXCEPT !.settled_positions = IF declined THEN @ ELSE @ + 1,
                      !.breach_count = IF breach = "None" THEN @ ELSE @ + 1,
                      !.fees_earned = @ + fee]]
      /\ position' = [position EXCEPT ![p].status = "Settled", ![p].breach = breach,
                                      ![p].returned = effective, ![p].slashed = slash,
                                      ![p].fee_paid = fee, ![p].closed_at = now]
      /\ wallet' = Credit(Credit(after, OperatorOf[a], fee), TraderOf(p),
                          slash + position_vault[p] + sent - fee)
  BY DEF SettlePosition
<1>3. PICK ratio \in Nat :
        /\ pos.locked_collateral = RequiredCollateral(pos.principal, ratio)
        /\ RatioAndDrawdownFit(ratio, pos.max_drawdown_bps)
  BY <1>2 DEF LiveFit
<1>4. /\ pos.principal \in Nat \ {0} /\ effective \in Nat /\ sent \in Nat
      /\ pos.fee_bps \in 0..BPS_DENOMINATOR /\ pos.max_drawdown_bps \in Nat
      /\ pos.locked_collateral \in Nat
  <2>1. /\ pos.principal \in Nat /\ pos.fee_bps \in Nat /\ pos.max_drawdown_bps \in Nat
        /\ pos.locked_collateral \in Nat
    BY <1>1 DEF PositionRecord
  <2>2. pos.principal > 0 /\ pos.fee_bps <= BPS_DENOMINATOR /\ BPS_DENOMINATOR \in Nat
    BY <1>2, ConstantsAssumption DEF LiveFit, TermsInv, ConstantsAssumption
  <2> HIDE DEF pos
  <2> QED BY <2>1, <2>2
<1>5. effective - s.fee + slash >= pos.locked_collateral
  <2> HIDE DEF effective, pos
  <2> QED BY <1>3, <1>4, TraderKeepsTheBond
<1>6. /\ s.fee \in Nat /\ slash \in Nat
      /\ effective >= pos.principal => s.fee <= effective - pos.principal /\ slash = 0
  <2>1. InRange(s, pos.principal, effective, pos.locked_collateral)
    <3> HIDE DEF effective, pos
    <3> QED BY <1>4, SettlementBounds
  <2> HIDE DEF effective, pos, s
  <2> QED BY <1>4, <2>1 DEF InRange
<1>7. fee = s.fee \/ fee = 0
  BY DEF FeePaid
<1> HIDE DEF s, after, fee, breach, slash
<1>8. /\ fee \in Nat /\ effective - fee + slash >= pos.locked_collateral
      /\ declined => fee = 0 /\ slash = 0
  <2>1. declined => effective = pos.principal
    OBVIOUS
  <2> HIDE DEF effective, declined, pos
  <2> QED BY <1>4, <1>5, <1>6, <1>7, <2>1
<1>9. agent'[a].total_collateral = agent[a].total_collateral - slash
  BY <1>1, <1>2 DEF Released, Slashed, TypeOK, AgentRecord
<1>10. position'[p].breach = breach
  BY <1>1, <1>2 DEF TypeOK, PositionRecord
<1>11. position' = [position EXCEPT ![p].status = "Settled", ![p].breach = position'[p].breach,
                                    ![p].returned = effective, ![p].slashed = slash,
                                    ![p].fee_paid = fee, ![p].closed_at = now]
  BY <1>2, <1>10
<1> HIDE DEF breach
<1>12. sent \in Nat /\ fee \in Nat /\ slash \in Nat
  BY <1>4, <1>6, <1>8
<1> USE <1>12
<1> WITNESS sent \in Nat, fee \in Nat, slash \in Nat
<1> QED BY <1>2, <1>8, <1>9, <1>11 DEF after, SettlesWith

\* cancel_position pays the vault out: the principal and its rent.
LEMMA CancelRecovers ==
  ASSUME TypeOK, LiveFit, RecordsInv, VaultHoldsPrincipal, NEW p \in Positions,
         CancelPosition(p)
  PROVE  Recovers(p)
<1> DEFINE t == TraderOf(p)
<1>1. /\ position[p].status = "Open" /\ position[p] \in PositionRecord /\ t \in Wallets
      /\ position_vault[p] \in Nat /\ RENT_EXEMPT_MINIMUM \in Nat
  BY PositionKeys, ProgramAssumption DEF CancelPosition, TypeOK, ProgramAssumption
<1>2. /\ position'[p].returned = position[p].principal
      /\ position'[p].fee_paid = 0 /\ position'[p].slashed = 0
  BY <1>1 DEF CancelPosition, RecordsInv, FreshUntilClosed, Closed, TypeOK, PositionRecord
<1>3. /\ wallet'[t] = wallet[t] + position_vault[p] /\ wallet[t] \in Nat
      /\ position_vault'[p] = 0
  BY <1>1 DEF CancelPosition, Credit, TypeOK
<1>4. position_vault[p] >= RENT_EXEMPT_MINIMUM + position[p].principal
  BY <1>1 DEF VaultHoldsPrincipal
<1>5. /\ position[p].principal \in Nat /\ position[p].locked_collateral \in Nat
      /\ position[p].locked_collateral <= position[p].principal
  BY <1>1, BondFits DEF IsLive
<1>6. TraderPayout(position'[p]) = position[p].principal
  BY <1>2, <1>5 DEF TraderPayout
<1> HIDE DEF t
<1> QED BY <1>1, <1>3, <1>4, <1>5, <1>6 DEF Recovers, t

\* claim_default pays the bond out of the agent's vault, and the rent.
LEMMA ClaimRecovers ==
  ASSUME TypeOK, RecordsInv, VaultHoldsPrincipal, NEW p \in Positions, ClaimDefault(p)
  PROVE  Recovers(p)
<1> DEFINE t    == TraderOf(p)
           bond == position[p].locked_collateral
<1>1. /\ position[p].status = "Trading" /\ position[p] \in PositionRecord /\ t \in Wallets
      /\ position_vault[p] \in Nat /\ RENT_EXEMPT_MINIMUM \in Nat /\ bond \in Nat
  BY PositionKeys, ProgramAssumption
     DEF ClaimDefault, TypeOK, ProgramAssumption, PositionRecord
<1>2. /\ position'[p].returned = 0 /\ position'[p].fee_paid = 0 /\ position'[p].slashed = bond
  BY <1>1 DEF ClaimDefault, RecordsInv, FreshUntilClosed, Closed, TypeOK, PositionRecord
<1>3. /\ wallet'[t] = wallet[t] + (bond + position_vault[p]) /\ wallet[t] \in Nat
      /\ position_vault'[p] = 0
  BY <1>1 DEF ClaimDefault, Credit, TypeOK
<1>4. position_vault[p] >= RENT_EXEMPT_MINIMUM
  BY <1>1 DEF VaultHoldsPrincipal
<1>5. TraderPayout(position'[p]) = bond
  BY <1>1, <1>2 DEF TraderPayout
<1> HIDE DEF t
<1> QED BY <1>1, <1>3, <1>4, <1>5 DEF Recovers, t

\* settle_position pays what was returned less the fee, what the bond makes up for,
\* and the rent.
LEMMA SettleRecovers ==
  ASSUME TypeOK, LiveFit, TermsInv, VaultHoldsPrincipal, NEW p \in Positions,
         NEW key \in Wallets, NEW returned \in Nat, SettlePosition(key, p, returned)
  PROVE  Recovers(p)
<1> DEFINE a         == AgentOf(p)
           t         == TraderOf(p)
           o         == OperatorOf[a]
           declined  == position[p].status = "Open"
           effective == IF declined THEN position[p].principal ELSE returned
<1>1. /\ IsLive(p) /\ position[p] \in PositionRecord /\ t \in Wallets /\ o \in Wallets
      /\ position_vault[p] \in Nat /\ RENT_EXEMPT_MINIMUM \in Nat /\ wallet[t] \in Nat
      /\ effective \in Nat
  BY PositionKeys, ProgramAssumption
     DEF SettlePosition, TypeOK, ProgramAssumption, PositionRecord
<1>2. PICK sent \in Nat, fee \in Nat, slash \in Nat :
        SettlesWith(p, key, returned, sent, fee, slash)
  BY SettleFacts
<1>3. /\ sent = IF declined THEN 0 ELSE returned
      /\ effective - fee + slash >= position[p].locked_collateral
      /\ position' = [position EXCEPT ![p].status = "Settled",
                                      ![p].breach = position'[p].breach,
                                      ![p].returned = effective, ![p].slashed = slash,
                                      ![p].fee_paid = fee, ![p].closed_at = now]
      /\ wallet' = Credit(Credit(Debit(wallet, key, sent), o, fee), t,
                          slash + position_vault[p] + sent - fee)
  BY <1>2 DEF SettlesWith
<1>4. TraderPayout(position'[p]) = effective - fee + slash
  <2>1. /\ position'[p].returned = effective /\ position'[p].fee_paid = fee
        /\ position'[p].slashed = slash
    BY <1>1, <1>3 DEF TypeOK, PositionRecord
  <2> QED BY <2>1 DEF TraderPayout
<1>5. position_vault'[p] = 0
  BY DEF SettlePosition, TypeOK
<1>6. position_vault[p] + sent >= effective + RENT_EXEMPT_MINIMUM
  <2>1. position[p].principal \in Nat
    BY <1>1 DEF PositionRecord
  <2>2. declined => position_vault[p] >= RENT_EXEMPT_MINIMUM + position[p].principal
    BY DEF VaultHoldsPrincipal
  <2>3. ~declined => position_vault[p] >= RENT_EXEMPT_MINIMUM
    BY <1>1 DEF VaultHoldsPrincipal, IsLive
  <2> QED BY <1>1, <1>3, <2>1, <2>2, <2>3
<1>7. ASSUME ~CanExecute(a, t)
      PROVE  wallet'[t] - wallet[t] >= TraderPayout(position'[p]) + RENT_EXEMPT_MINIMUM
  <2>1. t # key /\ t # o
    BY <1>7 DEF SettlePosition, CanExecute
  <2>2. wallet'[t] = wallet[t] + (slash + position_vault[p] + sent - fee)
    BY <1>1, <1>3, <2>1 DEF Credit, Debit, TypeOK
  <2> HIDE DEF t, effective
  <2> QED BY <1>1, <1>4, <1>6, <2>2
<1> HIDE DEF effective
<1> QED BY <1>3, <1>4, <1>5, <1>7 DEF Recovers

\* What ends a position is one of the three ways out of it.
LEMMA EndsAreExits ==
  ASSUME TypeOK, [Next]_vars, NEW p \in Positions, IsLive(p), Closed(p)'
  PROVE  \/ CancelPosition(p) \/ ClaimDefault(p)
         \/ \E key \in Wallets, returned \in Nat : SettlePosition(key, p, returned)
<1>1. position'[p].status # position[p].status
  BY DEF IsLive, Closed
<1>2. ~UNCHANGED position
  BY <1>1
<1>3. \A a \in Agents : ~OperatorNext(a)
  BY <1>2, OperatorLeavesPositions
<1>4. PICK q \in Positions : TraderNext(q) \/ ExecutorNext(q)
  BY <1>2, <1>3 DEF Next, Tick, SystemTransfer, vars
<1>5. \A returned \in Returns : returned \in Nat
  BY ProgramAssumption DEF ProgramAssumption
<1>6. q = p
  <2>1. \A r \in Positions \ {q} : position'[r] = position[r]
    <3>1. ASSUME NEW amount, NEW duration, OpenPosition(q, amount, duration)
          PROVE  \A r \in Positions \ {q} : position'[r] = position[r]
      BY <3>1 DEF OpenPosition, TypeOK
    <3>2. ASSUME NEW key \in Wallets, DrawFunds(key, q)
          PROVE  \A r \in Positions \ {q} : position'[r] = position[r]
      BY <3>2 DEF DrawFunds, TypeOK
    <3>3. ASSUME NEW slash \in Nat, Settles(q, slash)
          PROVE  \A r \in Positions \ {q} : position'[r] = position[r]
      BY <3>3 DEF Settles
    <3> QED BY <1>4, <1>5, <3>1, <3>2, <3>3, ClosesSettle DEF TraderNext, ExecutorNext
  <2> QED BY <1>1, <2>1
<1>7. ASSUME NEW amount, NEW duration, OpenPosition(p, amount, duration) PROVE FALSE
  BY <1>7 DEF OpenPosition, IsLive
<1>8. ASSUME NEW key \in Wallets, DrawFunds(key, p) PROVE FALSE
  BY <1>8 DEF DrawFunds, Closed, TypeOK, PositionRecord
<1> QED BY <1>4, <1>5, <1>6, <1>7, <1>8 DEF TraderNext, ExecutorNext

\* On every way out, whatever was called before, the trader loses at most
\* principal - bond and the reported payout really arrives with the rent, if the
\* trader is not also the agent's key.
THEOREM TraderAlwaysRecovers == Spec => TraderRecoversBond
<1> DEFINE Inv == TypeOK /\ LiveFit /\ TermsInv /\ RecordsInv /\ VaultHoldsPrincipal
<1>1. ASSUME Inv, [Next]_vars, NEW p \in Positions, IsLive(p), Closed(p)'
      PROVE  Recovers(p)
  BY <1>1, EndsAreExits, CancelRecovers, ClaimRecovers, SettleRecovers
<1>2. Inv /\ [Next]_vars =>
        [ \A p \in Positions : IsLive(p) /\ Closed(p)' =>
            LET a == AgentOf(p)
                t == TraderOf(p)
            IN  /\ TraderPayout(position'[p]) >= position[p].locked_collateral
                /\ position_vault'[p] = 0
                /\ ~CanExecute(a, t) =>
                     wallet'[t] - wallet[t] >=
                       TraderPayout(position'[p]) + RENT_EXEMPT_MINIMUM ]_vars
  BY <1>1 DEF Recovers
<1>3. Init => LiveFit /\ VaultHoldsPrincipal
  BY DEF Init, AbsentPosition, LiveFit, IsLive, VaultHoldsPrincipal
<1> QED BY <1>2, <1>3, InitTypeOK, NextTypeOK, NextFit, InitTerms, NextTerms, InitCounters,
           NextCounters, InitRecords, NextRecords, NextHolds, PTL DEF Spec, TraderRecoversBond
-----------------------------------------------------------------------------
(* One bond per position *)

\* What SegregatedBonds sees of the agents and positions.
Free    == [a \in Agents |-> agent[a].total_collateral - agent[a].locked_collateral]
Aside   == [p \in Positions |-> IF IsLive(p) THEN position[p].locked_collateral ELSE 0]
Escrows == [p \in Positions |-> IF position[p].status = "Open"
                                THEN position[p].principal ELSE 0]
Stages  == [p \in Positions |-> CASE position[p].status = "Absent"  -> "absent"
                                  [] position[p].status = "Open"    -> "open"
                                  [] position[p].status = "Trading" -> "trading"
                                  [] OTHER                          -> "closed"]
Payouts == [p \in Positions |-> IF Closed(p) THEN TraderPayout(position[p]) ELSE 0]

\* What it sees of a position depends on that position alone.
LEMMA OnePosition ==
  ASSUME NEW p \in Positions, \A q \in Positions \ {p} : position'[q] = position[q]
  PROVE  /\ Aside' = [Aside EXCEPT ![p] = Aside'[p]]
         /\ Escrows' = [Escrows EXCEPT ![p] = Escrows'[p]]
         /\ Stages' = [Stages EXCEPT ![p] = Stages'[p]]
         /\ Payouts' = [Payouts EXCEPT ![p] = Payouts'[p]]
<1>1. Aside' = [Aside EXCEPT ![p] = Aside'[p]]
  BY DEF Aside, IsLive
<1>2. Escrows' = [Escrows EXCEPT ![p] = Escrows'[p]]
  BY DEF Escrows
<1>3. Stages' = [Stages EXCEPT ![p] = Stages'[p]]
  BY DEF Stages
<1>4. Payouts' = [Payouts EXCEPT ![p] = Payouts'[p]]
  BY DEF Payouts, Closed
<1> QED BY <1>1, <1>2, <1>3, <1>4

\* And of an agent on that agent alone.
LEMMA OneAgent ==
  ASSUME NEW a \in Agents, \A b \in Agents \ {a} : agent'[b] = agent[b]
  PROVE  Free' = [Free EXCEPT ![a] = Free'[a]]
BY DEF Free

\* What guarantees no position is never negative.
LEMMA FreeIsNat ==
  ASSUME TypeOK', VaultBacksBonds', CountersInv', NEW a \in Agents
  PROVE  Free'[a] \in Nat
<1>1. agent'[a].total_collateral \in Nat /\ agent'[a].locked_collateral \in Nat
  BY DEF TypeOK, AgentRecord
<1>2. agent'[a].locked_collateral <= agent'[a].total_collateral
  BY <1>1 DEF VaultBacksBonds, CountersInv
<1> QED BY <1>1, <1>2 DEF Free

\* The operator moves only what guarantees no position.
LEMMA OperatorMovesFree ==
  ASSUME TypeOK, TypeOK', VaultBacksBonds', CountersInv', NEW a \in Agents, OperatorNext(a)
  PROVE  Segregated!MoveFree(a)
<1>1. \A b \in Agents \ {a} : agent'[b] = agent[b]
  BY DEF OperatorNext, CreateAgent, UpdateAgent, PublishAgent, SetExecutor, SetAccepting,
         DepositCollateral, WithdrawCollateral, TypeOK
<1>2. position' = position
  BY OperatorLeavesPositions
<1>3. Free'[a] \in Nat /\ Free' = [Free EXCEPT ![a] = Free'[a]]
  BY <1>1, FreeIsNat, OneAgent
<1>4. UNCHANGED <<Aside, Escrows, Stages, Payouts>>
  BY <1>2 DEF Aside, Escrows, Stages, Payouts, IsLive, Closed
<1> QED BY <1>3, <1>4 DEF Segregated!MoveFree, Free, Aside, Escrows, Stages, Payouts

\* open_position puts a bond aside that is positive and at most the principal.
LEMMA OpenPutsAside ==
  ASSUME TypeOK, TermsInv, NEW p \in Positions, NEW amount \in Nat, NEW duration \in Nat,
         OpenPosition(p, amount, duration)
  PROVE  Segregated!Put(p)
<1> DEFINE a     == AgentOf(p)
           terms == agent[a].terms
           bond  == RequiredCollateral(amount, terms.collateral_ratio_bps)
<1>1. a \in Agents /\ agent[a] \in AgentRecord /\ terms \in AgentTerms
  BY PositionKeys DEF TypeOK, AgentRecord
<1>2. /\ Opens(p) /\ amount > 0 /\ position'[p].principal = amount
      /\ position'[p].locked_collateral = bond
      /\ RatioAndDrawdownFit(terms.collateral_ratio_bps, terms.max_drawdown_bps)
  BY OpenOpens
<1>3. /\ terms.collateral_ratio_bps \in Nat \ {0} /\ terms.max_drawdown_bps \in Nat
  BY <1>1, <1>2, FeeIsShare DEF Opens, TermsInv, AgentTerms
<1>4. bond \in Nat /\ bond >= 1 /\ bond <= amount
  <2> DEFINE ratio == terms.collateral_ratio_bps
             loss  == Bps(amount, terms.max_drawdown_bps)
  <2>1. bond \in Nat /\ amount * ratio <= BPS_DENOMINATOR * bond
    BY <1>3, RequiredCollateralBounds
  <2>2. loss \in Nat /\ bond + loss <= amount
    BY <1>2, <1>3, BondAndToleranceFit, BpsBounds
  <2>3. amount * 1 <= amount * ratio
    BY <1>3, ProductMonotone
  <2>4. BPS_DENOMINATOR \in Nat /\ amount * ratio \in Nat
    BY <1>3, ProductIsNat, ConstantsAssumption DEF ConstantsAssumption
  <2> HIDE DEF bond, ratio, loss
  <2>5. bond # 0
    BY <1>2, <2>1, <2>3, <2>4
  <2> QED BY <2>1, <2>2, <2>5
<1> HIDE DEF bond, terms
<1>5. /\ Aside'[p] = bond /\ Escrows'[p] = amount /\ Stages'[p] = "open"
      /\ Stages[p] = "absent" /\ Payouts'[p] = Payouts[p]
  BY <1>2 DEF Opens, Aside, Escrows, Stages, Payouts, IsLive, Closed
<1>6. Payouts' = Payouts
  BY <1>2, <1>5, OnePosition DEF Opens, Payouts
<1>7. /\ Aside' = [Aside EXCEPT ![p] = Aside'[p]]
      /\ Escrows' = [Escrows EXCEPT ![p] = Escrows'[p]]
      /\ Stages' = [Stages EXCEPT ![p] = "open"]
  BY <1>2, <1>5, OnePosition DEF Opens
<1>8. Aside'[p] \in 1..Free[a] /\ Free'[a] = Free[a] - Aside'[p]
  <2>1. /\ agent'[a].total_collateral = agent[a].total_collateral
        /\ agent'[a].locked_collateral = agent[a].locked_collateral + bond
        /\ bond <= FreeCollateral(agent[a])
    BY <1>2 DEF Opens
  <2>2. agent[a].total_collateral \in Nat /\ agent[a].locked_collateral \in Nat
    BY <1>1 DEF AgentRecord
  <2>3. /\ Free[a] = agent[a].total_collateral - agent[a].locked_collateral
        /\ Free'[a] = agent'[a].total_collateral - agent'[a].locked_collateral
    BY <1>1 DEF Free
  <2> HIDE DEF a
  <2> QED BY <1>4, <1>5, <2>1, <2>2, <2>3 DEF FreeCollateral
<1>9. Free' = [Free EXCEPT ![a] = Free[a] - Aside'[p]]
  BY <1>1, <1>2, <1>8, OneAgent DEF Opens
<1> QED BY <1>4, <1>5, <1>6, <1>7, <1>8, <1>9
        DEF Segregated!Put, Free, Aside, Escrows, Stages, Payouts

\* draw_funds takes the principal and leaves the bond where it is.
LEMMA DrawDraws ==
  ASSUME TypeOK, NEW p \in Positions, NEW key \in Wallets, DrawFunds(key, p)
  PROVE  Segregated!Draw(p)
<1>1. /\ \A q \in Positions \ {p} : position'[q] = position[q]
      /\ position[p].status = "Open" /\ position'[p].status = "Trading"
      /\ position'[p].locked_collateral = position[p].locked_collateral
      /\ agent' = agent
  BY DEF DrawFunds, TypeOK, PositionRecord
<1>2. /\ Stages[p] = "open" /\ Stages'[p] = "trading" /\ Escrows'[p] = 0
      /\ Aside'[p] = Aside[p] /\ Payouts'[p] = Payouts[p]
  BY <1>1 DEF Stages, Escrows, Aside, Payouts, IsLive, Closed
<1>3. /\ Escrows' = [Escrows EXCEPT ![p] = 0]
      /\ Stages' = [Stages EXCEPT ![p] = "trading"]
      /\ Aside' = [Aside EXCEPT ![p] = Aside[p]] /\ Payouts' = [Payouts EXCEPT ![p] = Payouts[p]]
  BY <1>1, <1>2, OnePosition
<1>4. Aside' = Aside /\ Payouts' = Payouts
  BY <1>3 DEF Aside, Payouts
<1>5. Free' = Free
  BY <1>1 DEF Free
<1> QED BY <1>2, <1>3, <1>4, <1>5
        DEF Segregated!Draw, Free, Aside, Escrows, Stages, Payouts

\* An open position ends with its principal paid out and nothing taken.
LEMMA OpenEndsFree ==
  ASSUME TypeOK, LiveFit, TermsInv, RecordsInv, NEW p \in Positions,
         position[p].status = "Open",
         \/ CancelPosition(p) \/ ClaimDefault(p)
         \/ \E key \in Wallets, returned \in Nat : SettlePosition(key, p, returned)
  PROVE  /\ TraderPayout(position'[p]) = position[p].principal
         /\ agent'[AgentOf(p)].total_collateral = agent[AgentOf(p)].total_collateral
<1>1. /\ position[p] \in PositionRecord /\ position[p].principal \in Nat
      /\ AgentOf(p) \in Agents /\ agent[AgentOf(p)] \in AgentRecord
      /\ agent[AgentOf(p)].total_collateral \in Nat
  BY PositionKeys DEF TypeOK, PositionRecord, AgentRecord
<1>2. CASE CancelPosition(p)
  <2>1. /\ position'[p].returned = position[p].principal
        /\ position'[p].fee_paid = 0 /\ position'[p].slashed = 0
    BY <1>1, <1>2 DEF CancelPosition, RecordsInv, FreshUntilClosed, Closed, TypeOK,
                      PositionRecord
  <2>2. agent'[AgentOf(p)].total_collateral = agent[AgentOf(p)].total_collateral
    BY <1>1, <1>2 DEF CancelPosition, Released, TypeOK, AgentRecord
  <2> QED BY <1>1, <2>1, <2>2 DEF TraderPayout
<1>3. ASSUME NEW key \in Wallets, NEW returned \in Nat, SettlePosition(key, p, returned)
      PROVE  /\ TraderPayout(position'[p]) = position[p].principal
             /\ agent'[AgentOf(p)].total_collateral = agent[AgentOf(p)].total_collateral
  <2>1. PICK sent \in Nat, fee \in Nat, slash \in Nat :
          SettlesWith(p, key, returned, sent, fee, slash)
    BY <1>3, SettleFacts
  <2>2. /\ fee = 0 /\ slash = 0
        /\ agent'[AgentOf(p)].total_collateral = agent[AgentOf(p)].total_collateral - slash
        /\ position'[p].returned = position[p].principal
        /\ position'[p].fee_paid = fee /\ position'[p].slashed = slash
    BY <1>1, <2>1 DEF SettlesWith, TypeOK, PositionRecord
  <2> QED BY <1>1, <2>2 DEF TraderPayout
<1>4. ~ClaimDefault(p)
  BY DEF ClaimDefault
<1> QED BY <1>2, <1>3, <1>4

\* Every way out of a position is the end of its own bond.
LEMMA ExitCloses ==
  ASSUME TypeOK, TypeOK', LiveFit, TermsInv, RecordsInv, VaultHoldsPrincipal,
         NEW p \in Positions,
         \/ CancelPosition(p) \/ ClaimDefault(p)
         \/ \E key \in Wallets, returned \in Nat : SettlePosition(key, p, returned)
  PROVE  Segregated!Close(p)
<1> DEFINE a == AgentOf(p)
<1>1. PICK slash \in Nat : Settles(p, slash)
  BY ClosesSettle
<1>2. /\ a \in Agents /\ IsLive(p)
      /\ position[p].locked_collateral \in Nat /\ position[p].principal \in Nat
      /\ agent[a].total_collateral \in Nat /\ agent'[a].total_collateral \in Nat
      /\ agent[a].locked_collateral \in Nat
  BY <1>1, PositionKeys DEF Settles, TypeOK, PositionRecord, AgentRecord
<1>3. /\ Closed(p)' /\ position'[p] \in PositionRecord
      /\ position'[p].status \notin {"Absent", "Open", "Trading"}
  BY <1>1 DEF Settles, Closed, TypeOK, PositionRecord, PositionStatus
<1>4. TraderPayout(position'[p]) >= position[p].locked_collateral
  BY CancelRecovers, ClaimRecovers, SettleRecovers DEF Recovers
<1>5. TraderPayout(position'[p]) \in Int
  BY <1>3 DEF TraderPayout, PositionRecord
<1>6. /\ Stages[p] = IF position[p].status = "Open" THEN "open" ELSE "trading"
      /\ Aside[p] = position[p].locked_collateral
      /\ position[p].status = "Open" => Escrows[p] = position[p].principal
      /\ Stages'[p] = "closed" /\ Aside'[p] = 0 /\ Escrows'[p] = 0
      /\ Payouts'[p] = TraderPayout(position'[p])
  BY <1>2, <1>3 DEF Stages, Aside, Escrows, Payouts, IsLive, Closed
<1>7. position[p].status = "Open" =>
        TraderPayout(position'[p]) = position[p].principal /\ slash = 0
  <2> SUFFICES ASSUME position[p].status = "Open"
               PROVE  TraderPayout(position'[p]) = position[p].principal /\ slash = 0
    OBVIOUS
  <2>1. /\ TraderPayout(position'[p]) = position[p].principal
        /\ agent'[a].total_collateral = agent[a].total_collateral
    BY OpenEndsFree
  <2>2. agent'[a].total_collateral = agent[a].total_collateral - slash
    BY <1>1 DEF Settles
  <2> QED BY <1>2, <2>1, <2>2
<1>8. /\ Aside' = [Aside EXCEPT ![p] = 0] /\ Escrows' = [Escrows EXCEPT ![p] = 0]
      /\ Stages' = [Stages EXCEPT ![p] = "closed"]
      /\ Payouts' = [Payouts EXCEPT ![p] = Payouts'[p]]
  BY <1>1, <1>6, OnePosition DEF Settles
<1>9. slash \in 0..(IF Stages[p] = "open" THEN 0 ELSE Aside[p])
  BY <1>1, <1>2, <1>6, <1>7 DEF Settles
<1>10. Free' = [Free EXCEPT ![a] = Free[a] + Aside[p] - slash]
  <2>1. /\ Free[a] = agent[a].total_collateral - agent[a].locked_collateral
        /\ Free'[a] = agent'[a].total_collateral - agent'[a].locked_collateral
        /\ agent'[a].total_collateral = agent[a].total_collateral - slash
        /\ agent'[a].locked_collateral
             = agent[a].locked_collateral - position[p].locked_collateral
    BY <1>1, <1>2 DEF Free, Settles
  <2>2. Free'[a] = Free[a] + Aside[p] - slash
    BY <1>2, <1>6, <2>1
  <2>3. Free' = [Free EXCEPT ![a] = Free'[a]]
    BY <1>1, <1>2, OneAgent DEF Settles
  <2> QED BY <2>2, <2>3
<1>11. /\ Payouts'[p] \in Nat
       /\ IF Stages[p] = "open" THEN Payouts'[p] = Escrows[p] ELSE Payouts'[p] >= Aside[p]
  BY <1>2, <1>4, <1>5, <1>6, <1>7
<1>12. Stages[p] \in {"open", "trading"}
  BY <1>6
<1> QED BY <1>8, <1>9, <1>10, <1>11, <1>12
        DEF Segregated!Close, Free, Aside, Escrows, Stages, Payouts

\* The pooled vault and the counters behave as if every position had a bond of its
\* own, put aside when it opens and used for nothing else.
THEOREM BondsAreKeptApart == Spec => BondsAreSegregated
<1> DEFINE Inv == /\ TypeOK /\ LiveFit /\ TermsInv /\ RecordsInv /\ VaultHoldsPrincipal
                  /\ VaultBacksBonds /\ CountersInv
<1>1. Init => Segregated!Init
  <2> SUFFICES ASSUME Init PROVE Segregated!Init
    OBVIOUS
  <2>1. ASSUME NEW a \in Agents
        PROVE  agent[a].total_collateral = 0 /\ agent[a].locked_collateral = 0
    <3>1. agent[a] \in AgentAtStart(a)
      BY DEF Init
    <3> QED BY <3>1 DEF AgentAtStart, AbsentAgent, LegacyAgent, NewAgent
  <2>2. \A p \in Positions : position[p].status = "Absent"
    BY DEF Init, AbsentPosition
  <2> QED BY <2>1, <2>2 DEF Segregated!Init, IsLive, Closed
<1>2. Inv /\ Inv' /\ [Next]_vars => [Segregated!Next]_(Segregated!vars)
  <2> SUFFICES ASSUME Inv, Inv', [Next]_vars PROVE [Segregated!Next]_(Segregated!vars)
    OBVIOUS
  <2>1. ASSUME NEW a \in Agents, OperatorNext(a) PROVE Segregated!Next
    BY <2>1, OperatorMovesFree DEF Segregated!Next
  <2>2. ASSUME NEW p \in Positions, TraderNext(p) \/ ExecutorNext(p) PROVE Segregated!Next
    <3>1. /\ \A returned \in Returns : returned \in Nat
          /\ \A amount \in Amounts : amount \in Nat
      BY ProgramAssumption DEF ProgramAssumption
    <3>2. \A duration \in MIN_POSITION_DURATION..MAX_POSITION_DURATION : duration \in Nat
      BY ConstantsAssumption DEF ConstantsAssumption
    <3>3. Segregated!Put(p) \/ Segregated!Draw(p) \/ Segregated!Close(p)
      BY <2>2, <3>1, <3>2, OpenPutsAside, DrawDraws, ExitCloses DEF TraderNext, ExecutorNext
    <3> QED BY <3>3 DEF Segregated!Next
  <2>3. ASSUME UNCHANGED <<agent, position>> PROVE UNCHANGED Segregated!vars
    BY <2>3 DEF Segregated!vars, IsLive, Closed
  <2> QED BY <2>1, <2>2, <2>3 DEF Next, Tick, SystemTransfer, vars
<1>3. Init => LiveFit /\ VaultHoldsPrincipal
  BY DEF Init, AbsentPosition, LiveFit, IsLive, VaultHoldsPrincipal
<1> QED BY <1>1, <1>2, <1>3, InitTypeOK, NextTypeOK, NextFit, InitTerms, NextTerms,
           InitCounters, NextCounters, InitRecords, NextRecords, NextHolds, InitBacks,
           NextBacks, PTL DEF Spec, BondsAreSegregated, Segregated!Spec
-----------------------------------------------------------------------------
(* Nothing blocks a close *)

\* cancel_position checks what CancelPasses says and nothing else: the rest of the
\* action gives each variable its next value, so it is enabled exactly then.
LEMMA CancelIsItsChecks ==
  ASSUME NEW p \in Positions
  PROVE  CancelPosition(p) <=>
           /\ CancelPasses(p)
           /\ agent' = [agent EXCEPT ![AgentOf(p)] = Released(agent[AgentOf(p)], position[p])]
           /\ position' = [position EXCEPT ![p].status = "Cancelled",
                                           ![p].returned = position[p].principal,
                                           ![p].closed_at = now]
           /\ wallet' = Credit(wallet, TraderOf(p), position_vault[p])
           /\ position_vault' = [position_vault EXCEPT ![p] = 0]
           /\ agent_vault' = agent_vault
           /\ now' = now
<1>1. ASSUME wallet' = Credit(wallet, TraderOf(p), position_vault[p])
      PROVE  RentExempt(wallet', {TraderOf(p)})
               <=> RentExempt(Credit(wallet, TraderOf(p), position_vault[p]), {TraderOf(p)})
  BY <1>1
<1> QED BY <1>1, Zenon DEF CancelPosition, CancelPasses

\* claim_default checks what ClaimPasses says and nothing else.
LEMMA ClaimIsItsChecks ==
  ASSUME NEW p \in Positions
  PROVE  LET a     == AgentOf(p)
             slash == position[p].locked_collateral
         IN  ClaimDefault(p) <=>
               /\ ClaimPasses(p)
               /\ agent' = [agent EXCEPT ![a] =
                              [Released(Slashed(agent[a], slash), position[p])
                                 EXCEPT !.defaulted_positions = @ + 1, !.breach_count = @ + 1]]
               /\ position' = [position EXCEPT ![p].status = "Defaulted",
                                               ![p].breach = "MissedDeadline",
                                               ![p].slashed = slash,
                                               ![p].closed_at = now]
               /\ agent_vault' = Debit(agent_vault, a, slash)
               /\ wallet' = Credit(wallet, TraderOf(p), slash + position_vault[p])
               /\ position_vault' = [position_vault EXCEPT ![p] = 0]
               /\ now' = now
<1> DEFINE a     == AgentOf(p)
           slash == position[p].locked_collateral
<1>1. ASSUME wallet' = Credit(wallet, TraderOf(p), slash + position_vault[p])
      PROVE  RentExempt(wallet', {TraderOf(p)})
               <=> RentExempt(Credit(wallet, TraderOf(p), slash + position_vault[p]),
                              {TraderOf(p)})
  BY <1>1
<1>2. ASSUME agent_vault' = Debit(agent_vault, a, slash)
      PROVE  RentExempt(agent_vault', {a}) <=> RentExempt(Debit(agent_vault, a, slash), {a})
  BY <1>2
<1> QED BY <1>1, <1>2, Zenon DEF ClaimDefault, ClaimPasses

\* settle_position checks what SettlePasses says and nothing else.
LEMMA SettleIsItsChecks ==
  ASSUME NEW p \in Positions, NEW key \in Wallets, NEW returned
  PROVE  LET a        == AgentOf(p)
             declined == position[p].status = "Open"
             s        == SettlementOf(p, returned)
             fee      == FeeOf(key, p, returned)
             breach   == BreachOf(~declined /\ DeadlineReached(p), s.slash)
         IN  SettlePosition(key, p, returned) <=>
               /\ SettlePasses(key, p, returned)
               /\ agent' = [agent EXCEPT ![a] =
                     [Released(Slashed(agent[a], s.slash), position[p])
                        EXCEPT !.settled_positions = IF declined THEN @ ELSE @ + 1,
                               !.breach_count = IF breach = "None" THEN @ ELSE @ + 1,
                               !.fees_earned = @ + fee]]
               /\ position' = [position EXCEPT ![p].status = "Settled",
                                 ![p].breach = breach,
                                 ![p].returned = IF declined THEN position[p].principal
                                                 ELSE returned,
                                 ![p].slashed = s.slash,
                                 ![p].fee_paid = fee,
                                 ![p].closed_at = now]
               /\ agent_vault' = Debit(agent_vault, a, s.slash)
               /\ wallet' = WalletsAfter(key, p, returned)
               /\ position_vault' = [position_vault EXCEPT ![p] = 0]
               /\ now' = now
<1> DEFINE a         == AgentOf(p)
           pos       == position[p]
           operator  == OperatorOf[a]
           trader    == TraderOf(p)
           declined  == pos.status = "Open"
           sent      == IF declined THEN 0 ELSE returned
           effective == IF declined THEN pos.principal ELSE returned
           s         == ComputeSettlement(pos.principal, effective, pos.fee_bps,
                                          pos.max_drawdown_bps, pos.locked_collateral)
           after     == Debit(wallet, key, sent)
           fee       == FeePaid(after, operator, trader, s.fee)
           breach    == BreachOf(~declined /\ DeadlineReached(p), s.slash)
<1>1. /\ SettlementOf(p, returned) = s
      /\ SentFor(p, returned) = sent
      /\ BreachFor(p, returned) = breach
  BY DEF SettlementOf, SentFor, BreachFor
<1>2. FeeOf(key, p, returned) = fee
  BY <1>1, Zenon DEF FeeOf
<1>3. WalletsAfter(key, p, returned)
        = Credit(Credit(after, operator, fee), trader, s.slash + position_vault[p] + sent - fee)
  BY <1>1, <1>2, Zenon DEF WalletsAfter
<1>4. SettlePasses(key, p, returned) <=>
        /\ IsLive(p) /\ CanExecute(a, key)
        /\ wallet[key] >= sent /\ position_vault[p] + sent >= fee
        /\ CanSlash(a, s.slash) /\ CanRelease(agent[a], pos)
        /\ ~declined => agent[a].settled_positions < U32_MAX
        /\ breach # "None" => agent[a].breach_count < U32_MAX
        /\ agent[a].fees_earned + fee <= U64_MAX
        /\ RentExempt(Debit(agent_vault, a, s.slash), {a})
        /\ RentExempt(WalletsAfter(key, p, returned), {key, operator, trader})
  <2> HIDE DEF s, sent, fee, breach
  <2> QED BY <1>1, <1>2, Zenon DEF SettlePasses
<1> DEFINE Agents1 == agent' = [agent EXCEPT ![a] =
                        [Released(Slashed(agent[a], s.slash), pos)
                           EXCEPT !.settled_positions = IF declined THEN @ ELSE @ + 1,
                                  !.breach_count = IF breach = "None" THEN @ ELSE @ + 1,
                                  !.fees_earned = @ + fee]]
           Positions1 == position' = [position EXCEPT ![p].status = "Settled",
                           ![p].breach = breach, ![p].returned = effective,
                           ![p].slashed = s.slash, ![p].fee_paid = fee,
                           ![p].closed_at = now]
           Vault1 == agent_vault' = Debit(agent_vault, a, s.slash)
           Wallets1 == wallet' = Credit(Credit(after, operator, fee), trader,
                                        s.slash + position_vault[p] + sent - fee)
           Emptied == position_vault' = [position_vault EXCEPT ![p] = 0]
<1>5. SettlePosition(key, p, returned) <=>
        /\ IsLive(p) /\ CanExecute(a, key)
        /\ wallet[key] >= sent /\ position_vault[p] + sent >= fee
        /\ CanSlash(a, s.slash) /\ CanRelease(agent[a], pos)
        /\ ~declined => agent[a].settled_positions < U32_MAX
        /\ breach # "None" => agent[a].breach_count < U32_MAX
        /\ agent[a].fees_earned + fee <= U64_MAX
        /\ Agents1 /\ Positions1 /\ Vault1 /\ Wallets1 /\ Emptied
        /\ RentExempt(agent_vault', {a})
        /\ RentExempt(wallet', {key, operator, trader})
        /\ now' = now
  BY Zenon DEF SettlePosition
<1>6. /\ Wallets1 <=> wallet' = WalletsAfter(key, p, returned)
      /\ wallet' = WalletsAfter(key, p, returned) =>
           (RentExempt(wallet', {key, operator, trader})
              <=> RentExempt(WalletsAfter(key, p, returned), {key, operator, trader}))
  <2>1. Wallets1 <=> wallet' = WalletsAfter(key, p, returned)
    BY <1>3
  <2>2. ASSUME wallet' = WalletsAfter(key, p, returned)
        PROVE  RentExempt(wallet', {key, operator, trader})
                 <=> RentExempt(WalletsAfter(key, p, returned), {key, operator, trader})
    <3> HIDE DEF operator, trader
    <3> QED BY <2>2
  <2> QED BY <2>1, <2>2
<1>7. Vault1 => (RentExempt(agent_vault', {a})
                   <=> RentExempt(Debit(agent_vault, a, s.slash), {a}))
  OBVIOUS
<1> HIDE DEF a, pos, operator, trader, sent, s, after, fee, Agents1, Positions1, Vault1,
             Wallets1, Emptied
<1>8. SettlePosition(key, p, returned) <=>
        /\ SettlePasses(key, p, returned)
        /\ Agents1 /\ Positions1 /\ Vault1 /\ wallet' = WalletsAfter(key, p, returned)
        /\ Emptied /\ now' = now
  BY <1>4, <1>5, <1>6, <1>7, Zenon
<1> QED BY <1>1, <1>2, <1>8, Zenon DEF Agents1, Positions1, Vault1, Emptied, a, pos

\* No position of a sum has more lamports than the sum.
LEMMA MemberAtMostSum ==
  ASSUME NEW f, NEW S, NEW n \in Nat, NEW p \in S, SumsTo(f, S, n), f[p] \in Nat
  PROVE  f[p] <= n
<1> DEFINE one == {p} \X (1..f[p])
<1>1. one \subseteq Lamports(f, S)
  BY DEF Lamports
<1>2. Cardinality(one) = f[p]
  BY LamportsOfOne
<1>3. IsFiniteSet(Lamports(f, S)) /\ Cardinality(Lamports(f, S)) = n
  BY DEF SumsTo, Total
<1> HIDE DEF one
<1>4. Cardinality(one) <= Cardinality(Lamports(f, S))
  BY <1>1, <1>3, FS_Subset
<1> QED BY <1>2, <1>3, <1>4

\* The counters of an agent with a live position hold its reservation: releasing it
\* traps nowhere.
LEMMA LiveCanRelease ==
  ASSUME TypeOK, CountersInv, NEW p \in Positions, IsLive(p)
  PROVE  /\ CanRelease(agent[AgentOf(p)], position[p])
         /\ agent[AgentOf(p)].status # "Absent"
<1> DEFINE a == AgentOf(p)
<1>1. /\ a \in Agents /\ p \in LiveOf(a)
      /\ Bonds[p] = position[p].locked_collateral
      /\ Principals[p] = position[p].principal
  BY PositionKeys, LiveMembers DEF Bonds, Principals
<1>2. /\ agent[a].locked_collateral \in Nat /\ agent[a].capital_managed \in Nat
      /\ agent[a].open_positions \in Nat
      /\ position[p].locked_collateral \in Nat /\ position[p].principal \in Nat
  BY <1>1 DEF TypeOK, AgentRecord, PositionRecord
<1> HIDE DEF a
<1>3. /\ SumsTo(Bonds, LiveOf(a), agent[a].locked_collateral)
      /\ SumsTo(Principals, LiveOf(a), agent[a].capital_managed)
      /\ IsFiniteSet(LiveOf(a)) /\ Cardinality(LiveOf(a)) = agent[a].open_positions
      /\ agent[a].status = "Absent" => LiveOf(a) = {}
  BY <1>1 DEF CountersInv
<1>4. /\ position[p].locked_collateral <= agent[a].locked_collateral
      /\ position[p].principal <= agent[a].capital_managed
  BY <1>1, <1>2, <1>3, MemberAtMostSum
<1>5. agent[a].open_positions # 0
  BY <1>1, <1>3, FS_EmptySet
<1>6. CanRelease(agent[a], position[p]) /\ agent[a].status # "Absent"
  BY <1>1, <1>2, <1>3, <1>4, <1>5 DEF CanRelease
<1> QED BY <1>6 DEF a

\* The vault can pay any part of a live position's bond and keeps its rent.
LEMMA LiveCanSlash ==
  ASSUME TypeOK, CountersInv, VaultBacksBonds, NEW p \in Positions, IsLive(p),
         NEW slash \in Nat, slash <= position[p].locked_collateral,
         agent[AgentOf(p)].slashed_total + slash <= U64_MAX
  PROVE  /\ CanSlash(AgentOf(p), slash)
         /\ RentExempt(Debit(agent_vault, AgentOf(p), slash), {AgentOf(p)})
<1> DEFINE a == AgentOf(p)
<1>1. a \in Agents
  BY PositionKeys
<1>2. /\ agent[a].locked_collateral \in Nat /\ agent[a].total_collateral \in Nat
      /\ agent_vault[a] \in Nat /\ position[p].locked_collateral \in Nat
      /\ agent_vault \in [Agents -> Nat] /\ RENT_EXEMPT_MINIMUM \in Nat
  BY <1>1, ProgramAssumption DEF TypeOK, AgentRecord, PositionRecord, ProgramAssumption
<1>3. /\ position[p].locked_collateral <= agent[a].locked_collateral
      /\ agent[a].locked_collateral <= agent[a].total_collateral
      /\ agent_vault[a] >= RENT_EXEMPT_MINIMUM + agent[a].total_collateral
  BY <1>1, LiveCanRelease DEF CanRelease, VaultBacksBonds
<1> HIDE DEF a
<1>4. CanSlash(a, slash)
  BY <1>2, <1>3 DEF CanSlash, a
<1>5. Debit(agent_vault, a, slash)[a] = agent_vault[a] - slash
  BY <1>1, <1>2 DEF Debit
<1>6. RentExempt(Debit(agent_vault, a, slash), {a})
  BY <1>2, <1>3, <1>5 DEF RentExempt
<1> QED BY <1>4, <1>6 DEF a

\* A wallet that receives at least the rent minimum is exempt afterwards, and one
\* that receives anything has it on top of what it held.
LEMMA CreditedIsExempt ==
  ASSUME NEW balance \in [Wallets -> Nat], NEW k \in Wallets, NEW amount \in Nat,
         amount >= RENT_EXEMPT_MINIMUM
  PROVE  RentExempt(Credit(balance, k, amount), {k})
<1>1. Credit(balance, k, amount)[k] = balance[k] + amount
  BY DEF Credit
<1>2. RENT_EXEMPT_MINIMUM \in Nat /\ balance[k] \in Nat
  BY ProgramAssumption DEF ProgramAssumption
<1> QED BY <1>1, <1>2 DEF RentExempt

\* A step that wrote only accounts it left rent-exempt leaves all of them so.
LEMMA OthersStayExempt ==
  ASSUME RentExempt(wallet, Wallets), NEW keys, RentExempt(wallet', keys),
         \A w \in Wallets \ keys : wallet'[w] = wallet[w]
  PROVE  RentExempt(wallet, Wallets)'
BY DEF RentExempt

\* A payment between wallets touches nobody else's.
LEMMA OthersUntouched ==
  ASSUME NEW balance \in [Wallets -> Nat], NEW k, NEW amount
  PROVE  \A w \in Wallets \ {k} : /\ Credit(balance, k, amount)[w] = balance[w]
                                  /\ Debit(balance, k, amount)[w] = balance[w]
BY DEF Credit, Debit

\* A settlement touches the wallets of the key, the operator and the trader.
LEMMA SettleTouches ==
  ASSUME TypeOK, NEW p \in Positions, NEW key \in Wallets, NEW returned \in Nat
  PROVE  \A w \in Wallets \ {key, OperatorOf[AgentOf(p)], TraderOf(p)} :
           WalletsAfter(key, p, returned)[w] = wallet[w]
BY DEF WalletsAfter, Credit, Debit, TypeOK

\* The runtime's rule keeps every wallet rent-exempt.
LEMMA NextExempt ==
  TypeOK /\ RentExempt(wallet, Wallets) /\ [Next]_vars => RentExempt(wallet, Wallets)'
<1> SUFFICES ASSUME TypeOK, RentExempt(wallet, Wallets), [Next]_vars
             PROVE  RentExempt(wallet, Wallets)'
  OBVIOUS
<1>1. ASSUME UNCHANGED wallet PROVE RentExempt(wallet, Wallets)'
  BY <1>1, OthersStayExempt DEF RentExempt
<1>2. ASSUME NEW a \in Agents, OperatorNext(a) PROVE RentExempt(wallet, Wallets)'
  <2> DEFINE operator == OperatorOf[a]
  <2>1. ASSUME NEW amount, RentExempt(wallet', {operator}),
               wallet' = Debit(wallet, operator, amount) \/ wallet' = Credit(wallet, operator, amount)
        PROVE  RentExempt(wallet, Wallets)'
    BY <2>1, OthersUntouched, OthersStayExempt DEF TypeOK
  <2>2. ASSUME NEW i \in Identities, NEW t \in Terms, CreateAgent(a, i, t)
        PROVE  RentExempt(wallet, Wallets)'
    BY <2>1, <2>2, Zenon DEF CreateAgent
  <2>3. ASSUME NEW amount \in Amounts, DepositCollateral(a, amount)
        PROVE  RentExempt(wallet, Wallets)'
    BY <2>1, <2>3, Zenon DEF DepositCollateral
  <2>4. ASSUME NEW amount \in Amounts, WithdrawCollateral(a, amount)
        PROVE  RentExempt(wallet, Wallets)'
    BY <2>1, <2>4, Zenon DEF WithdrawCollateral
  <2> QED BY <1>1, <1>2, <2>2, <2>3, <2>4, Zenon
          DEF OperatorNext, UpdateAgent, PublishAgent, SetExecutor, SetAccepting
<1>3. ASSUME NEW p \in Positions, TraderNext(p) PROVE RentExempt(wallet, Wallets)'
  <2> DEFINE trader == TraderOf(p)
  <2>1. ASSUME NEW amount, RentExempt(wallet', {trader}),
               wallet' = Debit(wallet, trader, amount) \/ wallet' = Credit(wallet, trader, amount)
        PROVE  RentExempt(wallet, Wallets)'
    BY <2>1, OthersUntouched, OthersStayExempt DEF TypeOK
  <2>2. ASSUME NEW amount, NEW duration, OpenPosition(p, amount, duration)
        PROVE  RentExempt(wallet, Wallets)'
    BY <2>1, <2>2, Zenon DEF OpenPosition
  <2>3. CancelPosition(p) => RentExempt(wallet, Wallets)'
    BY <2>1, Zenon DEF CancelPosition
  <2>4. ClaimDefault(p) => RentExempt(wallet, Wallets)'
    BY <2>1, Zenon DEF ClaimDefault
  <2> QED BY <1>3, <2>2, <2>3, <2>4, Zenon DEF TraderNext
<1>4. ASSUME NEW p \in Positions, ExecutorNext(p) PROVE RentExempt(wallet, Wallets)'
  <2>1. \A returned \in Returns : returned \in Nat
    BY ProgramAssumption DEF ProgramAssumption
  <2>2. ASSUME NEW key \in Wallets, DrawFunds(key, p) PROVE RentExempt(wallet, Wallets)'
    <3>1. wallet' = Credit(wallet, key, position[p].principal) /\ RentExempt(wallet', {key})
      BY <2>2 DEF DrawFunds
    <3> QED BY <3>1, OthersUntouched, OthersStayExempt DEF TypeOK
  <2>3. ASSUME NEW key \in Wallets, NEW returned \in Returns, SettlePosition(key, p, returned)
        PROVE  RentExempt(wallet, Wallets)'
    <3>1. wallet' = WalletsAfter(key, p, returned) /\ SettlePasses(key, p, returned)
      BY <2>3, SettleIsItsChecks, Zenon
    <3>2. RentExempt(wallet', {key, OperatorOf[AgentOf(p)], TraderOf(p)})
      BY <3>1 DEF SettlePasses
    <3>3. \A w \in Wallets \ {key, OperatorOf[AgentOf(p)], TraderOf(p)} : wallet'[w] = wallet[w]
      BY <2>1, <3>1, SettleTouches
    <3> QED BY <3>2, <3>3, OthersStayExempt
  <2> QED BY <1>4, <2>2, <2>3 DEF ExecutorNext
<1>5. ASSUME NEW from \in Wallets, NEW amount \in Gifts, SystemTransfer(from, amount)
      PROVE  RentExempt(wallet, Wallets)'
  BY <1>5 DEF SystemTransfer, RentExempt
<1> QED BY <1>1, <1>2, <1>3, <1>4, <1>5 DEF Next, Tick, vars

\* An open position can be cancelled: the vault pays the principal and the rent.
LEMMA OpenCancels ==
  ASSUME TypeOK, CountersInv, VaultHoldsPrincipal, NEW p \in Positions,
         position[p].status = "Open"
  PROVE  CancelPasses(p)
<1>1. IsLive(p) /\ TraderOf(p) \in Wallets
  BY PositionKeys DEF IsLive
<1>2. /\ position_vault[p] \in Nat /\ position[p].principal \in Nat /\ RENT_EXEMPT_MINIMUM \in Nat
      /\ position_vault[p] >= RENT_EXEMPT_MINIMUM + position[p].principal
  BY ProgramAssumption DEF TypeOK, PositionRecord, ProgramAssumption, VaultHoldsPrincipal
<1>3. position_vault[p] >= RENT_EXEMPT_MINIMUM
  BY <1>2
<1>4. RentExempt(Credit(wallet, TraderOf(p), position_vault[p]), {TraderOf(p)})
  BY <1>1, <1>2, <1>3, CreditedIsExempt DEF TypeOK
<1> QED BY <1>1, <1>4, LiveCanRelease DEF CancelPasses

\* A position drawn and past its deadline can be claimed: the agent's vault pays the
\* whole bond and keeps its own rent.
LEMMA TradingDefaults ==
  ASSUME TypeOK, CountersInv, VaultBacksBonds, VaultHoldsPrincipal, NEW p \in Positions,
         position[p].status = "Trading", DeadlineReached(p),
         CountersHaveRoom(AgentOf(p), position[p].locked_collateral, 0)
  PROVE  ClaimPasses(p)
<1> DEFINE slash == position[p].locked_collateral
<1>1. IsLive(p) /\ TraderOf(p) \in Wallets /\ slash \in Nat
  BY PositionKeys DEF IsLive, TypeOK, PositionRecord
<1>2. /\ position_vault[p] \in Nat /\ RENT_EXEMPT_MINIMUM \in Nat
      /\ position_vault[p] >= RENT_EXEMPT_MINIMUM
  BY ProgramAssumption DEF TypeOK, ProgramAssumption, VaultHoldsPrincipal
<1>3. /\ CanSlash(AgentOf(p), slash)
      /\ RentExempt(Debit(agent_vault, AgentOf(p), slash), {AgentOf(p)})
  BY <1>1, LiveCanSlash DEF CountersHaveRoom
<1>4. slash + position_vault[p] \in Nat /\ slash + position_vault[p] >= RENT_EXEMPT_MINIMUM
  BY <1>1, <1>2
<1>5. RentExempt(Credit(wallet, TraderOf(p), slash + position_vault[p]), {TraderOf(p)})
  BY <1>1, <1>4, CreditedIsExempt DEF TypeOK
<1> QED BY <1>1, <1>3, <1>5, LiveCanRelease DEF ClaimPasses, CountersHaveRoom

\* What a settlement computes is in range: the fee comes out of what is sent, the
\* slash out of the bond.
LEMMA SettlementInRange ==
  ASSUME TypeOK, LiveFit, TermsInv, NEW p \in Positions, IsLive(p), NEW returned \in Nat
  PROVE  LET s == SettlementOf(p, returned)
         IN  /\ s.fee \in Nat /\ s.fee <= SentFor(p, returned)
             /\ s.slash \in Nat /\ s.slash <= position[p].locked_collateral
<1> DEFINE pos       == position[p]
           effective == IF pos.status = "Open" THEN pos.principal ELSE returned
           s         == SettlementOf(p, returned)
<1>1. /\ pos.principal \in Nat /\ effective \in Nat /\ pos.locked_collateral \in Nat
      /\ pos.fee_bps \in 0..BPS_DENOMINATOR /\ pos.max_drawdown_bps \in Nat
  <2>1. /\ pos.principal \in Nat /\ pos.fee_bps \in Nat /\ pos.max_drawdown_bps \in Nat
        /\ pos.locked_collateral \in Nat
    BY DEF TypeOK, PositionRecord
  <2>2. pos.fee_bps <= BPS_DENOMINATOR /\ BPS_DENOMINATOR \in Nat
    BY ConstantsAssumption DEF TermsInv, ConstantsAssumption
  <2> HIDE DEF pos
  <2> QED BY <2>1, <2>2
<1>2. s = ComputeSettlement(pos.principal, effective, pos.fee_bps, pos.max_drawdown_bps,
                            pos.locked_collateral)
  BY DEF SettlementOf
<1>3. SentFor(p, returned) = IF pos.status = "Open" THEN 0 ELSE returned
  BY DEF SentFor
<1> HIDE DEF s
<1>4. InRange(s, pos.principal, effective, pos.locked_collateral)
  <2> HIDE DEF effective, pos
  <2> QED BY <1>1, <1>2, SettlementBounds
<1>5. /\ s.fee \in Nat /\ s.slash \in Nat /\ s.slash <= pos.locked_collateral
      /\ effective >= pos.principal => s.fee <= effective - pos.principal
      /\ effective < pos.principal => s.fee = 0
  <2>1. effective < pos.principal => s.fee = 0
    BY <1>1, <1>2 DEF ComputeSettlement
  <2> HIDE DEF effective, pos
  <2> QED BY <1>1, <1>4, <2>1 DEF InRange
<1>6. s.fee <= SentFor(p, returned)
  <2>1. CASE pos.status = "Open"
    <3>1. effective = pos.principal /\ SentFor(p, returned) = 0
      BY <1>3, <2>1
    <3> HIDE DEF effective, pos
    <3> QED BY <1>1, <1>5, <3>1
  <2>2. CASE pos.status # "Open"
    <3>1. effective = returned /\ SentFor(p, returned) = returned
      BY <1>3, <2>2
    <3> HIDE DEF effective, pos
    <3> QED BY <1>1, <1>5, <3>1
  <2> QED BY <2>1, <2>2
<1> QED BY <1>5, <1>6 DEF s

\* The three wallets a settlement writes end rent-exempt if the key's does after it
\* sent the money: the operator's because a fee too small for it is not paid, the
\* trader's because the position's rent comes with the payout.
LEMMA PayeesStayExempt ==
  ASSUME NEW before \in [Wallets -> Nat], RentExempt(before, Wallets),
         NEW key \in Wallets, NEW operator \in Wallets, NEW trader \in Wallets,
         NEW sent \in Nat, sent <= before[key],
         before[key] - sent = 0 \/ before[key] - sent >= RENT_EXEMPT_MINIMUM,
         NEW full \in Nat, NEW payout \in Nat, payout >= RENT_EXEMPT_MINIMUM
  PROVE  LET after == Debit(before, key, sent)
             fee   == FeePaid(after, operator, trader, full)
         IN  RentExempt(Credit(Credit(after, operator, fee), trader, payout),
                        {key, operator, trader})
<1> DEFINE after == Debit(before, key, sent)
           fee   == FeePaid(after, operator, trader, full)
           paid  == Credit(after, operator, fee)
<1>1. RENT_EXEMPT_MINIMUM \in Nat
  BY ProgramAssumption DEF ProgramAssumption
<1>2. after \in [Wallets -> Nat] /\ RentExempt(after, Wallets)
  <2>1. /\ after \in [Wallets -> Nat]
        /\ after[key] = before[key] - sent
        /\ \A w \in Wallets \ {key} : after[w] = before[w]
    BY DEF Debit
  <2> HIDE DEF after
  <2> QED BY <2>1 DEF RentExempt
<1>3. fee \in Nat /\ (fee = 0 \/ operator = trader \/ after[operator] + fee >= RENT_EXEMPT_MINIMUM)
  BY <1>1, <1>2 DEF FeePaid
<1> HIDE DEF after, fee
<1>4. /\ paid \in [Wallets -> Nat]
      /\ \A w \in Wallets \ {trader} : paid[w] = 0 \/ paid[w] >= RENT_EXEMPT_MINIMUM
  <2>1. /\ paid \in [Wallets -> Nat] /\ paid[operator] = after[operator] + fee
        /\ \A w \in Wallets \ {operator} : paid[w] = after[w]
    BY <1>2, <1>3 DEF Credit
  <2> HIDE DEF paid
  <2>2. ASSUME NEW w \in Wallets PROVE after[w] = 0 \/ after[w] >= RENT_EXEMPT_MINIMUM
    BY <1>2 DEF RentExempt
  <2>3. ASSUME operator # trader
        PROVE  paid[operator] = 0 \/ paid[operator] >= RENT_EXEMPT_MINIMUM
    <3>1. after[operator] \in Nat
      BY <1>2
    <3>2. CASE fee = 0
      <4>1. paid[operator] = after[operator]
        BY <2>1, <3>1, <3>2
      <4> QED BY <2>2, <4>1
    <3>3. CASE after[operator] + fee >= RENT_EXEMPT_MINIMUM
      BY <2>1, <3>3
    <3> QED BY <1>3, <2>3, <3>2, <3>3
  <2> QED BY <2>1, <2>2, <2>3
<1> HIDE DEF paid
<1>5. /\ Credit(paid, trader, payout)[trader] = paid[trader] + payout
      /\ \A w \in Wallets \ {trader} : Credit(paid, trader, payout)[w] = paid[w]
  BY <1>4 DEF Credit
<1>6. RentExempt(Credit(paid, trader, payout), {key, operator, trader})
  BY <1>1, <1>4, <1>5 DEF RentExempt
<1> QED BY <1>6 DEF paid, fee, after

\* A live position can be settled with anything the key's wallet can send.
LEMMA LiveSettles ==
  ASSUME TypeOK, LiveFit, TermsInv, CountersInv, VaultBacksBonds, VaultHoldsPrincipal,
         RentExempt(wallet, Wallets), NEW p \in Positions, NEW key \in Wallets,
         NEW returned \in Nat, IsLive(p), CanExecute(AgentOf(p), key),
         \/ wallet[key] - SentFor(p, returned) = 0
         \/ wallet[key] - SentFor(p, returned) >= RENT_EXEMPT_MINIMUM,
         CountersHaveRoom(AgentOf(p), SettlementOf(p, returned).slash, FeeOf(key, p, returned))
  PROVE  SettlePasses(key, p, returned)
<1> DEFINE a        == AgentOf(p)
           operator == OperatorOf[a]
           trader   == TraderOf(p)
           sent     == SentFor(p, returned)
           s        == SettlementOf(p, returned)
           after    == Debit(wallet, key, sent)
           fee      == FeeOf(key, p, returned)
           payout   == s.slash + position_vault[p] + sent - fee
<1>1. /\ operator \in Wallets /\ trader \in Wallets /\ position_vault[p] \in Nat
      /\ RENT_EXEMPT_MINIMUM \in Nat /\ wallet[key] \in Nat
  BY PositionKeys, ProgramAssumption DEF TypeOK, ProgramAssumption
<1>2. /\ s.fee \in Nat /\ s.fee <= sent /\ s.slash \in Nat
      /\ s.slash <= position[p].locked_collateral
  BY SettlementInRange
<1>3. sent \in Nat
  BY DEF SentFor
<1>4. position_vault[p] >= RENT_EXEMPT_MINIMUM
  <2>1. position[p].principal \in Nat
    BY DEF TypeOK, PositionRecord
  <2> QED BY <1>1, <2>1 DEF VaultHoldsPrincipal, IsLive
<1>5. fee = FeePaid(after, operator, trader, s.fee)
  BY DEF FeeOf
<1>6. WalletsAfter(key, p, returned) = Credit(Credit(after, operator, fee), trader, payout)
  BY DEF WalletsAfter
<1>7. /\ CanSlash(a, s.slash) /\ RentExempt(Debit(agent_vault, a, s.slash), {a})
      /\ CanRelease(agent[a], position[p])
  <2>1. agent[a].slashed_total + s.slash <= U64_MAX
    BY DEF CountersHaveRoom
  <2> HIDE DEF s
  <2> QED BY <1>2, <2>1, LiveCanSlash, LiveCanRelease
<1> HIDE DEF sent, s, fee
<1>8. fee = s.fee \/ fee = 0
  BY <1>5 DEF FeePaid
<1>9. sent <= wallet[key] /\ (wallet[key] - sent = 0 \/ wallet[key] - sent >= RENT_EXEMPT_MINIMUM)
  BY <1>1, <1>3 DEF sent
<1>10. /\ payout \in Nat /\ payout >= RENT_EXEMPT_MINIMUM /\ position_vault[p] + sent >= fee
  BY <1>1, <1>2, <1>3, <1>4, <1>8
<1>11. RentExempt(WalletsAfter(key, p, returned), {key, operator, trader})
  <2> HIDE DEF payout, operator, trader
  <2> QED BY <1>1, <1>2, <1>3, <1>5, <1>6, <1>9, <1>10, PayeesStayExempt DEF TypeOK, after
<1>12. /\ agent[a].settled_positions < U32_MAX /\ agent[a].breach_count < U32_MAX
       /\ agent[a].fees_earned + fee <= U64_MAX
  BY DEF CountersHaveRoom, fee, s
<1> QED BY <1>7, <1>9, <1>10, <1>11, <1>12 DEF SettlePasses, sent, s, fee

\* Whatever was called before, by whom and under whatever terms, a live position can
\* always be ended: no subtraction traps, no vault is short and no wallet falls
\* below the rent minimum, as long as no counter of the agent is full.
THEOREM NoCloseIsEverBlocked == Spec => []NoCloseIsBlocked
<1> DEFINE Inv == /\ TypeOK /\ LiveFit /\ TermsInv /\ VaultHoldsPrincipal
                  /\ VaultBacksBonds /\ CountersInv /\ RentExempt(wallet, Wallets)
<1>1. Inv => NoCloseIsBlocked
  <2> SUFFICES ASSUME Inv PROVE NoCloseIsBlocked
    OBVIOUS
  <2>1. \A returned \in Returns : returned \in Nat
    BY ProgramAssumption DEF ProgramAssumption
  <2>2. ASSUME NEW p \in Positions
        PROVE  /\ position[p].status = "Open" => CancelPasses(p)
               /\ /\ position[p].status = "Trading"
                  /\ DeadlineReached(p)
                  /\ CountersHaveRoom(AgentOf(p), position[p].locked_collateral, 0)
                  => ClaimPasses(p)
    BY OpenCancels, TradingDefaults
  <2>3. ASSUME NEW p \in Positions, NEW key \in Wallets, NEW returned \in Returns,
               IsLive(p), CanExecute(AgentOf(p), key),
               \/ wallet[key] - SentFor(p, returned) = 0
               \/ wallet[key] - SentFor(p, returned) >= RENT_EXEMPT_MINIMUM,
               CountersHaveRoom(AgentOf(p), SettlementOf(p, returned).slash,
                                FeeOf(key, p, returned))
        PROVE  SettlePasses(key, p, returned)
    BY <2>1, <2>3, LiveSettles
  <2> QED BY <2>2, <2>3, Zenon DEF NoCloseIsBlocked
<1>2. Init => LiveFit /\ VaultHoldsPrincipal /\ RentExempt(wallet, Wallets)
  BY WalletsAssumption DEF Init, AbsentPosition, LiveFit, IsLive, VaultHoldsPrincipal,
     WalletsAssumption, RentExempt
<1> QED BY <1>1, <1>2, InitTypeOK, NextTypeOK, NextFit, InitTerms, NextTerms, InitCounters,
           NextCounters, NextHolds, InitBacks, NextBacks, NextExempt, PTL DEF Spec
=============================================================================
