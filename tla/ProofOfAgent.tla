---------------------------- MODULE ProofOfAgent ----------------------------
(***************************************************************************)
(* The on-chain program proof_of_agent: operators publish agents backed by *)
(* a collateral vault, traders open positions backed by part of it, the    *)
(* agent's trading key draws the principal, and a position ends by being   *)
(* cancelled, settled or defaulted.                                        *)
(*                                                                         *)
(* Each instruction is one action.  The ledger executes transactions one   *)
(* after the other and undoes one that fails, so an action is enabled      *)
(* exactly when the instruction succeeds: its guard holds every require!,  *)
(* every account constraint, every checked or overflow-trapped operation,  *)
(* every balance a transfer needs, and the runtime's rent rule on the      *)
(* accounts the transaction wrote.                                         *)
(*                                                                         *)
(* Left out: names and texts beyond their validity, the time stamps no     *)
(* rule reads (created_at, published_at, opened_at), account bumps, events *)
(* (they repeat fields of the state) and transaction fees.                 *)
(***************************************************************************)
EXTENDS Settlement, LamportSums

CONSTANTS
  Wallets,               \* keys that hold lamports and sign
  Traders,               \* those that open positions
  Agents,                \* agent addresses, derived from <<operator, agent_id>>
  OperatorOf,            \* the operator in an agent's address
  Nonces,                \* a trader's position nonces
  Identities,            \* name and description, as one value
  ValidIdentities,       \* those validate_identity accepts
  Terms,                 \* terms an operator may submit
  LegacyTerms,           \* terms of agents published before the fit check existed
  RENT_EXEMPT_MINIMUM,   \* least balance of a system account, unless it is empty
  AGENT_ACCOUNT_RENT,    \* what the agent's own account costs its operator
  POSITION_ACCOUNT_RENT, \* what the position's own account costs its trader
  U64_MAX, U32_MAX,      \* greatest values of the counters
  InitialWallets,        \* what each wallet holds at first
  ExecutorKeys,          \* keys an operator may bind
  Amounts,               \* amounts a caller may pass
  Returns,               \* amounts an agent may return
  Gifts,                 \* amounts sent by plain transfers, not by the program
  MAX_NOW                \* bound on the clock

VARIABLES
  now,                   \* Clock::unix_timestamp
  agent,                 \* the Agent accounts
  position,              \* the Position accounts
  wallet,                \* lamports of each wallet
  agent_vault,           \* lamports of each agent's collateral vault
  position_vault         \* lamports of each position's vault

vars == <<now, agent, position, wallet, agent_vault, position_vault>>

Positions == Agents \X Traders \X Nonces      \* a position's address: its seeds

AgentOf(p)  == p[1]
TraderOf(p) == p[2]

AgentStatus == {"Absent", "Draft", "Active", "Paused"}
PositionStatus == {"Absent", "Open", "Trading", "Settled", "Defaulted", "Cancelled"}
Breach == {"None", "Drawdown", "MissedDeadline"}

AgentRecord ==
  [status : AgentStatus, executor : Wallets, identity : Identities, terms : AgentTerms,
   total_collateral : Nat, locked_collateral : Nat, capital_managed : Nat,
   open_positions : Nat, settled_positions : Nat, defaulted_positions : Nat,
   breach_count : Nat, slashed_total : Nat, fees_earned : Nat]

PositionRecord ==
  [status : PositionStatus, breach : Breach, principal : Nat, locked_collateral : Nat,
   fee_bps : Nat, max_drawdown_bps : Nat, deadline : Nat, drawn_at : Nat,
   closed_at : Nat, returned : Nat, slashed : Nat, fee_paid : Nat]

ASSUME ProgramAssumption ==
  /\ Traders \subseteq Wallets
  /\ OperatorOf \in [Agents -> Wallets]
  /\ ValidIdentities \subseteq Identities
  /\ Terms \subseteq AgentTerms
  /\ LegacyTerms \subseteq { t \in AgentTerms : WithinLimits(t) }
  /\ RENT_EXEMPT_MINIMUM \in Nat
  /\ AGENT_ACCOUNT_RENT \in Nat
  /\ POSITION_ACCOUNT_RENT \in Nat
  /\ U64_MAX \in Nat /\ U32_MAX \in Nat
  /\ InitialWallets \in [Wallets -> Nat]
  /\ ExecutorKeys \subseteq Wallets
  /\ Amounts \subseteq Nat
  /\ Returns \subseteq Nat
  /\ Gifts \subseteq Nat
  /\ Terms # {} /\ ValidIdentities # {}
  /\ MAX_NOW \in Nat

\* The runtime keeps every account with lamports rent-exempt.
ASSUME WalletsAssumption ==
  \A w \in Wallets : InitialWallets[w] = 0 \/ InitialWallets[w] >= RENT_EXEMPT_MINIMUM
-----------------------------------------------------------------------------
(* Helpers of the source *)

\* (faulty: offers bonded collateral as free)
FreeCollateralIgnoringBonds(ag) == ag.total_collateral

FreeCollateral(ag) ==
  IF ag.total_collateral >= ag.locked_collateral
  THEN ag.total_collateral - ag.locked_collateral ELSE 0

IsPublished(ag) == ag.status \in {"Active", "Paused"}

CanExecute(a, key) ==
  /\ agent[a].status # "Absent"
  /\ key \in {agent[a].executor, OperatorOf[a]}

\* A position that still reserves collateral.
IsLive(p) == position[p].status \in {"Open", "Trading"}

DeadlineReached(p) == now >= position[p].deadline

Debit(balance, key, amount)  == [balance EXCEPT ![key] = @ - amount]
Credit(balance, key, amount) == [balance EXCEPT ![key] = @ + amount]

\* The runtime rejects a transaction that leaves an account it wrote with
\* lamports, but fewer than the rent-exempt minimum.
RentExempt(balance, keys) ==
  \A k \in keys : balance[k] = 0 \/ balance[k] >= RENT_EXEMPT_MINIMUM

\* (faulty: releases the bond twice)
ReleasedTwice(ag, pos) ==
  [ag EXCEPT !.locked_collateral = @ - 2 * pos.locked_collateral,
             !.capital_managed   = @ - pos.principal,
             !.open_positions    = @ - 1]

\* (faulty: the principal stays under management)
ReleasedButManaged(ag, pos) ==
  [ag EXCEPT !.locked_collateral = @ - pos.locked_collateral,
             !.open_positions    = @ - 1]

\* The agent after a position ends: its guarantee is released.
Released(ag, pos) ==
  [ag EXCEPT !.locked_collateral = @ - pos.locked_collateral,
             !.capital_managed   = @ - pos.principal,
             !.open_positions    = @ - 1]

\* The subtractions of Released do not trap.
CanRelease(ag, pos) ==
  /\ ag.locked_collateral >= pos.locked_collateral
  /\ ag.capital_managed >= pos.principal
  /\ ag.open_positions >= 1

\* The agent after `amount` of its collateral was paid to a trader.
Slashed(ag, amount) ==
  [ag EXCEPT !.total_collateral = @ - amount, !.slashed_total = @ + amount]

CanSlash(a, amount) ==
  /\ agent_vault[a] >= amount
  /\ agent[a].total_collateral >= amount
  /\ agent[a].slashed_total + amount <= U64_MAX
-----------------------------------------------------------------------------
NewAgent(a, identity, terms) ==
  [status |-> "Draft", executor |-> OperatorOf[a], identity |-> identity, terms |-> terms,
   total_collateral |-> 0, locked_collateral |-> 0, capital_managed |-> 0,
   open_positions |-> 0, settled_positions |-> 0, defaulted_positions |-> 0,
   breach_count |-> 0, slashed_total |-> 0, fees_earned |-> 0]

NewPosition(amount, locked, terms, duration) ==
  [status |-> "Open", breach |-> "None", principal |-> amount,
   locked_collateral |-> locked, fee_bps |-> terms.fee_bps,
   max_drawdown_bps |-> terms.max_drawdown_bps, deadline |-> now + duration,
   drawn_at |-> 0, closed_at |-> 0, returned |-> 0, slashed |-> 0, fee_paid |-> 0]

SomeTerms    == CHOOSE t \in Terms : TRUE
SomeIdentity == CHOOSE i \in ValidIdentities : TRUE
AbsentAgent(a) == [NewAgent(a, SomeIdentity, SomeTerms) EXCEPT !.status = "Absent"]
AbsentPosition ==
  [status |-> "Absent", breach |-> "None", principal |-> 0, locked_collateral |-> 0,
   fee_bps |-> 0, max_drawdown_bps |-> 0, deadline |-> 0, drawn_at |-> 0,
   closed_at |-> 0, returned |-> 0, slashed |-> 0, fee_paid |-> 0]

\* An agent that an earlier version of the program published.
LegacyAgent(a, t) == [NewAgent(a, SomeIdentity, t) EXCEPT !.status = "Active"]

AgentAtStart(a) == {AbsentAgent(a)} \cup { LegacyAgent(a, t) : t \in LegacyTerms }

Init ==
  /\ now = 1                        \* a time stamp is never 0: 0 means "not yet"
  /\ agent \in { f \in [Agents -> UNION { AgentAtStart(a) : a \in Agents }] :
                   \A a \in Agents : f[a] \in AgentAtStart(a) }
  /\ position = [p \in Positions |-> AbsentPosition]
  /\ wallet = InitialWallets
  /\ agent_vault = [a \in Agents |-> IF agent[a].status = "Absent"
                                     THEN 0 ELSE RENT_EXEMPT_MINIMUM]
  /\ position_vault = [p \in Positions |-> 0]
-----------------------------------------------------------------------------
(* Instructions of the operator *)

CreateAgent(a, identity, terms) ==
  LET creator == OperatorOf[a]
      cost    == RENT_EXEMPT_MINIMUM + AGENT_ACCOUNT_RENT
  IN  /\ agent[a].status = "Absent"
      /\ identity \in ValidIdentities
      /\ Validate(terms)
      /\ wallet[creator] >= cost
      /\ agent' = [agent EXCEPT ![a] = NewAgent(a, identity, terms)]
      /\ wallet' = Debit(wallet, creator, cost)
      /\ agent_vault' = Credit(agent_vault, a, RENT_EXEMPT_MINIMUM)
      /\ RentExempt(wallet', {creator})
      /\ UNCHANGED <<now, position, position_vault>>

\* (faulty: edits terms after publication)
UpdateAgentAnytime(a, identity, terms) ==
  /\ agent[a].status # "Absent"
  /\ identity \in ValidIdentities
  /\ Validate(terms)
  /\ agent' = [agent EXCEPT ![a].identity = identity, ![a].terms = terms]
  /\ UNCHANGED <<now, position, wallet, agent_vault, position_vault>>

UpdateAgent(a, identity, terms) ==
  /\ agent[a].status = "Draft"
  /\ identity \in ValidIdentities
  /\ Validate(terms)
  /\ agent' = [agent EXCEPT ![a].identity = identity, ![a].terms = terms]
  /\ UNCHANGED <<now, position, wallet, agent_vault, position_vault>>

PublishAgent(a) ==
  /\ agent[a].status = "Draft"
  /\ agent[a].total_collateral > 0
  /\ Validate(agent[a].terms)
  /\ agent' = [agent EXCEPT ![a].status = "Active"]
  /\ UNCHANGED <<now, position, wallet, agent_vault, position_vault>>

SetExecutor(a, key) ==
  /\ agent[a].status # "Absent"
  /\ agent' = [agent EXCEPT ![a].executor = key]
  /\ UNCHANGED <<now, position, wallet, agent_vault, position_vault>>

SetAccepting(a, accepting) ==
  /\ IsPublished(agent[a])
  /\ agent' = [agent EXCEPT ![a].status = IF accepting THEN "Active" ELSE "Paused"]
  /\ UNCHANGED <<now, position, wallet, agent_vault, position_vault>>

DepositCollateral(a, amount) ==
  /\ agent[a].status # "Absent"
  /\ amount > 0
  /\ wallet[OperatorOf[a]] >= amount
  /\ agent[a].total_collateral + amount <= U64_MAX
  /\ agent' = [agent EXCEPT ![a].total_collateral = @ + amount]
  /\ wallet' = Debit(wallet, OperatorOf[a], amount)
  /\ agent_vault' = Credit(agent_vault, a, amount)
  /\ RentExempt(wallet', {OperatorOf[a]})
  /\ UNCHANGED <<now, position, position_vault>>

WithdrawCollateral(a, amount) ==
  /\ agent[a].status # "Absent"
  /\ amount > 0
  /\ amount <= FreeCollateral(agent[a])
  /\ agent_vault[a] >= amount
  /\ agent' = [agent EXCEPT ![a].total_collateral = @ - amount]
  /\ agent_vault' = Debit(agent_vault, a, amount)
  /\ wallet' = Credit(wallet, OperatorOf[a], amount)
  /\ RentExempt(agent_vault', {a})
  /\ RentExempt(wallet', {OperatorOf[a]})
  /\ UNCHANGED <<now, position, position_vault>>
-----------------------------------------------------------------------------
(* Instructions of the trader *)

OpenPosition(p, amount, duration) ==
  LET a      == AgentOf(p)
      terms  == agent[a].terms
      locked == RequiredCollateral(amount, terms.collateral_ratio_bps)
      cost   == amount + RENT_EXEMPT_MINIMUM + POSITION_ACCOUNT_RENT
  IN  /\ position[p].status = "Absent"
      /\ amount > 0
      /\ agent[a].status = "Active"
      /\ duration \in terms.min_duration_secs..terms.max_duration_secs
      /\ RatioAndDrawdownFit(terms.collateral_ratio_bps, terms.max_drawdown_bps)
      /\ locked <= FreeCollateral(agent[a])
      /\ agent[a].locked_collateral + locked <= U64_MAX
      /\ agent[a].capital_managed + amount <= U64_MAX
      /\ agent[a].open_positions < U32_MAX
      /\ wallet[TraderOf(p)] >= cost
      /\ agent' = [agent EXCEPT ![a].locked_collateral = @ + locked,
                                ![a].capital_managed   = @ + amount,
                                ![a].open_positions    = @ + 1]
      /\ position' = [position EXCEPT ![p] = NewPosition(amount, locked, terms, duration)]
      /\ wallet' = Debit(wallet, TraderOf(p), cost)
      /\ position_vault' = Credit(position_vault, p, amount + RENT_EXEMPT_MINIMUM)
      /\ RentExempt(wallet', {TraderOf(p)})
      /\ UNCHANGED <<now, agent_vault>>

CancelPosition(p) ==
  LET a == AgentOf(p)
  IN  /\ position[p].status = "Open"
      /\ CanRelease(agent[a], position[p])
      /\ agent' = [agent EXCEPT ![a] = Released(agent[a], position[p])]
      /\ position' = [position EXCEPT ![p].status = "Cancelled",
                                      ![p].returned = position[p].principal,
                                      ![p].closed_at = now]
      /\ wallet' = Credit(wallet, TraderOf(p), position_vault[p])
      /\ position_vault' = [position_vault EXCEPT ![p] = 0]
      /\ RentExempt(wallet', {TraderOf(p)})
      /\ UNCHANGED <<now, agent_vault>>

ClaimDefault(p) ==
  LET a     == AgentOf(p)
      slash == position[p].locked_collateral
  IN  /\ position[p].status = "Trading"
      /\ DeadlineReached(p)
      /\ CanSlash(a, slash)
      /\ CanRelease(agent[a], position[p])
      /\ agent[a].defaulted_positions < U32_MAX
      /\ agent[a].breach_count < U32_MAX
      /\ agent' = [agent EXCEPT ![a] =
                     [Released(Slashed(agent[a], slash), position[p])
                        EXCEPT !.defaulted_positions = @ + 1, !.breach_count = @ + 1]]
      /\ position' = [position EXCEPT ![p].status = "Defaulted",
                                      ![p].breach = "MissedDeadline",
                                      ![p].slashed = slash,
                                      ![p].closed_at = now]
      /\ agent_vault' = Debit(agent_vault, a, slash)
      /\ wallet' = Credit(wallet, TraderOf(p), slash + position_vault[p])
      /\ position_vault' = [position_vault EXCEPT ![p] = 0]
      /\ RentExempt(agent_vault', {a})
      /\ RentExempt(wallet', {TraderOf(p)})
      /\ UNCHANGED now
-----------------------------------------------------------------------------
(* Instructions of the trading key *)

\* (faulty: draws after the deadline too)
DrawAnytime(key, p) ==
  /\ CanExecute(AgentOf(p), key)
  /\ position[p].status = "Open"
  /\ position_vault[p] >= position[p].principal
  /\ position' = [position EXCEPT ![p].status = "Trading", ![p].drawn_at = now]
  /\ position_vault' = Debit(position_vault, p, position[p].principal)
  /\ wallet' = Credit(wallet, key, position[p].principal)
  /\ RentExempt(position_vault', {p})
  /\ RentExempt(wallet', {key})
  /\ UNCHANGED <<now, agent, agent_vault>>

DrawFunds(key, p) ==
  /\ CanExecute(AgentOf(p), key)
  /\ position[p].status = "Open"
  /\ ~DeadlineReached(p)
  /\ position_vault[p] >= position[p].principal
  /\ position' = [position EXCEPT ![p].status = "Trading", ![p].drawn_at = now]
  /\ position_vault' = Debit(position_vault, p, position[p].principal)
  /\ wallet' = Credit(wallet, key, position[p].principal)
  /\ RentExempt(position_vault', {p})
  /\ RentExempt(wallet', {key})
  /\ UNCHANGED <<now, agent, agent_vault>>

\* (faulty: a small fee can block the settlement)
FeeAlwaysPaid(balance, operator, trader, fee) == fee

\* A fee that cannot lift the operator's wallet to the rent minimum stays in the
\* position vault, so that it never makes the settlement fail.
FeePaid(balance, operator, trader, fee) ==
  IF operator = trader \/ balance[operator] + fee >= RENT_EXEMPT_MINIMUM
  THEN fee ELSE 0

\* (faulty: a late settlement that returns enough is no breach)
BreachOfSlash(late, slash) ==
  IF slash = 0 THEN "None" ELSE IF late THEN "MissedDeadline" ELSE "Drawdown"

BreachOf(late, slash) ==
  IF late THEN "MissedDeadline" ELSE IF slash > 0 THEN "Drawdown" ELSE "None"

SettlePosition(key, p, returned) ==
  LET a         == AgentOf(p)
      pos       == position[p]
      operator  == OperatorOf[a]
      trader    == TraderOf(p)
      declined  == pos.status = "Open"
      sent      == IF declined THEN 0 ELSE returned
      effective == IF declined THEN pos.principal ELSE returned
      s         == ComputeSettlement(pos.principal, effective, pos.fee_bps,
                                     pos.max_drawdown_bps, pos.locked_collateral)
      after     == Debit(wallet, key, sent)
      fee       == FeePaid(after, operator, trader, s.fee)
      breach    == BreachOf(~declined /\ DeadlineReached(p), s.slash)
  IN  /\ IsLive(p)
      /\ CanExecute(a, key)
      /\ wallet[key] >= sent
      /\ position_vault[p] + sent >= fee
      /\ CanSlash(a, s.slash)
      /\ CanRelease(agent[a], pos)
      /\ ~declined => agent[a].settled_positions < U32_MAX
      /\ breach # "None" => agent[a].breach_count < U32_MAX
      /\ agent[a].fees_earned + fee <= U64_MAX
      /\ agent' = [agent EXCEPT ![a] =
                     [Released(Slashed(agent[a], s.slash), pos)
                        EXCEPT !.settled_positions = IF declined THEN @ ELSE @ + 1,
                               !.breach_count = IF breach = "None" THEN @ ELSE @ + 1,
                               !.fees_earned = @ + fee]]
      /\ position' = [position EXCEPT ![p].status = "Settled",
                                      ![p].breach = breach,
                                      ![p].returned = effective,
                                      ![p].slashed = s.slash,
                                      ![p].fee_paid = fee,
                                      ![p].closed_at = now]
      /\ agent_vault' = Debit(agent_vault, a, s.slash)
      /\ wallet' = Credit(Credit(after, operator, fee), trader,
                          s.slash + position_vault[p] + sent - fee)
      /\ position_vault' = [position_vault EXCEPT ![p] = 0]
      /\ RentExempt(agent_vault', {a})
      /\ RentExempt(wallet', {key, operator, trader})
      /\ UNCHANGED now
-----------------------------------------------------------------------------
(* The environment *)

Tick ==
  /\ now < MAX_NOW
  /\ now' = now + 1
  /\ UNCHANGED <<agent, position, wallet, agent_vault, position_vault>>

\* Anyone may send lamports to any address without asking the program.
SystemTransfer(from, amount) ==
  /\ amount > 0
  /\ wallet[from] >= amount
  /\ \/ /\ \E to \in Wallets \ {from} :
             wallet' = Credit(Debit(wallet, from, amount), to, amount)
        /\ UNCHANGED <<agent_vault, position_vault>>
     \/ /\ wallet' = Debit(wallet, from, amount)
        /\ \E a \in Agents : agent_vault' = Credit(agent_vault, a, amount)
        /\ RentExempt(agent_vault', Agents)
        /\ UNCHANGED position_vault
     \/ /\ wallet' = Debit(wallet, from, amount)
        /\ \E p \in Positions : position_vault' = Credit(position_vault, p, amount)
        /\ RentExempt(position_vault', Positions)
        /\ UNCHANGED agent_vault
  /\ RentExempt(wallet', Wallets)
  /\ UNCHANGED <<now, agent, position>>

OperatorNext(a) ==
  \/ \E i \in Identities, t \in Terms : CreateAgent(a, i, t) \/ UpdateAgent(a, i, t)
  \/ PublishAgent(a)
  \/ \E key \in ExecutorKeys : SetExecutor(a, key)
  \/ \E accepting \in BOOLEAN : SetAccepting(a, accepting)
  \/ \E amount \in Amounts : DepositCollateral(a, amount) \/ WithdrawCollateral(a, amount)

TraderNext(p) ==
  \/ \E amount \in Amounts, duration \in MIN_POSITION_DURATION..MAX_POSITION_DURATION :
       /\ now + duration <= MAX_NOW      \* every deadline falls within the bound
       /\ OpenPosition(p, amount, duration)
  \/ CancelPosition(p)
  \/ ClaimDefault(p)

ExecutorNext(p) ==
  \E key \in Wallets :
    \/ DrawFunds(key, p)
    \/ \E returned \in Returns : SettlePosition(key, p, returned)

Next ==
  \/ \E a \in Agents : OperatorNext(a)
  \/ \E p \in Positions : TraderNext(p) \/ ExecutorNext(p)
  \/ \E from \in Wallets, amount \in Gifts : SystemTransfer(from, amount)
  \/ Tick

Spec == Init /\ [][Next]_vars

\* The clock advances, and the trader of a position ends it as soon as the
\* program lets the trader: nobody else has to act.
TraderExit(p) == CancelPosition(p) \/ ClaimDefault(p)

FairSpec ==
  /\ Spec
  /\ WF_vars(Tick)
  /\ \A p \in Positions : WF_vars(TraderExit(p))
=============================================================================
