-------------------------------- MODULE Console --------------------------------
(***************************************************************************)
(* The pages on which operators and traders act (app/(app)/agent,          *)
(* app/(app)/agents/[agent], app/(app)/positions, lib/useProtocol.ts),     *)
(* composed with the program.  A page shows a snapshot that may be old;    *)
(* its buttons depend on the snapshot; a click sends an instruction that   *)
(* the program executes, or rejects, on the state it finds by then.        *)
(* Meanwhile other pages, and a runner with the trading key, act as well.  *)
(***************************************************************************)
EXTENDS ProofOfAgent, FiniteSetsExt

CONSTANTS
  Pages, OperatorPages,     \* open tabs, and those of the operator console
  WalletAt,                 \* the wallet connected at each of them
  RUNNER,                   \* the trading key that a runner uses
  WALLET_RESERVE,           \* lamports that the deposit and allocate forms leave in a wallet
  RatioChoices,             \* what the sliders and lists of the terms form offer
  FeeChoices,
  DrawdownChoices,
  DurationChoices,
  DisclosureChoices,
  Presets,                  \* deadlines that the allocate form offers if the terms allow them
  PageNonces,               \* nonces that clicks use
  PAGE_CLICKS, MAX_CLICKS   \* bounds on the clicks on each page and on all of them

ASSUME ConsoleAssumption ==
  /\ OperatorPages \subseteq Pages /\ WalletAt \in [Pages -> Wallets]
  /\ Agents \subseteq Nat \ {0} /\ {WALLET_RESERVE, MAX_CLICKS} \subseteq Nat
  /\ PAGE_CLICKS \in [Pages -> Nat]
  /\ RatioChoices \subseteq MIN_COLLATERAL_RATIO_BPS..MAX_COLLATERAL_RATIO_BPS
  /\ DurationChoices \subseteq MIN_POSITION_DURATION..MAX_POSITION_DURATION
  /\ FeeChoices \cup DrawdownChoices \cup Presets \subseteq Nat
  /\ DisclosureChoices \subseteq Disclosures
  /\ PageNonces \subseteq Nonces

VARIABLES
  page,       \* of each tab: the snapshot shown, when it was rendered, the snapshot under
              \* way, the draft, and the instructions whose outcome is not known yet
  clicks

consoleVars == <<vars, page, clicks>>

Snapshot == [agent |-> agent, position |-> position]
NoSnapshot == [agent |-> <<>>, position |-> <<>>]
NoDraft  == [a |-> 0, terms |-> SomeTerms]

\* An agent that is there at the start took its operator two clicks, to create and to
\* publish it.
ConsoleInit ==
  /\ Init
  /\ page = [g \in Pages |->
       [snap |-> Snapshot, rendered |-> now, coming |-> NoSnapshot, draft |-> NoDraft,
        pending |-> {}]]
  /\ clicks = [g \in Pages |-> IF g \in OperatorPages
       THEN 2 * Cardinality({ a \in Agents : agent[a].status # "Absent" }) ELSE 0]

AgentShown(g, a)    == page[g].snap.agent[a]
PositionShown(g, p) == page[g].snap.position[p]

\* The operator console lists what the wallet operates; the other pages leave drafts out.
IsPublishedShown(g, a) == AgentShown(g, a).status \in {"Active", "Paused"}
Mine(g, a) ==
  /\ g \in OperatorPages /\ OperatorOf[a] = WalletAt[g]
  /\ AgentShown(g, a).status # "Absent"

Busy(g) == page[g].pending # {}

CountClick(g) ==
  /\ clicks[g] < PAGE_CLICKS[g] /\ FoldFunction(+, 0, clicks) < MAX_CLICKS
  /\ clicks' = [clicks EXCEPT ![g] = @ + 1]

\* useActions: the call of an instruction, and what its page went by: a snapshot, the time
\* it was rendered, and the wallet's balance, if known.  The notice of the transaction
\* renders the page again.
ClickKnowing(g, i, balance) ==
  /\ CountClick(g)
  /\ page' = [page EXCEPT
       ![g].pending = @ \cup {[call |-> i, saw |-> page[g].snap, at |-> page[g].rendered,
                               had |-> balance]},
       ![g].rendered = now]
  /\ UNCHANGED vars

Click(g, i) == ClickKnowing(g, i, {})
-----------------------------------------------------------------------------
(* Loading *)

Reads(g) ==
  /\ page[g].coming = NoSnapshot /\ page[g].snap # Snapshot
  /\ page' = [page EXCEPT ![g].coming = Snapshot]
  /\ UNCHANGED <<vars, clicks>>

\* A load that fails leaves what was shown.  The editor of a draft is gone once the
\* agent is shown as published.
Shows(g) ==
  /\ page[g].coming # NoSnapshot
  /\ \E snap \in {page[g].coming, page[g].snap} :
       page' = [page EXCEPT ![g].snap = snap, ![g].coming = NoSnapshot, ![g].rendered = now,
                            ![g].draft = IF @.a # 0 /\ snap.agent[@.a].status = "Draft"
                                         THEN @ ELSE NoDraft]
  /\ UNCHANGED <<vars, clicks>>

\* Other things render a page (an input, a menu, the wallet); the passing of time does not.
Renders(g) ==
  /\ page[g].rendered # now
  /\ page' = [page EXCEPT ![g].rendered = now]
  /\ UNCHANGED <<vars, clicks>>
-----------------------------------------------------------------------------
(* The terms form *)

maxFeeForRatio(ratio) == ratio \div FEE_CAP_DIVISOR
maxDrawdownForRatio(ratio) ==
  Max({0, Min({MAX_DRAWDOWN_BPS, BPS_DENOMINATOR - ratio})})

\* draftProblems finds none.
NoProblems(t) ==
  /\ t.fee_bps <= maxFeeForRatio(t.collateral_ratio_bps)
  /\ t.collateral_ratio_bps + t.max_drawdown_bps <= BPS_DENOMINATOR
  /\ t.min_duration_secs <= t.max_duration_secs
  /\ t.disclosure \in ValidDisclosures

\* What one input can make of terms t: the ratio takes the fee and the drawdown with it.
Typed(t) ==
  UNION {
    { [t EXCEPT !.collateral_ratio_bps = r,
                !.fee_bps = Min({@, maxFeeForRatio(r)}),
                !.max_drawdown_bps = Min({@, maxDrawdownForRatio(r)})] : r \in RatioChoices },
    { [t EXCEPT !.fee_bps = f] :
        f \in FeeChoices \cap 0..maxFeeForRatio(t.collateral_ratio_bps) },
    { [t EXCEPT !.max_drawdown_bps = d] :
        d \in DrawdownChoices \cap 0..maxDrawdownForRatio(t.collateral_ratio_bps) },
    { [t EXCEPT !.min_duration_secs = d] : d \in DurationChoices },
    { [t EXCEPT !.max_duration_secs = d] : d \in DurationChoices },
    { [t EXCEPT !.disclosure = d] : d \in DisclosureChoices } }
-----------------------------------------------------------------------------
(* The operator console *)

\* DraftTerms is mounted, or its changes are discarded: the draft is what was saved.
EditDraft(g, a) ==
  /\ Mine(g, a) /\ AgentShown(g, a).status = "Draft"
  /\ page' = [page EXCEPT ![g].draft = [a |-> a, terms |-> AgentShown(g, a).terms]]
  /\ UNCHANGED <<vars, clicks>>

Types(g) ==
  /\ page[g].draft.a # 0
  /\ \E terms \in Typed(page[g].draft.terms) : page' = [page EXCEPT ![g].draft.terms = terms]
  /\ UNCHANGED <<vars, clicks>>

\* Editing an agent that is shown as a draft.
Editing(g, a) == Mine(g, a) /\ page[g].draft.a = a /\ AgentShown(g, a).status = "Draft"
Dirty(g, a)   == page[g].draft.terms # AgentShown(g, a).terms

\* One more than the largest id shown, or the next one whose address is free.
FreeId(g) ==
  LET shown == { a \in Agents : Mine(g, a) }
      free  == { a \in Agents : agent[a].status = "Absent" /\ \A b \in shown : a > b }
  IN  { a \in free : \A b \in free : a <= b }

\* The form for a new agent holds some of Terms.
CreateDraft(g) ==
  /\ g \in OperatorPages /\ ~Busy(g)
  /\ \E a \in FreeId(g), terms \in Terms :
       NoProblems(terms) /\ Click(g, [op |-> "createAgent", a |-> a, terms |-> terms])

SaveDraft(g, a) ==
  /\ Editing(g, a) /\ ~Busy(g)
  /\ Dirty(g, a) /\ NoProblems(page[g].draft.terms)
  /\ Click(g, [op |-> "updateAgent", a |-> a, terms |-> page[g].draft.terms])

Publish(g, a) ==
  /\ Editing(g, a) /\ ~Busy(g) /\ ~Dirty(g, a)
  /\ AgentShown(g, a).total_collateral > 0
  /\ Click(g, [op |-> "publishAgent", a |-> a])

Bind(g, a) ==
  /\ Mine(g, a) /\ ~Busy(g)
  /\ \E key \in ExecutorKeys : Click(g, [op |-> "setExecutor", a |-> a, key |-> key])

PauseOrResume(g, a) ==
  /\ Mine(g, a) /\ ~Busy(g) /\ AgentShown(g, a).status # "Draft"
  /\ Click(g, [op |-> "setAccepting", a |-> a, accepting |-> AgentShown(g, a).status # "Active"])

\* useBalance: the balance is null until it is read and when it cannot be read, and a form
\* then takes any amount.  So may one that goes by a balance of earlier.
Balance(g) == {wallet[WalletAt[g]]}
MayTake(amount, balance) == \A b \in balance : amount + WALLET_RESERVE <= b

Deposit(g, a) ==
  /\ Mine(g, a) /\ ~Busy(g)
  /\ \E amount \in Amounts, balance \in {{}, Balance(g)} :
       /\ MayTake(amount, balance)
       /\ ClickKnowing(g, [op |-> "depositCollateral", a |-> a, amount |-> amount], balance)

Withdraw(g, a) ==
  /\ Mine(g, a) /\ ~Busy(g)
  /\ \E amount \in Amounts : Click(g, [op |-> "withdrawCollateral", a |-> a, amount |-> amount])

\* (faulty: not yet overdue in the second of the deadline)
OverdueAfter(g, p) == page[g].rendered > PositionShown(g, p).deadline

\* The positions of an agent that the console shows; those that were overdue when it was
\* rendered cannot be drawn.
Overdue(g, p) == page[g].rendered >= PositionShown(g, p).deadline

Draw(g, p) ==
  /\ Mine(g, AgentOf(p)) /\ ~Busy(g)
  /\ PositionShown(g, p).status = "Open" /\ ~Overdue(g, p)
  /\ Click(g, [op |-> "drawFunds", p |-> p])

\* "Decline & refund" settles a position that is shown as open with nothing.
Decline(g, p) ==
  /\ Mine(g, AgentOf(p)) /\ ~Busy(g)
  /\ PositionShown(g, p).status = "Open"
  /\ Click(g, [op |-> "decline", p |-> p])

Settle(g, p) ==
  /\ Mine(g, AgentOf(p)) /\ ~Busy(g)
  /\ PositionShown(g, p).status = "Trading"
  /\ \E returned \in Returns : Click(g, [op |-> "settlePosition", p |-> p, returned |-> returned])
-----------------------------------------------------------------------------
(* The trader's pages *)

\* The agent page: an amount within the shown capacity and balance, and a time within
\* the terms.  Every click has a nonce of its own.
Capacity(ag) == (FreeCollateral(ag) * BPS_DENOMINATOR) \div ag.terms.collateral_ratio_bps

\* The presets that the terms allow, or else the two ends of what they allow.
DurationsFor(terms) ==
  LET inside == Presets \cap terms.min_duration_secs..terms.max_duration_secs
  IN  IF inside # {} THEN inside ELSE {terms.min_duration_secs, terms.max_duration_secs}

Allocate(g, p) ==
  LET ag == AgentShown(g, AgentOf(p))
  IN  /\ g \notin OperatorPages /\ TraderOf(p) = WalletAt[g] /\ ~Busy(g)
      /\ IsPublishedShown(g, AgentOf(p)) /\ ag.status = "Active"
      /\ position[p].status = "Absent" /\ p[3] \in PageNonces
      /\ \E amount \in Amounts, duration \in DurationsFor(ag.terms),
            balance \in {{}, Balance(g)} :
           /\ amount <= Capacity(ag) /\ MayTake(amount, balance)
           /\ ClickKnowing(g, [op |-> "openPosition", p |-> p, amount |-> amount,
                               duration |-> duration], balance)

\* The positions page does not wait for the previous click.
Owns(g, p) == g \notin OperatorPages /\ TraderOf(p) = WalletAt[g]
Cancel(g, p) ==
  /\ Owns(g, p) /\ PositionShown(g, p).status = "Open"
  /\ Click(g, [op |-> "cancelPosition", p |-> p])
Claim(g, p) ==
  /\ Owns(g, p) /\ PositionShown(g, p).status = "Trading" /\ Overdue(g, p)
  /\ Click(g, [op |-> "claimDefault", p |-> p])
-----------------------------------------------------------------------------
(* The outcome of a click *)

Executes(i, w) ==
  CASE i.op = "createAgent"        -> CreateAgent(i.a, SomeIdentity, i.terms)
    [] i.op = "updateAgent"        -> UpdateAgent(i.a, SomeIdentity, i.terms)
    [] i.op = "publishAgent"       -> PublishAgent(i.a)
    [] i.op = "setExecutor"        -> SetExecutor(i.a, i.key)
    [] i.op = "setAccepting"       -> SetAccepting(i.a, i.accepting)
    [] i.op = "depositCollateral"  -> DepositCollateral(i.a, i.amount)
    [] i.op = "withdrawCollateral" -> WithdrawCollateral(i.a, i.amount)
    [] i.op = "drawFunds"          -> DrawFunds(w, i.p)
    [] i.op = "decline"            -> SettlePosition(w, i.p, 0)
    [] i.op = "settlePosition"     -> SettlePosition(w, i.p, i.returned)
    [] i.op = "openPosition"       -> OpenPosition(i.p, i.amount, i.duration)
    [] i.op = "cancelPosition"     -> CancelPosition(i.p)
    [] i.op = "claimDefault"       -> ClaimDefault(i.p)

Ends(g, i) ==
  /\ page' = [page EXCEPT ![g].pending = @ \ {i}, ![g].rendered = now]
  /\ UNCHANGED clicks

Lands(g, i) == i \in page[g].pending /\ Executes(i.call, WalletAt[g]) /\ Ends(g, i)

\* The program rejects it.
Rejected(g, i) ==
  /\ i \in page[g].pending /\ Ends(g, i) /\ UNCHANGED vars
  /\ ~ENABLED Executes(i.call, WalletAt[g])

\* The wallet's owner rejects it, or it is lost.
Dropped(g, i) == i \in page[g].pending /\ Ends(g, i) /\ UNCHANGED vars
-----------------------------------------------------------------------------
Others ==
  /\ \/ Tick
     \/ \E p \in Positions :
          DrawFunds(RUNNER, p) \/ \E returned \in Returns : SettlePosition(RUNNER, p, returned)
  /\ UNCHANGED <<page, clicks>>

OperatorClicks(g) ==
  \/ CreateDraft(g) \/ Types(g)
  \/ \E a \in Agents :
       \/ EditDraft(g, a) \/ SaveDraft(g, a) \/ Publish(g, a)
       \/ Bind(g, a) \/ PauseOrResume(g, a) \/ Deposit(g, a) \/ Withdraw(g, a)
  \/ \E p \in Positions : Draw(g, p) \/ Decline(g, p) \/ Settle(g, p)

TraderClicks(g) == \E p \in Positions : Allocate(g, p) \/ Cancel(g, p) \/ Claim(g, p)

PageNext(g) ==
  \/ Reads(g) \/ Shows(g) \/ Renders(g) \/ OperatorClicks(g) \/ TraderClicks(g)
  \/ \E i \in page[g].pending : Lands(g, i) \/ Rejected(g, i) \/ Dropped(g, i)

ConsoleNext == Others \/ \E g \in Pages : PageNext(g)

ConsoleSpec == ConsoleInit /\ [][ConsoleNext]_consoleVars
-----------------------------------------------------------------------------
(* Properties *)

\* A position gets the terms that its trader's page showed, however old the page:
\* a draft is never offered, and published terms never change.
TermsShownAreTermsGiven ==
  [][ \A g \in Pages : \A i \in page[g].pending :
        Lands(g, i) /\ i.call.op = "openPosition" =>
          LET terms == i.saw.agent[AgentOf(i.call.p)].terms
              pos   == position'[i.call.p]
          IN  /\ pos.fee_bps = terms.fee_bps /\ pos.max_drawdown_bps = terms.max_drawdown_bps
              /\ pos.locked_collateral = RequiredCollateral(i.call.amount, terms.collateral_ratio_bps)
    ]_consoleVars

\* A button does what it says unless what its page goes by is no longer so: the accounts,
\* the time (a page is not rendered as time passes) or, in a form for an amount, the balance.
\* Four things the pages leave to the program: what creating an agent costs, the free
\* collateral to withdraw, what a settlement can send, and whether an agent published under
\* old terms can still take positions (open_position.rs:64-72).
GoesBy(g, i) ==
  /\ i.saw = Snapshot /\ i.at = now
  /\ i.call.op \in {"depositCollateral", "openPosition"} => i.had = Balance(g)

LeftToProgram(i) ==
  \/ i.op \in {"createAgent", "withdrawCollateral", "settlePosition"}
  \/ /\ i.op = "openPosition"
     /\ LET terms == agent[AgentOf(i.p)].terms
        IN  ~RatioAndDrawdownFit(terms.collateral_ratio_bps, terms.max_drawdown_bps)

OffersOnlyWhatWorks ==
  [][ \A g \in Pages : \A i \in page[g].pending :
        Rejected(g, i) => ~GoesBy(g, i) \/ LeftToProgram(i.call) ]_consoleVars

\* "Decline & refund": "Refund the trader in full. No fee, no breach." (agent/page.tsx:437)
DeclineIsNoBreach ==
  [][ \A g \in Pages : \A i \in page[g].pending :
        Lands(g, i) /\ i.call.op = "decline" => position'[i.call.p].breach = "None" ]_consoleVars
=============================================================================
