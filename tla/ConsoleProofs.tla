---------------------------- MODULE ConsoleProofs ----------------------------
(***************************************************************************)
(* Whoever works with the program through pages, commands and scripts, on  *)
(* whatever old snapshots: a trader gets the terms that the page showed,   *)
(* the set-up script can be run again wherever it stopped, and the bad     *)
(* operator's misconduct ends as its script says.  For every number of     *)
(* tabs, clicks, agents, traders and runs of the script.                   *)
(***************************************************************************)
EXTENDS OperatorTools, ProgramProofs
-----------------------------------------------------------------------------
(* What a call leaves of an agent *)

\* The agent after traders and trading keys acted: what it was, but for slashes.
KeepsAgent(ag, new) ==
  /\ new.status = ag.status /\ new.executor = ag.executor /\ new.terms = ag.terms
  /\ new.total_collateral <= ag.total_collateral
  /\ new.total_collateral + new.slashed_total = ag.total_collateral + ag.slashed_total

\* Releasing a guarantee does that.
LEMMA ReleasedKeepsAgent ==
  ASSUME NEW ag \in AgentRecord, NEW pos \in PositionRecord, NEW b \in AgentRecord,
         KeepsAgent(ag, b)
  PROVE  KeepsAgent(ag, Released(b, pos))
<1>1. /\ Released(b, pos).status = b.status /\ Released(b, pos).executor = b.executor
      /\ Released(b, pos).terms = b.terms
      /\ Released(b, pos).total_collateral = b.total_collateral
      /\ Released(b, pos).slashed_total = b.slashed_total
  BY DEF Released, AgentRecord
<1> QED BY <1>1 DEF KeepsAgent

\* So does a slash.
LEMMA SlashedKeepsAgent ==
  ASSUME NEW ag \in AgentRecord, NEW amount \in Nat
  PROVE  KeepsAgent(ag, Slashed(ag, amount))
<1> DEFINE new == Slashed(ag, amount)
<1>1. /\ new.status = ag.status /\ new.executor = ag.executor /\ new.terms = ag.terms
      /\ new.total_collateral = ag.total_collateral - amount
      /\ new.slashed_total = ag.slashed_total + amount
  BY DEF Slashed, AgentRecord
<1>2. ag.total_collateral \in Nat /\ ag.slashed_total \in Nat
  BY DEF AgentRecord
<1> HIDE DEF new
<1>3. /\ new.total_collateral <= ag.total_collateral
      /\ new.total_collateral + new.slashed_total = ag.total_collateral + ag.slashed_total
  BY <1>1, <1>2, SMT
<1> QED BY <1>1, <1>3 DEF KeepsAgent, new

\* And so do the counters of what ended.
LEMMA CountedKeepsAgent ==
  ASSUME NEW ag \in AgentRecord, NEW b \in AgentRecord, KeepsAgent(ag, b), NEW x, NEW y, NEW z
  PROVE  /\ KeepsAgent(ag, [b EXCEPT !.defaulted_positions = x, !.breach_count = y])
         /\ KeepsAgent(ag, [b EXCEPT !.settled_positions = x, !.breach_count = y,
                                     !.fees_earned = z])
BY DEF KeepsAgent, AgentRecord

\* The agents after an instruction that replaced one record.
LEMMA OneAgentKept ==
  ASSUME TypeOK, NEW a \in Agents, NEW new, KeepsAgent(agent[a], new),
         agent' = [agent EXCEPT ![a] = new]
  PROVE  \A b \in Agents : KeepsAgent(agent[b], agent'[b])
<1> TAKE b \in Agents
<1>1. agent[b].total_collateral \in Nat /\ agent[b] \in AgentRecord
  BY DEF TypeOK, AgentRecord
<1>2. CASE b = a
  <2>1. agent'[b] = new
    BY <1>2 DEF TypeOK
  <2> QED BY <1>2, <2>1
<1>3. CASE b # a
  <2>1. agent'[b] = agent[b]
    BY <1>3 DEF TypeOK
  <2> QED BY <1>1, <2>1, SMT DEF KeepsAgent
<1> QED BY <1>2, <1>3

\* Neither traders nor trading keys change an agent in any other way.
LEMMA PositionCallsKeepAgents ==
  ASSUME TypeOK, NEW p \in Positions, NEW key \in Wallets, NEW amount \in Nat,
         NEW duration \in Nat, NEW returned \in Nat,
         \/ OpenPosition(p, amount, duration) \/ CancelPosition(p) \/ ClaimDefault(p)
         \/ DrawFunds(key, p) \/ SettlePosition(key, p, returned)
  PROVE  \A a \in Agents : KeepsAgent(agent[a], agent'[a])
<1> DEFINE a == AgentOf(p)
<1>1. a \in Agents /\ agent[a] \in AgentRecord /\ position[p] \in PositionRecord
  BY PositionKeys DEF TypeOK
<1>2. KeepsAgent(agent[a], agent[a])
  <2>1. agent[a].total_collateral \in Nat
    BY <1>1 DEF AgentRecord
  <2> QED BY <2>1, SMT DEF KeepsAgent
<1>3. CASE OpenPosition(p, amount, duration)
  <2>1. PICK x, y, z : agent' = [agent EXCEPT ![a] =
          [agent[a] EXCEPT !.locked_collateral = x, !.capital_managed = y, !.open_positions = z]]
    BY <1>1, <1>3 DEF OpenPosition, TypeOK
  <2>2. KeepsAgent(agent[a], [agent[a] EXCEPT !.locked_collateral = x,
                                !.capital_managed = y, !.open_positions = z])
    BY <1>1, <1>2 DEF KeepsAgent, AgentRecord
  <2> QED BY <1>1, <2>1, <2>2, OneAgentKept
<1>4. CASE CancelPosition(p)
  <2>1. agent' = [agent EXCEPT ![a] = Released(agent[a], position[p])]
    BY <1>4 DEF CancelPosition
  <2> QED BY <1>1, <1>2, <2>1, ReleasedKeepsAgent, OneAgentKept
<1>5. ASSUME NEW slash \in Nat, CanSlash(a, slash), CanRelease(agent[a], position[p])
      PROVE  /\ Released(Slashed(agent[a], slash), position[p]) \in AgentRecord
             /\ KeepsAgent(agent[a], Released(Slashed(agent[a], slash), position[p]))
  <2>1. agent[a].total_collateral >= slash
    BY <1>5 DEF CanSlash
  <2>2. /\ Slashed(agent[a], slash) \in AgentRecord
        /\ CanRelease(Slashed(agent[a], slash), position[p])
    BY <1>1, <1>5, <2>1, SlashedTyped DEF CanRelease
  <2>3. KeepsAgent(agent[a], Slashed(agent[a], slash))
    BY <1>1, SlashedKeepsAgent
  <2> QED BY <1>1, <2>2, <2>3, ReleasedTyped, ReleasedKeepsAgent
<1>6. CASE ClaimDefault(p)
  <2> DEFINE slash == position[p].locked_collateral
             after == Released(Slashed(agent[a], slash), position[p])
  <2>1. slash \in Nat
    BY <1>1 DEF PositionRecord
  <2>2. CanSlash(a, slash) /\ CanRelease(agent[a], position[p])
    BY <1>6 DEF ClaimDefault
  <2>3. after \in AgentRecord /\ KeepsAgent(agent[a], after)
    BY <1>5, <2>1, <2>2
  <2>4. PICK x, y : agent' = [agent EXCEPT ![a] =
                      [after EXCEPT !.defaulted_positions = x, !.breach_count = y]]
    BY <1>6 DEF ClaimDefault
  <2> HIDE DEF after
  <2>5. KeepsAgent(agent[a], [after EXCEPT !.defaulted_positions = x, !.breach_count = y])
    BY <1>1, <2>3, CountedKeepsAgent
  <2> QED BY <1>1, <2>4, <2>5, OneAgentKept
<1>7. CASE DrawFunds(key, p)
  <2>1. agent' = agent
    BY <1>7 DEF DrawFunds
  <2>2. \A b \in Agents : agent[b].total_collateral \in Nat
    BY DEF TypeOK, AgentRecord
  <2> QED BY <2>1, <2>2, SMT DEF KeepsAgent
<1>8. CASE SettlePosition(key, p, returned)
  <2> DEFINE pos       == position[p]
             effective == IF pos.status = "Open" THEN pos.principal ELSE returned
             slash     == ComputeSettlement(pos.principal, effective, pos.fee_bps,
                                            pos.max_drawdown_bps, pos.locked_collateral).slash
             after     == Released(Slashed(agent[a], slash), pos)
  <2>1. slash \in Nat
    <3>1. /\ pos.principal \in Nat /\ pos.fee_bps \in Nat /\ pos.max_drawdown_bps \in Nat
          /\ pos.locked_collateral \in Nat /\ effective \in Nat
      BY <1>1 DEF PositionRecord
    <3> HIDE DEF pos, effective
    <3> QED BY <3>1, SettlementTyped
  <2>2. CanSlash(a, slash) /\ CanRelease(agent[a], pos)
    BY <1>8 DEF SettlePosition
  <2>3. after \in AgentRecord /\ KeepsAgent(agent[a], after)
    BY <1>5, <2>1, <2>2
  <2>4. PICK x, y, z : agent' = [agent EXCEPT ![a] =
          [after EXCEPT !.settled_positions = x, !.breach_count = y, !.fees_earned = z]]
    BY <1>8 DEF SettlePosition
  <2> HIDE DEF after
  <2>5. KeepsAgent(agent[a], [after EXCEPT !.settled_positions = x, !.breach_count = y,
                                           !.fees_earned = z])
    BY <1>1, <2>3, CountedKeepsAgent
  <2> QED BY <1>1, <2>4, <2>5, OneAgentKept
<1> QED BY <1>3, <1>4, <1>6, <1>7, <1>8
-----------------------------------------------------------------------------
(* Calls *)

\* What pages, commands and scripts may ask of the program.
Calls ==
  [op : {"createAgent", "updateAgent"}, a : Agents, terms : AgentTerms]
    \cup [op : {"publishAgent"}, a : Agents]
    \cup [op : {"setExecutor"}, a : Agents, key : Wallets]
    \cup [op : {"setAccepting"}, a : Agents, accepting : BOOLEAN]
    \cup [op : {"depositCollateral", "withdrawCollateral"}, a : Agents, amount : Nat]
    \cup [op : {"drawFunds", "decline", "cancelPosition", "claimDefault"}, p : Positions]
    \cup [op : {"settlePosition"}, p : Positions, returned : Nat]
    \cup [op : {"openPosition"}, p : Positions, amount : Nat, duration : Nat]

\* What is published stays so, with the same terms.
AgentsMoveOn ==
  \A a \in Agents : IsPublished(agent[a]) =>
    IsPublished(agent'[a]) /\ agent'[a].terms = agent[a].terms

\* A step that keeps agents moves them on.
LEMMA KeptMovesOn ==
  ASSUME \A a \in Agents : KeepsAgent(agent[a], agent'[a])
  PROVE  AgentsMoveOn
BY DEF KeepsAgent, AgentsMoveOn, IsPublished

\* No call of an operator changes the terms of what is published.
LEMMA OperatorCallsMoveOn ==
  ASSUME TypeOK, NEW a \in Agents, NEW i, NEW t, NEW key, NEW accepting, NEW amount,
         \/ CreateAgent(a, i, t) \/ UpdateAgent(a, i, t) \/ PublishAgent(a)
         \/ SetExecutor(a, key) \/ SetAccepting(a, accepting)
         \/ DepositCollateral(a, amount) \/ WithdrawCollateral(a, amount)
  PROVE  AgentsMoveOn
<1>1. PICK new : agent' = [agent EXCEPT ![a] = new]
  BY DEF CreateAgent, UpdateAgent, PublishAgent, SetExecutor, SetAccepting,
         DepositCollateral, WithdrawCollateral, TypeOK
<1>2. agent'[a] = new /\ \A b \in Agents \ {a} : agent'[b] = agent[b]
  BY <1>1 DEF TypeOK
<1>3. agent[a] \in AgentRecord
  BY DEF TypeOK
<1>4. IsPublished(agent[a]) => IsPublished(agent'[a]) /\ agent'[a].terms = agent[a].terms
  BY <1>3 DEF IsPublished, CreateAgent, UpdateAgent, PublishAgent, SetExecutor, SetAccepting,
              DepositCollateral, WithdrawCollateral, TypeOK, AgentRecord
<1> QED BY <1>2, <1>4 DEF AgentsMoveOn

\* Whatever is called, the accounts stay typed and what is published stays.
LEMMA CallsTyped ==
  ASSUME TypeOK, NEW i \in Calls, NEW w \in Wallets, Executes(i, w)
  PROVE  TypeOK' /\ AgentsMoveOn
<1>1. SomeIdentity \in Identities
  BY TermsTyped
<1>2. CASE i.op \in {"createAgent", "updateAgent"}
  <2>1. i.a \in Agents /\ i.terms \in AgentTerms
    BY <1>2 DEF Calls
  <2>2. CreateAgent(i.a, SomeIdentity, i.terms) \/ UpdateAgent(i.a, SomeIdentity, i.terms)
    BY <1>2 DEF Executes
  <2> QED BY <1>1, <2>1, <2>2, OperatorCallsTyped, OperatorCallsMoveOn
<1>3. CASE i.op = "publishAgent"
  <2>1. i.a \in Agents /\ PublishAgent(i.a)
    BY <1>3 DEF Calls, Executes
  <2> QED BY <2>1, OperatorCallsTyped, OperatorCallsMoveOn
<1>4. CASE i.op = "setExecutor"
  <2>1. i.a \in Agents /\ i.key \in Wallets /\ SetExecutor(i.a, i.key)
    BY <1>4 DEF Calls, Executes
  <2> QED BY <2>1, OperatorCallsTyped, OperatorCallsMoveOn
<1>5. CASE i.op = "setAccepting"
  <2>1. i.a \in Agents /\ i.accepting \in BOOLEAN /\ SetAccepting(i.a, i.accepting)
    BY <1>5 DEF Calls, Executes
  <2> QED BY <2>1, OperatorCallsTyped, OperatorCallsMoveOn
<1>6. CASE i.op \in {"depositCollateral", "withdrawCollateral"}
  <2>1. i.a \in Agents /\ i.amount \in Nat
    BY <1>6 DEF Calls
  <2>2. DepositCollateral(i.a, i.amount) \/ WithdrawCollateral(i.a, i.amount)
    BY <1>6 DEF Executes
  <2> QED BY <2>1, <2>2, OperatorCallsTyped, OperatorCallsMoveOn
<1>7. CASE i.op \in {"drawFunds", "decline", "cancelPosition", "claimDefault"}
  <2>1. i.p \in Positions /\ 0 \in Nat
    BY <1>7 DEF Calls
  <2>2. \/ DrawFunds(w, i.p) \/ SettlePosition(w, i.p, 0)
        \/ CancelPosition(i.p) \/ ClaimDefault(i.p)
    BY <1>7 DEF Executes
  <2> QED BY <2>1, <2>2, DrawTypeOK, SettleTypeOK, CancelTypeOK, ClaimTypeOK,
             PositionCallsKeepAgents, KeptMovesOn
<1>8. CASE i.op = "settlePosition"
  <2>1. i.p \in Positions /\ i.returned \in Nat /\ 0 \in Nat
    BY <1>8 DEF Calls
  <2>2. SettlePosition(w, i.p, i.returned)
    BY <1>8 DEF Executes
  <2> QED BY <2>1, <2>2, SettleTypeOK, PositionCallsKeepAgents, KeptMovesOn
<1>9. CASE i.op = "openPosition"
  <2>1. i.p \in Positions /\ i.amount \in Nat /\ i.duration \in Nat
    BY <1>9 DEF Calls
  <2>2. OpenPosition(i.p, i.amount, i.duration)
    BY <1>9 DEF Executes
  <2> QED BY <2>1, <2>2, OpenTypeOK, PositionCallsKeepAgents, KeptMovesOn
<1>10. i.op \in {"createAgent", "updateAgent", "publishAgent", "setExecutor", "setAccepting",
                 "depositCollateral", "withdrawCollateral", "drawFunds", "decline",
                 "cancelPosition", "claimDefault", "settlePosition", "openPosition"}
  BY DEF Calls
<1> QED BY <1>2, <1>3, <1>4, <1>5, <1>6, <1>7, <1>8, <1>9, <1>10
-----------------------------------------------------------------------------
(* Pages *)

Snapshots == [agent : [Agents -> AgentRecord], position : [Positions -> PositionRecord]]
Clicked   == [call : Calls, saw : Snapshots, at : Nat, had : SUBSET Nat]
PageRecord ==
  [snap : Snapshots, rendered : Nat, coming : Snapshots \cup {NoSnapshot},
   draft : [a : Agents \cup {0}, terms : AgentTerms], pending : SUBSET Clicked]

\* What a snapshot shows as published is published, with these terms, however old it is.
StillTrue(snap, agents) ==
  \A a \in Agents : snap.agent[a].status \in {"Active", "Paused"} =>
    agents[a].status \in {"Active", "Paused"} /\ agents[a].terms = snap.agent[a].terms

\* A position is asked for of an agent that was shown as active.
AskedOfActive(c) ==
  c.call.op = "openPosition" => c.saw.agent[AgentOf(c.call.p)].status = "Active"

PageOK(r, agents) ==
  /\ r \in PageRecord
  /\ StillTrue(r.snap, agents)
  /\ r.coming # NoSnapshot => StillTrue(r.coming, agents)
  /\ \A c \in r.pending : StillTrue(c.saw, agents) /\ AskedOfActive(c)

\* The inductive invariant of the pages.
PagesInv == page \in [Pages -> PageRecord] /\ \A g \in Pages : PageOK(page[g], agent)

\* A snapshot stays true as agents move on.
LEMMA PageOKStays ==
  ASSUME AgentsMoveOn, NEW r, PageOK(r, agent)
  PROVE  PageOK(r, agent')
<1>1. ASSUME NEW snap, StillTrue(snap, agent) PROVE StillTrue(snap, agent')
  BY <1>1 DEF StillTrue, AgentsMoveOn, IsPublished
<1> QED BY <1>1 DEF PageOK

\* A step that changes at most one page, to one that is sound, keeps the invariant.
LEMMA OnePageChanged ==
  ASSUME PagesInv, AgentsMoveOn, NEW g \in Pages, NEW new, PageOK(new, agent),
         page' = [page EXCEPT ![g] = new]
  PROVE  PagesInv'
<1>1. page' \in [Pages -> PageRecord]
  BY DEF PagesInv, PageOK
<1>2. ASSUME NEW h \in Pages PROVE PageOK(page'[h], agent')
  <2>1. PageOK(page'[h], agent)
    BY DEF PagesInv
  <2> QED BY <2>1, PageOKStays
<1> QED BY <1>1, <1>2 DEF PagesInv

LEMMA NoPageChanged ==
  ASSUME PagesInv, AgentsMoveOn, page' = page
  PROVE  PagesInv'
BY PageOKStays DEF PagesInv

\* While no account changes, nothing moves on.
LEMMA NothingMoves == UNCHANGED vars => AgentsMoveOn
BY DEF vars, AgentsMoveOn

\* The accounts as they are make a true snapshot.
LEMMA FreshSnapshot ==
  ASSUME TypeOK
  PROVE  Snapshot \in Snapshots /\ StillTrue(Snapshot, agent)
BY DEF TypeOK, Snapshot, Snapshots, StillTrue

\* A click that goes by some balance, or by none.
Clicks(g, i) == \E balance \in SUBSET Nat : ClickKnowing(g, i, balance)

\* A click on a sound page leaves a sound page.
LEMMA ClickKeepsPages ==
  ASSUME TypeOK, PagesInv, NEW g \in Pages, NEW i \in Calls, Clicks(g, i),
         i.op = "openPosition" => AgentShown(g, AgentOf(i.p)).status = "Active"
  PROVE  PagesInv' /\ UNCHANGED vars
<1>0. PICK balance \in SUBSET Nat : ClickKnowing(g, i, balance)
  BY DEF Clicks
<1> DEFINE r == page[g]
           c == [call |-> i, saw |-> r.snap, at |-> r.rendered, had |-> balance]
<1>1. r \in PageRecord /\ PageOK(r, agent)
  BY DEF PagesInv
<1>2. c \in Clicked
  BY <1>1 DEF Clicked, PageRecord
<1>3. c.call = i /\ c.saw = r.snap
  OBVIOUS
<1>4. AskedOfActive(c)
  BY <1>3 DEF AskedOfActive, AgentShown
<1> DEFINE new == [r EXCEPT !.pending = r.pending \cup {c}, !.rendered = now]
<1>5. page' = [page EXCEPT ![g] = new]
  BY <1>0, <1>1 DEF ClickKnowing, PagesInv, PageRecord
<1> HIDE DEF c, r
<1>6. PageOK(new, agent)
  <2>1. /\ new \in PageRecord /\ new.snap = r.snap /\ new.coming = r.coming
        /\ new.pending = r.pending \cup {c}
    BY <1>1, <1>2 DEF PageRecord, TypeOK
  <2>2. StillTrue(c.saw, agent)
    BY <1>1, <1>3 DEF PageOK
  <2> HIDE DEF new
  <2> QED BY <1>1, <1>4, <2>1, <2>2 DEF PageOK
<1>7. UNCHANGED vars /\ AgentsMoveOn
  BY <1>0, NothingMoves DEF ClickKnowing
<1> QED BY <1>5, <1>6, <1>7, OnePageChanged

\* The end of a click leaves a sound page, whatever it did to the accounts.
LEMMA EndKeepsPages ==
  ASSUME TypeOK, PagesInv, AgentsMoveOn, NEW g \in Pages, NEW c, Ends(g, c)
  PROVE  PagesInv'
<1> DEFINE r == page[g]
           new == [r EXCEPT !.pending = r.pending \ {c}, !.rendered = now]
<1>1. r \in PageRecord /\ PageOK(r, agent)
  BY DEF PagesInv
<1>2. page' = [page EXCEPT ![g] = new]
  BY <1>1 DEF Ends, PagesInv, PageRecord
<1>3. /\ new \in PageRecord /\ new.snap = r.snap /\ new.coming = r.coming
      /\ new.pending = r.pending \ {c}
  BY <1>1 DEF PageRecord, TypeOK
<1> HIDE DEF new
<1>4. PageOK(new, agent)
  BY <1>1, <1>3 DEF PageOK
<1> QED BY <1>2, <1>4, OnePageChanged
-----------------------------------------------------------------------------
(* What happens on a page *)

\* The smaller and the greater of two numbers.
LEMMA MaxOfTwo ==
  ASSUME NEW x \in Int, NEW y \in Int
  PROVE  /\ Max({x, y}) = IF x > y THEN x ELSE y
         /\ Min({x, y}) = IF x < y THEN x ELSE y
<1> DEFINE m == IF x > y THEN x ELSE y
           n == IF x < y THEN x ELSE y
<1>1. m \in {x, y} /\ \A z \in {x, y} : m >= z
  OBVIOUS
<1>2. \A c \in {x, y} : (\A z \in {x, y} : c >= z) => c = m
  OBVIOUS
<1>3. n \in {x, y} /\ \A z \in {x, y} : n <= z
  OBVIOUS
<1>4. \A c \in {x, y} : (\A z \in {x, y} : c <= z) => c = n
  OBVIOUS
<1>5. Max({x, y}) = m
  <2> HIDE DEF m
  <2> QED BY <1>1, <1>2 DEF Max
<1>6. Min({x, y}) = n
  <2> HIDE DEF n
  <2> QED BY <1>3, <1>4 DEF Min
<1> QED BY <1>5, <1>6

\* Whatever is typed into the form, the draft is terms.
LEMMA TypedAreTerms ==
  ASSUME NEW t \in AgentTerms
  PROVE  Typed(t) \subseteq AgentTerms
<1>1. /\ t.collateral_ratio_bps \in Nat /\ t.fee_bps \in Nat /\ t.max_drawdown_bps \in Nat
      /\ t \in AgentTerms
  BY DEF AgentTerms
<1>2. /\ \A ratio \in RatioChoices : ratio \in Nat
      /\ \A d \in DurationChoices : d \in Nat
      /\ FeeChoices \subseteq Nat /\ DrawdownChoices \subseteq Nat
      /\ DisclosureChoices \subseteq Disclosures
  BY ConsoleAssumption, ConstantsAssumption DEF ConsoleAssumption, ConstantsAssumption
<1>3. ASSUME NEW ratio \in Nat
      PROVE  Min({t.fee_bps, maxFeeForRatio(ratio)}) \in Nat
  <2>1. maxFeeForRatio(ratio) \in Nat
    BY DivBounds, ConstantsAssumption DEF ConstantsAssumption, maxFeeForRatio
  <2>2. /\ t.fee_bps \in Int /\ maxFeeForRatio(ratio) \in Int
        /\ t.fee_bps \in Nat /\ maxFeeForRatio(ratio) \in Nat
    BY <1>1, <2>1
  <2> QED BY <2>2, MaxOfTwo
<1>4. ASSUME NEW ratio \in Nat
      PROVE  Min({t.max_drawdown_bps, maxDrawdownForRatio(ratio)}) \in Nat
  <2> DEFINE rest == BPS_DENOMINATOR - ratio
             least == Min({MAX_DRAWDOWN_BPS, rest})
  <2>1. rest \in Int /\ MAX_DRAWDOWN_BPS \in Int /\ 0 \in Int
    BY ConstantsAssumption DEF ConstantsAssumption
  <2>2. least \in Int
    <3> HIDE DEF rest
    <3> QED BY <2>1, MaxOfTwo
  <2>3. Max({0, least}) \in Nat
    <3> HIDE DEF least
    <3> QED BY <2>1, <2>2, MaxOfTwo
  <2>4. maxDrawdownForRatio(ratio) \in Nat
    BY <2>3 DEF maxDrawdownForRatio
  <2>5. /\ t.max_drawdown_bps \in Int /\ maxDrawdownForRatio(ratio) \in Int
        /\ t.max_drawdown_bps \in Nat
    BY <1>1, <2>4
  <2> QED BY <2>4, <2>5, MaxOfTwo
<1> SUFFICES ASSUME NEW u \in Typed(t) PROVE u \in AgentTerms
  OBVIOUS
<1>6. \/ \E ratio \in RatioChoices :
           u = [t EXCEPT !.collateral_ratio_bps = ratio,
                         !.fee_bps = Min({t.fee_bps, maxFeeForRatio(ratio)}),
                         !.max_drawdown_bps
                            = Min({t.max_drawdown_bps, maxDrawdownForRatio(ratio)})]
      \/ \E fee \in FeeChoices : u = [t EXCEPT !.fee_bps = fee]
      \/ \E drawdown \in DrawdownChoices : u = [t EXCEPT !.max_drawdown_bps = drawdown]
      \/ \E d \in DurationChoices :
           u = [t EXCEPT !.min_duration_secs = d] \/ u = [t EXCEPT !.max_duration_secs = d]
      \/ \E disclosure \in DisclosureChoices : u = [t EXCEPT !.disclosure = disclosure]
  <2> DEFINE Ratios == { [t EXCEPT !.collateral_ratio_bps = x,
                                   !.fee_bps = Min({@, maxFeeForRatio(x)}),
                                   !.max_drawdown_bps = Min({@, maxDrawdownForRatio(x)})] :
                           x \in RatioChoices }
             FeeTyped == { [t EXCEPT !.fee_bps = f] :
                         f \in FeeChoices \cap 0..maxFeeForRatio(t.collateral_ratio_bps) }
             Drawdowns == { [t EXCEPT !.max_drawdown_bps = d] :
                              d \in DrawdownChoices
                                      \cap 0..maxDrawdownForRatio(t.collateral_ratio_bps) }
             Least == { [t EXCEPT !.min_duration_secs = d] : d \in DurationChoices }
             Greatest == { [t EXCEPT !.max_duration_secs = d] : d \in DurationChoices }
             Rules == { [t EXCEPT !.disclosure = d] : d \in DisclosureChoices }
  <2>1. Typed(t) = UNION {Ratios, FeeTyped, Drawdowns, Least, Greatest, Rules}
    BY DEF Typed
  <2>2. u \in Ratios =>
          \E ratio \in RatioChoices :
            u = [t EXCEPT !.collateral_ratio_bps = ratio,
                          !.fee_bps = Min({t.fee_bps, maxFeeForRatio(ratio)}),
                          !.max_drawdown_bps
                             = Min({t.max_drawdown_bps, maxDrawdownForRatio(ratio)})]
    <3> SUFFICES ASSUME u \in Ratios
                 PROVE  \E ratio \in RatioChoices :
                          u = [t EXCEPT !.collateral_ratio_bps = ratio,
                                !.fee_bps = Min({t.fee_bps, maxFeeForRatio(ratio)}),
                                !.max_drawdown_bps
                                   = Min({t.max_drawdown_bps, maxDrawdownForRatio(ratio)})]
      OBVIOUS
    <3>1. PICK ratio \in RatioChoices :
            u = [t EXCEPT !.collateral_ratio_bps = ratio,
                          !.fee_bps = Min({@, maxFeeForRatio(ratio)}),
                          !.max_drawdown_bps = Min({@, maxDrawdownForRatio(ratio)})]
      OBVIOUS
    <3>2. /\ [t EXCEPT !.collateral_ratio_bps = ratio].fee_bps = t.fee_bps
          /\ \A f : [t EXCEPT !.collateral_ratio_bps = ratio, !.fee_bps = f].max_drawdown_bps
                      = t.max_drawdown_bps
      BY <1>1 DEF AgentTerms
    <3> QED BY <3>1, <3>2
  <2>3. u \in FeeTyped => \E fee \in FeeChoices : u = [t EXCEPT !.fee_bps = fee]
    OBVIOUS
  <2>4. u \in Drawdowns =>
          \E drawdown \in DrawdownChoices : u = [t EXCEPT !.max_drawdown_bps = drawdown]
    OBVIOUS
  <2>5. u \in Least \cup Greatest =>
          \E d \in DurationChoices :
            u = [t EXCEPT !.min_duration_secs = d] \/ u = [t EXCEPT !.max_duration_secs = d]
    OBVIOUS
  <2>6. u \in Rules =>
          \E disclosure \in DisclosureChoices : u = [t EXCEPT !.disclosure = disclosure]
    OBVIOUS
  <2> HIDE DEF Ratios, FeeTyped, Drawdowns, Least, Greatest, Rules
  <2> QED BY <2>1, <2>2, <2>3, <2>4, <2>5, <2>6
<1>7. ASSUME NEW ratio \in RatioChoices,
             u = [t EXCEPT !.collateral_ratio_bps = ratio,
                           !.fee_bps = Min({t.fee_bps, maxFeeForRatio(ratio)}),
                           !.max_drawdown_bps
                              = Min({t.max_drawdown_bps, maxDrawdownForRatio(ratio)})]
      PROVE  u \in AgentTerms
  <2> DEFINE fee == Min({t.fee_bps, maxFeeForRatio(ratio)})
             drawdown == Min({t.max_drawdown_bps, maxDrawdownForRatio(ratio)})
  <2>1. fee \in Nat /\ drawdown \in Nat /\ ratio \in Nat
    BY <1>2, <1>3, <1>4
  <2>2. u = [t EXCEPT !.collateral_ratio_bps = ratio, !.fee_bps = fee,
                      !.max_drawdown_bps = drawdown]
    BY <1>7
  <2> HIDE DEF fee, drawdown
  <2> QED BY <1>1, <2>1, <2>2 DEF AgentTerms
<1>9. ASSUME NEW fee \in FeeChoices, u = [t EXCEPT !.fee_bps = fee]
      PROVE  u \in AgentTerms
  BY <1>1, <1>2, <1>9 DEF AgentTerms
<1>10. ASSUME NEW drawdown \in DrawdownChoices, u = [t EXCEPT !.max_drawdown_bps = drawdown]
      PROVE  u \in AgentTerms
  BY <1>1, <1>2, <1>10 DEF AgentTerms
<1>11. ASSUME NEW d \in DurationChoices,
              u = [t EXCEPT !.min_duration_secs = d] \/ u = [t EXCEPT !.max_duration_secs = d]
      PROVE  u \in AgentTerms
  BY <1>1, <1>2, <1>11 DEF AgentTerms
<1>12. ASSUME NEW disclosure \in DisclosureChoices, u = [t EXCEPT !.disclosure = disclosure]
      PROVE  u \in AgentTerms
  BY <1>1, <1>2, <1>12 DEF AgentTerms
<1> QED BY <1>6, <1>7, <1>9, <1>10, <1>11, <1>12

\* Loading and typing.
LEMMA LoadingKeepsPages ==
  ASSUME TypeOK, PagesInv, NEW g \in Pages,
         Reads(g) \/ Shows(g) \/ Renders(g) \/ Types(g) \/ \E a \in Agents : EditDraft(g, a)
  PROVE  PagesInv' /\ UNCHANGED vars
<1> DEFINE r == page[g]
<1>1. r \in PageRecord /\ PageOK(r, agent) /\ page \in [Pages -> PageRecord]
  BY DEF PagesInv
<1>2. UNCHANGED vars
  BY DEF Reads, Shows, Renders, Types, EditDraft
<1>3. AgentsMoveOn
  BY <1>2, NothingMoves
<1>4. CASE Reads(g)
  <2>1. page' = [page EXCEPT ![g] = [r EXCEPT !.coming = Snapshot]]
    BY <1>1, <1>4 DEF Reads
  <2> DEFINE new == [r EXCEPT !.coming = Snapshot]
  <2>2. Snapshot \in Snapshots /\ StillTrue(Snapshot, agent)
    BY FreshSnapshot
  <2> HIDE DEF r
  <2>3. /\ new \in PageRecord /\ new.snap = r.snap /\ new.coming = Snapshot
        /\ new.pending = r.pending
    BY <1>1, <2>2 DEF PageRecord
  <2> HIDE DEF new
  <2>4. PageOK(new, agent)
    BY <1>1, <2>2, <2>3 DEF PageOK
  <2> QED BY <1>2, <1>3, <2>1, <2>4, OnePageChanged DEF new, r
<1>5. CASE Shows(g)
  <2>1. PICK snap \in {r.coming, r.snap} :
          page' = [page EXCEPT ![g].snap = snap, ![g].coming = NoSnapshot, ![g].rendered = now,
                               ![g].draft = IF @.a # 0 /\ snap.agent[@.a].status = "Draft"
                                            THEN @ ELSE NoDraft]
    BY <1>5 DEF Shows
  <2> DEFINE draft == IF r.draft.a # 0 /\ snap.agent[r.draft.a].status = "Draft"
                      THEN r.draft ELSE NoDraft
  <2>6. page' = [page EXCEPT ![g] = [r EXCEPT !.snap = snap, !.coming = NoSnapshot,
                                              !.rendered = now, !.draft = draft]]
    <3>1. [r EXCEPT !.snap = snap, !.coming = NoSnapshot, !.rendered = now].draft = r.draft
      BY <1>1 DEF PageRecord
    <3> QED BY <1>1, <2>1, <3>1
  <2>2. snap \in Snapshots /\ StillTrue(snap, agent)
    BY <1>1, <1>5 DEF Shows, PageOK, PageRecord
  <2>3. draft \in [a : Agents \cup {0}, terms : AgentTerms]
    BY <1>1, TermsTyped DEF PageRecord, NoDraft
  <2> DEFINE new == [r EXCEPT !.snap = snap, !.coming = NoSnapshot, !.rendered = now,
                              !.draft = draft]
  <2> HIDE DEF r, draft
  <2>4. /\ new \in PageRecord /\ new.snap = snap /\ new.coming = NoSnapshot
        /\ new.pending = r.pending
    BY <1>1, <2>2, <2>3 DEF PageRecord, TypeOK
  <2> HIDE DEF new
  <2>5. PageOK(new, agent)
    BY <1>1, <2>2, <2>4 DEF PageOK
  <2> QED BY <1>2, <1>3, <2>5, <2>6, OnePageChanged DEF new, r
<1>6. ASSUME NEW draft \in [a : Agents \cup {0}, terms : AgentTerms],
             page' = [page EXCEPT ![g] = [r EXCEPT !.draft = draft]]
      PROVE  PagesInv'
  <2> DEFINE new == [r EXCEPT !.draft = draft]
  <2> HIDE DEF r
  <2>1. /\ new \in PageRecord /\ new.snap = r.snap /\ new.coming = r.coming
        /\ new.pending = r.pending
    BY <1>1 DEF PageRecord
  <2>2. page' = [page EXCEPT ![g] = new]
    BY <1>6
  <2> HIDE DEF new
  <2>3. PageOK(new, agent)
    BY <1>1, <2>1 DEF PageOK
  <2> QED BY <1>3, <2>2, <2>3, OnePageChanged
<1>7. CASE Types(g)
  <2>1. PICK terms \in Typed(r.draft.terms) : page' = [page EXCEPT ![g].draft.terms = terms]
    BY <1>7 DEF Types
  <2>2. r.draft \in [a : Agents \cup {0}, terms : AgentTerms]
    BY <1>1 DEF PageRecord
  <2>3. terms \in AgentTerms
    BY <2>2, TypedAreTerms
  <2> DEFINE draft == [r.draft EXCEPT !.terms = terms]
  <2>4. draft \in [a : Agents \cup {0}, terms : AgentTerms]
    BY <2>2, <2>3
  <2>5. page' = [page EXCEPT ![g] = [r EXCEPT !.draft = draft]]
    BY <1>1, <2>1
  <2> HIDE DEF draft, r
  <2> QED BY <1>2, <1>6, <2>4, <2>5
<1>8. ASSUME NEW a \in Agents, EditDraft(g, a) PROVE PagesInv'
  <2> DEFINE draft == [a |-> a, terms |-> AgentShown(g, a).terms]
  <2>1. AgentShown(g, a) \in AgentRecord
    BY <1>1 DEF AgentShown, PageRecord, Snapshots
  <2>2. draft \in [a : Agents \cup {0}, terms : AgentTerms]
    BY <2>1 DEF AgentRecord
  <2>3. page' = [page EXCEPT ![g] = [r EXCEPT !.draft = draft]]
    BY <1>1, <1>8 DEF EditDraft
  <2> HIDE DEF draft, r
  <2> QED BY <1>6, <2>2, <2>3
<1>9. CASE Renders(g)
  <2> DEFINE new == [r EXCEPT !.rendered = now]
  <2>1. page' = [page EXCEPT ![g] = new]
    BY <1>1, <1>9 DEF Renders
  <2> HIDE DEF r
  <2>2. /\ new \in PageRecord /\ new.snap = r.snap /\ new.coming = r.coming
        /\ new.pending = r.pending
    BY <1>1 DEF PageRecord, TypeOK
  <2> HIDE DEF new
  <2>3. PageOK(new, agent)
    BY <1>1, <2>2 DEF PageOK
  <2> QED BY <1>2, <1>3, <2>1, <2>3, OnePageChanged
<1> QED BY <1>2, <1>4, <1>5, <1>7, <1>8, <1>9
-----------------------------------------------------------------------------
(* Clicks *)

TraderOps == {"openPosition", "cancelPosition", "claimDefault"}

\* What a click may be: a call, of a trader's unless the page is an operator's, and a
\* position only of an agent shown as active.
ClickOK(g, i) ==
  /\ i \in Calls
  /\ i.op = "openPosition" => AgentShown(g, AgentOf(i.p)).status = "Active"
  /\ g \notin OperatorPages => i.op \in TraderOps

\* The amounts, keys and terms that the forms offer are of the right kind.
LEMMA ChoicesTyped ==
  /\ \A key \in ExecutorKeys : key \in Wallets
  /\ \A amount \in Amounts : amount \in Nat
  /\ \A returned \in Returns : returned \in Nat
  /\ \A terms \in Terms : terms \in AgentTerms
BY ProgramAssumption DEF ProgramAssumption

\* Every button sends such a click.
LEMMA ClicksAreCalls ==
  ASSUME TypeOK, PagesInv, NEW g \in Pages, OperatorClicks(g) \/ TraderClicks(g)
  PROVE  \/ Types(g) \/ \E a \in Agents : EditDraft(g, a)
         \/ \E i : ClickOK(g, i) /\ Clicks(g, i)
<1>1. page[g] \in PageRecord
  BY DEF PagesInv
<1>0. ASSUME NEW i, Click(g, i) PROVE Clicks(g, i)
  BY <1>0 DEF Click, Clicks
<1>13. {} \in SUBSET Nat /\ Balance(g) \in SUBSET Nat
  BY ConsoleAssumption DEF ConsoleAssumption, TypeOK, Balance
<1>2. CASE CreateDraft(g)
  <2>1. PICK a \in FreeId(g), terms \in Terms :
          Click(g, [op |-> "createAgent", a |-> a, terms |-> terms])
    BY <1>2 DEF CreateDraft
  <2>2. a \in Agents /\ terms \in AgentTerms /\ g \in OperatorPages
    BY <1>2, ChoicesTyped DEF FreeId, CreateDraft
  <2>3. ClickOK(g, [op |-> "createAgent", a |-> a, terms |-> terms])
    BY <2>2 DEF ClickOK, Calls
  <2> QED BY <1>0, <2>1, <2>3
<1>3. ASSUME NEW a \in Agents, SaveDraft(g, a)
      PROVE  \E i : ClickOK(g, i) /\ Clicks(g, i)
  <2> DEFINE i == [op |-> "updateAgent", a |-> a, terms |-> page[g].draft.terms]
  <2>1. page[g].draft.terms \in AgentTerms /\ g \in OperatorPages
    BY <1>1, <1>3 DEF PageRecord, SaveDraft, Editing, Mine
  <2>2. ClickOK(g, i)
    BY <2>1 DEF ClickOK, Calls
  <2>3. Click(g, i)
    BY <1>3 DEF SaveDraft
  <2> HIDE DEF i
  <2> QED BY <1>0, <2>2, <2>3
<1>4. ASSUME NEW a \in Agents, Publish(g, a)
      PROVE  \E i : ClickOK(g, i) /\ Clicks(g, i)
  <2> DEFINE i == [op |-> "publishAgent", a |-> a]
  <2>1. g \in OperatorPages
    BY <1>4 DEF Publish, Editing, Mine
  <2>2. ClickOK(g, i)
    BY <2>1 DEF ClickOK, Calls
  <2>3. Click(g, i)
    BY <1>4 DEF Publish
  <2> HIDE DEF i
  <2> QED BY <1>0, <2>2, <2>3
<1>5. ASSUME NEW a \in Agents, Bind(g, a)
      PROVE  \E i : ClickOK(g, i) /\ Clicks(g, i)
  <2>1. PICK key \in ExecutorKeys : Click(g, [op |-> "setExecutor", a |-> a, key |-> key])
    BY <1>5 DEF Bind
  <2>2. key \in Wallets /\ g \in OperatorPages
    BY <1>5, ChoicesTyped DEF Bind, Mine
  <2>3. ClickOK(g, [op |-> "setExecutor", a |-> a, key |-> key])
    BY <2>2 DEF ClickOK, Calls
  <2> QED BY <1>0, <2>1, <2>3
<1>6. ASSUME NEW a \in Agents, PauseOrResume(g, a)
      PROVE  \E i : ClickOK(g, i) /\ Clicks(g, i)
  <2> DEFINE accepting == AgentShown(g, a).status # "Active"
  <2>1. Click(g, [op |-> "setAccepting", a |-> a, accepting |-> accepting])
    BY <1>6 DEF PauseOrResume
  <2>2. accepting \in BOOLEAN /\ g \in OperatorPages
    BY <1>6 DEF PauseOrResume, Mine
  <2> HIDE DEF accepting
  <2>3. ClickOK(g, [op |-> "setAccepting", a |-> a, accepting |-> accepting])
    BY <2>2 DEF ClickOK, Calls
  <2> QED BY <1>0, <2>1, <2>3
<1>7. ASSUME NEW a \in Agents, Deposit(g, a) \/ Withdraw(g, a)
      PROVE  \E i : ClickOK(g, i) /\ Clicks(g, i)
  <2>1. PICK amount \in Amounts, op \in {"depositCollateral", "withdrawCollateral"} :
          Clicks(g, [op |-> op, a |-> a, amount |-> amount])
    BY <1>7, <1>0, <1>13 DEF Deposit, Withdraw, Clicks
  <2>2. amount \in Nat /\ g \in OperatorPages
    BY <1>7, ChoicesTyped DEF Deposit, Withdraw, Mine
  <2>3. ClickOK(g, [op |-> op, a |-> a, amount |-> amount])
    BY <2>2 DEF ClickOK, Calls
  <2> QED BY <1>0, <2>1, <2>3
<1>8. ASSUME NEW p \in Positions, NEW op \in {"drawFunds", "decline", "cancelPosition",
                                              "claimDefault"},
             g \in OperatorPages \/ op \in TraderOps
      PROVE  ClickOK(g, [op |-> op, p |-> p])
  BY <1>8 DEF ClickOK, Calls, TraderOps
<1>9. ASSUME NEW p \in Positions, Draw(g, p) \/ Decline(g, p)
      PROVE  \E i : ClickOK(g, i) /\ Clicks(g, i)
  <2>1. PICK op \in {"drawFunds", "decline"} : Click(g, [op |-> op, p |-> p])
    BY <1>9 DEF Draw, Decline
  <2>2. g \in OperatorPages
    BY <1>9 DEF Draw, Decline, Mine
  <2> QED BY <1>0, <1>8, <2>1, <2>2
<1>10. ASSUME NEW p \in Positions, Settle(g, p)
       PROVE  \E i : ClickOK(g, i) /\ Clicks(g, i)
  <2>1. PICK returned \in Returns :
          Click(g, [op |-> "settlePosition", p |-> p, returned |-> returned])
    BY <1>10 DEF Settle
  <2>2. returned \in Nat /\ g \in OperatorPages
    BY <1>10, ChoicesTyped DEF Settle, Mine
  <2>3. ClickOK(g, [op |-> "settlePosition", p |-> p, returned |-> returned])
    BY <2>2 DEF ClickOK, Calls
  <2> QED BY <1>0, <2>1, <2>3
<1>11. ASSUME NEW p \in Positions, Allocate(g, p)
       PROVE  \E i : ClickOK(g, i) /\ Clicks(g, i)
  <2> DEFINE terms == AgentShown(g, AgentOf(p)).terms
  <2>1. PICK amount \in Amounts, duration \in DurationsFor(terms) :
          Clicks(g, [op |-> "openPosition", p |-> p, amount |-> amount, duration |-> duration])
    BY <1>11, <1>13 DEF Allocate, Clicks
  <2>2. AgentShown(g, AgentOf(p)) \in AgentRecord
    BY <1>1, PositionKeys DEF AgentShown, PageRecord, Snapshots
  <2>3. terms.min_duration_secs \in Nat /\ terms.max_duration_secs \in Nat
    BY <2>2 DEF AgentRecord, AgentTerms
  <2>4. duration \in Nat
    <3>1. Presets \subseteq Nat
      BY ConsoleAssumption DEF ConsoleAssumption
    <3> HIDE DEF terms
    <3> QED BY <2>1, <2>3, <3>1 DEF DurationsFor
  <2>5. amount \in Nat /\ AgentShown(g, AgentOf(p)).status = "Active"
    BY <1>11, ChoicesTyped DEF Allocate
  <2>6. ClickOK(g, [op |-> "openPosition", p |-> p, amount |-> amount,
                    duration |-> duration])
    BY <2>4, <2>5 DEF ClickOK, Calls, TraderOps
  <2> QED BY <2>1, <2>6
<1>12. ASSUME NEW p \in Positions, Cancel(g, p) \/ Claim(g, p)
       PROVE  \E i : ClickOK(g, i) /\ Clicks(g, i)
  <2>1. PICK op \in {"cancelPosition", "claimDefault"} : Click(g, [op |-> op, p |-> p])
    BY <1>12 DEF Cancel, Claim
  <2> QED BY <1>0, <1>8, <2>1 DEF TraderOps
<1> QED BY <1>2, <1>3, <1>4, <1>5, <1>6, <1>7, <1>9, <1>10, <1>11, <1>12
        DEF OperatorClicks, TraderClicks

\* Where clicks on the pages of traders come from.
TradersOnlyTrade ==
  \A g \in Pages \ OperatorPages : \A c \in page[g].pending : c.call.op \in TraderOps

\* A step of a page keeps pages sound and accounts typed; it changes accounts only where
\* a click lands.
LEMMA PageSteps ==
  ASSUME TypeOK, PagesInv, NEW g \in Pages, PageNext(g)
  PROVE  /\ TypeOK' /\ PagesInv' /\ AgentsMoveOn
         /\ UNCHANGED vars \/ \E c \in page[g].pending : Lands(g, c)
<1>1. ASSUME UNCHANGED vars PROVE TypeOK' /\ AgentsMoveOn
  BY <1>1, NothingMoves DEF TypeOK, vars
<1>2. CASE Reads(g) \/ Shows(g) \/ Renders(g) \/ Types(g) \/ \E a \in Agents : EditDraft(g, a)
  BY <1>1, <1>2, LoadingKeepsPages
<1>3. ASSUME NEW i, ClickOK(g, i), Clicks(g, i)
      PROVE  PagesInv' /\ UNCHANGED vars
  BY <1>3, ClickKeepsPages DEF ClickOK
<1>4. CASE OperatorClicks(g) \/ TraderClicks(g)
  BY <1>1, <1>2, <1>3, <1>4, ClicksAreCalls
<1>5. ASSUME NEW c \in page[g].pending, Lands(g, c)
      PROVE  TypeOK' /\ PagesInv' /\ AgentsMoveOn
  <2>1. c.call \in Calls /\ WalletAt[g] \in Wallets
    BY ConsoleAssumption DEF ConsoleAssumption, PagesInv, PageRecord, Clicked
  <2>2. Executes(c.call, WalletAt[g]) /\ Ends(g, c)
    BY <1>5 DEF Lands
  <2>3. TypeOK' /\ AgentsMoveOn
    BY <2>1, <2>2, CallsTyped
  <2> QED BY <2>2, <2>3, EndKeepsPages
<1>6. ASSUME NEW c \in page[g].pending, Rejected(g, c) \/ Dropped(g, c)
      PROVE  PagesInv' /\ UNCHANGED vars
  <2>1. UNCHANGED vars /\ Ends(g, c)
    BY <1>6 DEF Rejected, Dropped
  <2> QED BY <2>1, NothingMoves, EndKeepsPages
<1> QED BY <1>1, <1>2, <1>4, <1>5, <1>6 DEF PageNext

\* On the pages of traders there are only clicks of traders.
LEMMA PagesKeepTrading ==
  ASSUME TypeOK, PagesInv, TradersOnlyTrade, NEW g \in Pages, PageNext(g)
  PROVE  TradersOnlyTrade'
<1>1. ASSUME NEW new, page' = [page EXCEPT ![g] = new],
             \A c \in new.pending : \/ c \in page[g].pending
                                    \/ g \notin OperatorPages => c.call.op \in TraderOps
      PROVE  TradersOnlyTrade'
  <2> SUFFICES ASSUME NEW h \in Pages \ OperatorPages, NEW c \in page'[h].pending
               PROVE  c.call.op \in TraderOps
    BY DEF TradersOnlyTrade
  <2>1. page'[h] = IF h = g THEN new ELSE page[h]
    BY <1>1 DEF PagesInv
  <2> QED BY <1>1, <2>1 DEF TradersOnlyTrade
<1>2. page[g] \in PageRecord
  BY DEF PagesInv
<1>3. CASE Reads(g) \/ Shows(g) \/ Renders(g) \/ Types(g) \/ \E a \in Agents : EditDraft(g, a)
  <2>1. \E new : page' = [page EXCEPT ![g] = new] /\ new.pending = page[g].pending
    BY <1>2, <1>3 DEF Reads, Shows, Renders, Types, EditDraft, PagesInv, PageRecord
  <2> QED BY <1>1, <2>1
<1>4. ASSUME NEW i, ClickOK(g, i), Clicks(g, i) PROVE TradersOnlyTrade'
  <2>4. PICK balance \in SUBSET Nat : ClickKnowing(g, i, balance)
    BY <1>4 DEF Clicks
  <2> DEFINE c == [call |-> i, saw |-> page[g].snap, at |-> page[g].rendered,
                   had |-> balance]
             new == [page[g] EXCEPT !.pending = @ \cup {c}, !.rendered = now]
  <2>1. page' = [page EXCEPT ![g] = new]
    BY <1>2, <2>4 DEF ClickKnowing, PagesInv, PageRecord
  <2>2. c.call = i
    OBVIOUS
  <2> HIDE DEF c
  <2>3. new.pending = page[g].pending \cup {c}
    BY <1>2 DEF PageRecord
  <2> HIDE DEF new
  <2> QED BY <1>1, <1>4, <2>1, <2>2, <2>3 DEF ClickOK
<1>5. CASE OperatorClicks(g) \/ TraderClicks(g)
  BY <1>3, <1>4, <1>5, ClicksAreCalls
<1>6. ASSUME NEW c \in page[g].pending, Ends(g, c) PROVE TradersOnlyTrade'
  <2> DEFINE new == [page[g] EXCEPT !.pending = @ \ {c}, !.rendered = now]
  <2>1. page' = [page EXCEPT ![g] = new]
    BY <1>2, <1>6 DEF Ends, PagesInv, PageRecord
  <2>2. new.pending \subseteq page[g].pending
    BY <1>2 DEF PageRecord
  <2> HIDE DEF new
  <2> QED BY <1>1, <2>1, <2>2
<1>7. \A c \in page[g].pending : Lands(g, c) \/ Rejected(g, c) \/ Dropped(g, c) => Ends(g, c)
  BY DEF Lands, Rejected, Dropped
<1> QED BY <1>3, <1>5, <1>6, <1>7 DEF PageNext

\* The clock, and the runner that shares the trading key.
LEMMA OthersSteps ==
  ASSUME TypeOK, PagesInv, Others
  PROVE  /\ TypeOK' /\ PagesInv' /\ AgentsMoveOn
         /\ \A a \in Agents : KeepsAgent(agent[a], agent'[a])
<1>1. page' = page
  BY DEF Others
<1>2. ASSUME NEW key, NEW p \in Positions, NEW returned,
             DrawFunds(key, p) \/ SettlePosition(key, p, returned)
      PROVE  key \in Wallets
  <2>1. CanExecute(AgentOf(p), key) /\ AgentOf(p) \in Agents
    BY <1>2, PositionKeys DEF DrawFunds, SettlePosition
  <2>2. agent[AgentOf(p)].executor \in Wallets
    BY <2>1 DEF TypeOK, AgentRecord
  <2> QED BY <2>1, <2>2, PositionKeys DEF CanExecute
<1>3. ASSUME NEW p \in Positions, NEW returned \in Nat,
             DrawFunds(RUNNER, p) \/ SettlePosition(RUNNER, p, returned)
      PROVE  TypeOK' /\ \A a \in Agents : KeepsAgent(agent[a], agent'[a])
  <2>1. RUNNER \in Wallets /\ 0 \in Nat
    BY <1>2, <1>3
  <2> QED BY <1>3, <2>1, DrawTypeOK, SettleTypeOK, PositionCallsKeepAgents
<1>4. CASE Tick
  <2>1. TypeOK'
    BY <1>4 DEF Tick, TypeOK
  <2>2. agent' = agent /\ \A a \in Agents : agent[a].total_collateral \in Nat
    BY <1>4 DEF Tick, TypeOK, AgentRecord
  <2>3. \A a \in Agents : KeepsAgent(agent[a], agent'[a])
    BY <2>2, SMT DEF KeepsAgent
  <2> QED BY <1>1, <2>1, <2>3, KeptMovesOn, NoPageChanged
<1>5. CASE ~Tick
  <2>1. PICK p \in Positions, returned \in Nat :
          DrawFunds(RUNNER, p) \/ SettlePosition(RUNNER, p, returned)
    <3>1. 0 \in Nat
      OBVIOUS
    <3> QED BY <1>5, <3>1, ChoicesTyped DEF Others
  <2>2. TypeOK' /\ \A a \in Agents : KeepsAgent(agent[a], agent'[a])
    BY <1>3, <2>1
  <2> QED BY <1>1, <2>2, KeptMovesOn, NoPageChanged
<1> QED BY <1>4, <1>5
-----------------------------------------------------------------------------
(* Scripts *)

\* What a script may send.
Sendings == Calls \cup [op : {"transfer"}, to : Wallets, amount : Nat]

ScriptRecord ==
  [at : Nat, runs : 0..MAX_RUNS, acc : AgentRecord, need : Nat, sent : SUBSET Sendings,
   late : SUBSET Sendings, before : AgentRecord, had : Nat,
   failed : SUBSET (Checked \cup Refusals)]

ScriptTyped ==
  /\ script \in ScriptRecord /\ tool \in Tools
  /\ script.at # 0 => script.runs >= 1
  /\ script.sent # {} => script.at # 0

\* The invariant of everything that uses the program.
ToolsInv == TypeOK /\ PagesInv /\ TradersOnlyTrade /\ ScriptTyped

\* The agent of the scripts, its operator and the wallets.
LEMMA ScriptKeys ==
  /\ a1 \in Agents /\ OperatorOf[a1] \in Wallets
  /\ FUNDER \in Wallets /\ SCRIPT_KEY \in Wallets
  /\ SCRIPT_TRADER \in Wallets /\ SCRIPT_TRADER \in Traders
  /\ BOND \in Nat /\ SPARE \in Nat /\ GAS \in Nat /\ PRINCIPAL \in Nat /\ BAD_RETURN \in Nat
  /\ MAX_RUNS \in Nat
  /\ SCRIPT_TERMS \in AgentTerms
  /\ SHORT_DEADLINE \in Nat /\ LONG_DEADLINE \in Nat
<1>1. SCRIPT_TERMS.min_duration_secs \in Nat /\ SCRIPT_TERMS.max_duration_secs \in Nat
  BY ToolsAssumption DEF ToolsAssumption, AgentTerms
<1>2. \A d \in SCRIPT_TERMS.min_duration_secs..SCRIPT_TERMS.max_duration_secs : d \in Nat
  BY <1>1
<1>3. a1 \in Agents
  BY ToolsAssumption DEF ToolsAssumption, a1
<1> QED BY <1>2, <1>3, ToolsAssumption, ProgramAssumption, OperatorKey
        DEF ToolsAssumption, ProgramAssumption

\* The positions of a run that has begun.
LEMMA ScriptPositions ==
  ASSUME ScriptTyped, script.at # 0
  PROVE  PosA \in Positions /\ PosB \in Positions
<1>1. script.runs \in 1..MAX_RUNS
  BY ScriptKeys DEF ScriptTyped, ScriptRecord
<1>2. 2 * script.runs - 1 \in 1..(2 * MAX_RUNS) /\ 2 * script.runs \in 1..(2 * MAX_RUNS)
  BY <1>1, ScriptKeys
<1>3. 1..(2 * MAX_RUNS) \subseteq Nonces
  BY ToolsAssumption DEF ToolsAssumption
<1> QED BY <1>2, <1>3, ScriptKeys DEF PosA, PosB, Positions

\* What a step wants to send can be sent.
LEMMA WantsAreSendings ==
  ASSUME TypeOK, ScriptTyped
  PROVE  Wants \subseteq Sendings
<1> SUFFICES ASSUME NEW i \in Wants PROVE i \in Sendings
  OBVIOUS
<1>1. script.need \in Nat
  BY DEF ScriptTyped, ScriptRecord
<1>2. ASSUME NEW to \in Wallets, NEW target \in Nat, i \in TopUp(to, target)
      PROVE  i \in Sendings
  <2>1. wallet[to] \in Nat
    BY DEF TypeOK
  <2>2. wallet[to] < target
        /\ i = [op |-> "transfer", to |-> to, amount |-> target - wallet[to]]
    BY <1>2 DEF TopUp, When
  <2>3. target - wallet[to] \in Nat
    BY <2>1, <2>2
  <2> QED BY <2>2, <2>3 DEF Sendings
<1>3. Step # ""
  BY DEF Wants
<1>4. PosA \in Positions /\ PosB \in Positions
  BY <1>3, ScriptPositions DEF Step
<1>5. CASE Step \in {"fund operator", "fund key", "fund trader"}
  <2>1. \E to \in Wallets, target \in Nat : i \in TopUp(to, target)
    <3>1. script.need + SPARE \in Nat /\ 2 * PRINCIPAL + SPARE \in Nat /\ GAS \in Nat
      BY <1>1, ScriptKeys
    <3>2. \/ i \in TopUp(OperatorOf[a1], script.need + SPARE) \/ i \in TopUp(SCRIPT_KEY, GAS)
          \/ i \in TopUp(SCRIPT_TRADER, 2 * PRINCIPAL + SPARE)
      BY <1>5 DEF Wants
    <3> QED BY <3>1, <3>2, ScriptKeys
  <2> QED BY <1>2, <2>1
<1>6. CASE Step \in {"create", "deposit", "bind", "publish", "resume", "pause"}
  <2>1. \/ i = [op |-> "createAgent", a |-> a1, terms |-> SCRIPT_TERMS]
        \/ i = [op |-> "depositCollateral", a |-> a1, amount |-> script.need]
        \/ i = [op |-> "setExecutor", a |-> a1, key |-> SCRIPT_KEY]
        \/ i = [op |-> "publishAgent", a |-> a1]
        \/ i = [op |-> "setAccepting", a |-> a1, accepting |-> TRUE]
        \/ i = [op |-> "setAccepting", a |-> a1, accepting |-> FALSE]
    BY <1>6 DEF Wants, When
  <2>2. /\ [op |-> "createAgent", a |-> a1, terms |-> SCRIPT_TERMS] \in Sendings
        /\ [op |-> "depositCollateral", a |-> a1, amount |-> script.need] \in Sendings
        /\ [op |-> "setExecutor", a |-> a1, key |-> SCRIPT_KEY] \in Sendings
        /\ [op |-> "publishAgent", a |-> a1] \in Sendings
    BY <1>1, ScriptKeys DEF Sendings, Calls
  <2>3. /\ [op |-> "setAccepting", a |-> a1, accepting |-> TRUE] \in Sendings
        /\ [op |-> "setAccepting", a |-> a1, accepting |-> FALSE] \in Sendings
    BY ScriptKeys DEF Sendings, Calls
  <2> QED BY <2>1, <2>2, <2>3
<1>7. CASE Step \in {"open A", "open B", "draw A", "draw B", "settle B", "early claim",
                     "claim A", "late settle"}
  <2>1. \/ i = [op |-> "openPosition", p |-> PosA, amount |-> PRINCIPAL,
                duration |-> SHORT_DEADLINE]
        \/ i = [op |-> "openPosition", p |-> PosB, amount |-> PRINCIPAL,
                duration |-> LONG_DEADLINE]
        \/ i = [op |-> "drawFunds", p |-> PosA] \/ i = [op |-> "drawFunds", p |-> PosB]
        \/ i = [op |-> "settlePosition", p |-> PosB, returned |-> BAD_RETURN]
        \/ i = [op |-> "settlePosition", p |-> PosA, returned |-> PRINCIPAL]
        \/ i = [op |-> "claimDefault", p |-> PosA]
    BY <1>7 DEF Wants
  <2> QED BY <1>4, <2>1, ScriptKeys DEF Sendings, Calls
<1> QED BY <1>5, <1>6, <1>7 DEF Wants

\* What lands keeps the accounts typed, and what is published published.
LEMMA ExecutedTyped ==
  ASSUME TypeOK, NEW i \in Sendings, Executed(i)
  PROVE  TypeOK' /\ AgentsMoveOn
<1>1. CASE i.op = "transfer"
  <2>1. i.to \in Wallets /\ i.amount \in Nat
    BY <1>1 DEF Sendings, Calls
  <2>2. Transfer(i)
    BY <1>1 DEF Executed
  <2>3. Debit(wallet, FUNDER, i.amount) \in [Wallets -> Nat]
    BY <2>1, <2>2, ScriptKeys, CreditTyped DEF Transfer, TypeOK
  <2>4. wallet' \in [Wallets -> Nat]
    BY <2>1, <2>2, <2>3, CreditTyped DEF Transfer
  <2>5. AgentsMoveOn
    BY <2>2 DEF Transfer, AgentsMoveOn
  <2> QED BY <2>2, <2>4, <2>5 DEF Transfer, TypeOK
<1>2. CASE i.op # "transfer"
  <2>1. i \in Calls /\ Executes(i, SCRIPT_KEY)
    BY <1>2 DEF Sendings, Executed
  <2> QED BY <2>1, ScriptKeys, CallsTyped
<1> QED BY <1>1, <1>2

\* A step of a script keeps it typed, and the accounts.
LEMMA ScriptSteps ==
  ASSUME TypeOK, ScriptTyped, ScriptStep
  PROVE  /\ TypeOK' /\ AgentsMoveOn /\ script' \in ScriptRecord
         /\ script'.at # 0 => script'.runs >= 1
         /\ script'.sent # {} => script'.at # 0
         /\ \/ UNCHANGED vars
            \/ \E i \in script.sent \cup script.late : Executed(i)
<1>1. /\ script \in ScriptRecord /\ script.at \in Nat /\ script.runs \in 0..MAX_RUNS
      /\ script.sent \subseteq Sendings /\ script.late \subseteq Sendings
      /\ script.failed \subseteq Checked \cup Refusals
      /\ script.acc \in AgentRecord /\ script.before \in AgentRecord
      /\ script.at # 0 => script.runs >= 1
      /\ script.sent # {} => script.at # 0
      /\ script.at + 1 \in Nat /\ script.at + 1 # 0
  BY DEF ScriptTyped, ScriptRecord
<1>2. /\ agent[a1] \in AgentRecord /\ agent[a1].total_collateral \in Nat
      /\ \A w \in Wallets : wallet[w] \in Nat
  BY ScriptKeys DEF TypeOK, AgentRecord
<1>3. Step # "" => script.at # 0
  BY DEF Step
<1>4. ASSUME UNCHANGED vars PROVE TypeOK' /\ AgentsMoveOn
  BY <1>4, NothingMoves DEF TypeOK, vars
<1>5. ASSUME NEW i \in script.sent \cup script.late, Executed(i)
      PROVE  TypeOK' /\ AgentsMoveOn
  BY <1>1, <1>5, ExecutedTyped
<1>6. CASE Starts
  <2>1. script' = [script EXCEPT !.at = 1, !.runs = script.runs + 1, !.need = BOND,
                                 !.failed = {}]
    BY <1>1, <1>6 DEF Starts, ScriptRecord
  <2>2. script.runs + 1 \in 0..MAX_RUNS /\ script.runs + 1 >= 1 /\ BOND \in Nat
    BY <1>1, <1>6, ScriptKeys DEF Starts
  <2>3. /\ script' \in ScriptRecord /\ script'.runs = script.runs + 1
        /\ script'.at = 1
    BY <1>1, <2>1, <2>2 DEF ScriptRecord
  <2> QED BY <1>4, <1>6, <2>2, <2>3 DEF Starts
<1>7. CASE Fetches
  <2> DEFINE need == Max({0, BOND - agent[a1].total_collateral})
  <2>1. need \in Nat
    <3>1. 0 \in Int /\ BOND - agent[a1].total_collateral \in Int
      BY <1>2, ScriptKeys
    <3> QED BY <3>1, MaxOfTwo
  <2>2. script' = [script EXCEPT !.at = script.at + 1, !.acc = agent[a1], !.need = need]
    BY <1>1, <1>7 DEF Fetches, ScriptRecord
  <2> HIDE DEF need
  <2>3. script' \in ScriptRecord /\ script'.runs = script.runs /\ script'.at # 0
    BY <1>1, <1>2, <2>1, <2>2 DEF ScriptRecord
  <2> QED BY <1>1, <1>3, <1>4, <1>7, <2>3 DEF Fetches
<1>8. CASE Sends
  <2>1. Wants \subseteq Sendings
    BY WantsAreSendings
  <2>2. script' \in ScriptRecord /\ script'.runs = script.runs /\ script'.at = script.at
    BY <1>1, <1>8, <2>1 DEF ScriptRecord, Sends
  <2>3. script.at # 0
    BY <1>3, <1>8 DEF Sends, Wants
  <2> QED BY <1>1, <1>4, <1>8, <2>2, <2>3 DEF Sends
<1>9. CASE Skips
  <2>1. script' = [script EXCEPT !.at = script.at + 1]
    BY <1>1, <1>9 DEF Skips, ScriptRecord
  <2>2. script' \in ScriptRecord /\ script'.runs = script.runs /\ script'.at # 0
    BY <1>1, <2>1 DEF ScriptRecord
  <2> QED BY <1>1, <1>3, <1>4, <1>9, <2>2 DEF Skips, Running
<1>10. CASE SentLands
  <2>1. PICK i \in script.sent : Executed(i)
    BY <1>10 DEF SentLands
  <2>2. script' = [script EXCEPT !.at = script.at + 1, !.sent = {}]
    BY <1>1, <1>10 DEF SentLands, ScriptRecord
  <2>3. script' \in ScriptRecord /\ script'.runs = script.runs /\ script'.sent = {}
    BY <1>1, <2>2 DEF ScriptRecord
  <2>4. script.runs >= 1
    BY <1>1, <2>1
  <2> QED BY <1>5, <2>1, <2>3, <2>4
<1>11. CASE Stops
  <2>1. PICK late \in {script.late, script.late \cup script.sent} :
          script' = [script EXCEPT !.at = 0, !.sent = {}, !.late = late]
    BY <1>11 DEF Stops
  <2>2. script' \in ScriptRecord /\ script'.at = 0 /\ script'.sent = {}
    BY <1>1, <2>1 DEF ScriptRecord
  <2> QED BY <1>4, <1>11, <2>2 DEF Stops
<1>12. CASE LateLands
  <2>1. PICK i \in script.late : Executed(i) /\ script' = [script EXCEPT !.late = @ \ {i}]
    BY <1>12 DEF LateLands
  <2>2. script' \in ScriptRecord /\ script'.at = script.at /\ script'.runs = script.runs
        /\ script'.sent = script.sent
    BY <1>1, <2>1 DEF ScriptRecord
  <2> QED BY <1>1, <1>5, <2>1, <2>2
<1>13. CASE Remembers
  <2> DEFINE before == IF Step = "before" THEN agent[a1] ELSE script.before
             had == wallet[IF Step = "before draw" THEN SCRIPT_KEY ELSE SCRIPT_TRADER]
  <2>1. before \in AgentRecord /\ had \in Nat
    BY <1>1, <1>2, ScriptKeys
  <2>2. script' = [script EXCEPT !.at = script.at + 1, !.before = before, !.had = had]
    BY <1>1, <1>13 DEF Remembers, ScriptRecord
  <2> HIDE DEF before, had
  <2>3. script' \in ScriptRecord /\ script'.runs = script.runs /\ script'.at # 0
    BY <1>1, <2>1, <2>2 DEF ScriptRecord
  <2> QED BY <1>1, <1>3, <1>4, <1>13, <2>3 DEF Remembers, Remembered
<1>14. ASSUME Checks \/ IsRefused
       PROVE  /\ script' \in ScriptRecord /\ script'.runs = script.runs /\ script.runs >= 1
              /\ script'.at # 0
  <2>1. Step \in Checked \cup Refusals /\ Step # ""
    BY <1>14 DEF Checks, IsRefused, Checked, Refusals
  <2>2. PICK sent \in {script.sent, {}}, failed \in {script.failed, script.failed \cup {Step}} :
          script' = [script EXCEPT !.at = script.at + 1, !.sent = sent, !.failed = failed]
    <3>1. [script EXCEPT !.at = script.at + 1, !.sent = script.sent] =
          [script EXCEPT !.at = script.at + 1]
      BY <1>1 DEF ScriptRecord
    <3>2. script' \in { [script EXCEPT !.at = script.at + 1, !.failed = script.failed],
                        [script EXCEPT !.at = script.at + 1,
                                       !.failed = script.failed \cup {Step}],
                        [script EXCEPT !.at = script.at + 1, !.sent = {}],
                        [script EXCEPT !.at = script.at + 1, !.sent = {},
                                       !.failed = script.failed \cup {Step}] }
      BY <1>1, <1>14 DEF Checks, IsRefused, ScriptRecord
    <3> QED BY <1>1, <3>2 DEF ScriptRecord
  <2>3. failed \subseteq Checked \cup Refusals /\ sent \subseteq Sendings
    BY <1>1, <2>1
  <2> HIDE DEF Checked, Refusals
  <2>4. script' \in ScriptRecord /\ script'.runs = script.runs /\ script'.at # 0
    BY <1>1, <2>2, <2>3 DEF ScriptRecord
  <2> QED BY <1>1, <1>3, <2>1, <2>4
<1>15. CASE Checks
  BY <1>4, <1>14, <1>15 DEF Checks
<1>16. CASE IsRefused
  <2>1. UNCHANGED vars \/ \E i \in script.sent : Executed(i)
    BY <1>16 DEF IsRefused
  <2> QED BY <1>4, <1>5, <1>14, <1>16, <2>1
<1>17. CASE Waits
  <2>1. script' = [script EXCEPT !.at = script.at + 1]
    BY <1>1, <1>17 DEF Waits, ScriptRecord
  <2>2. script' \in ScriptRecord /\ script'.runs = script.runs /\ script'.at # 0
    BY <1>1, <2>1 DEF ScriptRecord
  <2> QED BY <1>1, <1>3, <1>4, <1>17, <2>2 DEF Waits
<1> QED BY <1>6, <1>7, <1>8, <1>9, <1>10, <1>11, <1>12, <1>13, <1>15, <1>16, <1>17
        DEF ScriptStep

\* So does a command.
LEMMA CommandSteps ==
  ASSUME TypeOK, PagesInv, Command
  PROVE  TypeOK' /\ PagesInv' /\ AgentsMoveOn
<1>1. page' = page
  BY DEF Command
<1>2. ASSUME NEW a \in Agents, AgentCommand(a) PROVE TypeOK' /\ AgentsMoveOn
  <2>1. PICK t \in AgentTerms, amount \in Nat, key \in Wallets, accepting \in BOOLEAN :
          \/ CreateAgent(a, SomeIdentity, t) \/ PublishAgent(a) \/ SetExecutor(a, key)
          \/ SetAccepting(a, accepting) \/ DepositCollateral(a, amount)
          \/ WithdrawCollateral(a, amount)
    <3>1. SomeTerms \in AgentTerms /\ 0 \in Nat /\ TRUE \in BOOLEAN /\ OperatorOf[a] \in Wallets
      BY TermsTyped, OperatorKey
    <3> QED BY <1>2, <3>1, ChoicesTyped, Zenon DEF AgentCommand
  <2>2. SomeIdentity \in Identities
    BY TermsTyped
  <2>3. TypeOK'
    BY <2>1, <2>2, OperatorCallsTyped
  <2> QED BY <2>1, <2>3, OperatorCallsMoveOn
<1>3. ASSUME NEW p \in Positions, DevCommand(p) PROVE TypeOK' /\ AgentsMoveOn
  <2>1. \A d \in MIN_POSITION_DURATION..MAX_POSITION_DURATION : d \in Nat
    BY ConstantsAssumption DEF ConstantsAssumption
  <2>2. PICK amount \in Nat, duration \in Nat :
          OpenPosition(p, amount, duration) \/ CancelPosition(p)
    <3>1. 0 \in Nat
      OBVIOUS
    <3> QED BY <1>3, <2>1, <3>1, ChoicesTyped DEF DevCommand
  <2>3. TypeOK'
    BY <2>2, OpenTypeOK, CancelTypeOK
  <2>4. PICK key : key \in Wallets
    BY PositionKeys
  <2> QED BY <2>2, <2>3, <2>4, PositionCallsKeepAgents, KeptMovesOn
<1>4. TypeOK' /\ AgentsMoveOn
  BY <1>2, <1>3 DEF Command
<1> QED BY <1>1, <1>4, NoPageChanged

\* The invariant holds at first,
LEMMA InitToolsInv == ToolsInit => ToolsInv
<1> SUFFICES ASSUME ToolsInit PROVE ToolsInv
  OBVIOUS
<1>1. TypeOK
  BY InitTypeOK DEF ToolsInit, ConsoleInit
<1>2. Snapshot \in Snapshots /\ StillTrue(Snapshot, agent)
  BY <1>1, FreshSnapshot
<1>3. NoDraft \in [a : Agents \cup {0}, terms : AgentTerms]
  BY TermsTyped DEF NoDraft
<1> DEFINE new == [snap |-> Snapshot, rendered |-> now, coming |-> NoSnapshot,
                   draft |-> NoDraft, pending |-> {}]
<1>4. page = [g \in Pages |-> new]
  BY DEF ToolsInit, ConsoleInit
<1>5. new \in PageRecord /\ new.snap = Snapshot /\ new.coming = NoSnapshot /\ new.pending = {}
  BY <1>1, <1>2, <1>3 DEF PageRecord, TypeOK
<1> HIDE DEF new
<1>6. PageOK(new, agent)
  BY <1>2, <1>5 DEF PageOK
<1>7. PagesInv /\ TradersOnlyTrade
  BY <1>4, <1>5, <1>6 DEF PagesInv, TradersOnlyTrade
<1>8. AbsentAgent(a1) \in AgentRecord
  BY ScriptKeys, AgentAtStartTyped DEF AgentAtStart
<1>9. ScriptTyped
  BY <1>8, ScriptKeys DEF ToolsInit, ScriptTyped, ScriptRecord
<1> QED BY <1>1, <1>7, <1>9 DEF ToolsInv

\* and every step keeps it.
LEMMA NextToolsInv == ToolsInv /\ [ToolsNext]_toolsVars => ToolsInv'
<1> SUFFICES ASSUME ToolsInv, [ToolsNext]_toolsVars PROVE ToolsInv'
  OBVIOUS
<1>0. TypeOK /\ PagesInv /\ TradersOnlyTrade /\ ScriptTyped
  BY DEF ToolsInv
<1>1. ASSUME page' = page PROVE TradersOnlyTrade'
  BY <1>0, <1>1 DEF TradersOnlyTrade
<1>2. ASSUME UNCHANGED <<script, tool>> PROVE ScriptTyped'
  BY <1>0, <1>2 DEF ScriptTyped
<1>3. ASSUME NEW g \in Pages, PageNext(g) PROVE TypeOK' /\ PagesInv' /\ TradersOnlyTrade'
  BY <1>0, <1>3, PageSteps, PagesKeepTrading
<1>4. ASSUME Others \/ Command PROVE TypeOK' /\ PagesInv' /\ TradersOnlyTrade'
  <2>1. page' = page
    BY <1>4 DEF Others, Command
  <2> QED BY <1>0, <1>1, <1>4, <2>1, OthersSteps, CommandSteps
<1>6. ASSUME Script, tool' = tool PROVE ToolsInv'
  <2>1. page' = page
    BY <1>6 DEF Script
  <2>2. TypeOK' /\ AgentsMoveOn /\ ScriptTyped'
    BY <1>0, <1>6, ScriptSteps DEF Script, ScriptTyped
  <2> QED BY <1>0, <1>1, <2>1, <2>2, NoPageChanged DEF ToolsInv
<1>7. CASE UNCHANGED toolsVars
  <2>1. UNCHANGED vars /\ page' = page /\ UNCHANGED <<script, tool>>
    BY <1>7 DEF toolsVars, consoleVars
  <2>2. TypeOK' /\ AgentsMoveOn
    BY <1>0, <2>1, NothingMoves DEF TypeOK, vars
  <2> QED BY <1>0, <1>1, <1>2, <2>1, <2>2, NoPageChanged DEF ToolsInv
<1>8. ASSUME UNCHANGED <<script, tool>>, \/ Others \/ Command \/ \E g \in Pages : PageNext(g)
      PROVE  ToolsInv'
  <2>1. TypeOK' /\ PagesInv' /\ TradersOnlyTrade'
    BY <1>3, <1>4, <1>8
  <2> QED BY <1>2, <1>8, <2>1 DEF ToolsInv
<1>9. CASE ToolsNext
  <2>1. CASE Script
    BY <1>6, <1>9, <2>1 DEF ToolsNext
  <2>2. CASE ~Script
    <3>1. Tick /\ UNCHANGED <<page, clicks>> => Others
      BY DEF Others
    <3>2. /\ UNCHANGED <<script, tool>>
          /\ Others \/ Command \/ \E g \in Pages : PageNext(g)
      BY <1>9, <2>2, <3>1 DEF ToolsNext, ConsoleNext, Elsewhere, Alone
    <3> QED BY <1>8, <3>2
  <2> QED BY <2>1, <2>2
<1> QED BY <1>7, <1>9

LEMMA ToolsInvariant == ToolsSpec => []ToolsInv
BY InitToolsInv, NextToolsInv, PTL DEF ToolsSpec

\* However old the page, and whatever the operator did since, by whatever tool, a trader
\* who allocates gets the fee, the allowed drawdown and the share of the bond that the
\* page showed (open_position, update_agent; app/agents/[agent]/page.tsx).
THEOREM TermsAreAsShown == ToolsSpec => TermsShownAreTermsGiven
<1>1. ASSUME ToolsInv, NEW g \in Pages, NEW i \in page[g].pending, Lands(g, i),
             i.call.op = "openPosition"
      PROVE  LET terms == i.saw.agent[AgentOf(i.call.p)].terms
                 pos   == position'[i.call.p]
             IN  /\ pos.fee_bps = terms.fee_bps /\ pos.max_drawdown_bps = terms.max_drawdown_bps
                 /\ pos.locked_collateral
                      = RequiredCollateral(i.call.amount, terms.collateral_ratio_bps)
  <2> DEFINE p == i.call.p
             terms == i.saw.agent[AgentOf(p)].terms
  <2>1. i \in Clicked /\ StillTrue(i.saw, agent) /\ AskedOfActive(i)
    BY <1>1 DEF ToolsInv, PagesInv, PageOK, PageRecord
  <2>2. p \in Positions
    BY <1>1, <2>1 DEF Clicked, Calls
  <2>3. agent[AgentOf(p)].terms = terms
    BY <1>1, <2>1, <2>2, PositionKeys DEF AskedOfActive, StillTrue
  <2>4. OpenPosition(p, i.call.amount, i.call.duration)
    BY <1>1 DEF Lands, Executes
  <2>5. position'[p] = NewPosition(i.call.amount,
                         RequiredCollateral(i.call.amount, terms.collateral_ratio_bps),
                         terms, i.call.duration)
    BY <1>1, <2>2, <2>3, <2>4 DEF OpenPosition, ToolsInv, TypeOK
  <2> QED BY <2>5 DEF NewPosition
<1>2. ToolsInv => [ \A g \in Pages : \A i \in page[g].pending :
        Lands(g, i) /\ i.call.op = "openPosition" =>
          LET terms == i.saw.agent[AgentOf(i.call.p)].terms
              pos   == position'[i.call.p]
          IN  /\ pos.fee_bps = terms.fee_bps /\ pos.max_drawdown_bps = terms.max_drawdown_bps
              /\ pos.locked_collateral = RequiredCollateral(i.call.amount, terms.collateral_ratio_bps)
        ]_consoleVars
  BY <1>1
<1> QED BY <1>2, ToolsInvariant, PTL DEF TermsShownAreTermsGiven
-----------------------------------------------------------------------------
(* The set-up script *)

\* What the script has under way is what its step wants.
SentOK(s) ==
  \A i \in s.sent :
    \/ s.at \in 2..3 /\ i.op = "transfer"
    \/ s.at = 4 /\ i = [op |-> "createAgent", a |-> a1, terms |-> SCRIPT_TERMS]
    \/ s.at = 5 /\ i = [op |-> "depositCollateral", a |-> a1, amount |-> s.need]
    \/ s.at = 7 /\ i = [op |-> "setExecutor", a |-> a1, key |-> SCRIPT_KEY]
    \/ s.at = 8 /\ i = [op |-> "publishAgent", a |-> a1]

\* What a script that has come this far has achieved, whatever happened to the agent since
\* it was read: what it is about to deposit fits under the bond, and completes it but for
\* slashes; what it read as done is still done.
SetupOK(ag, s) ==
  /\ s.at \in 0..9 /\ s.late = {} /\ SentOK(s)
  /\ ag.total_collateral <= BOND
  /\ ag.status = "Absent" => ag.total_collateral = 0 /\ ag.slashed_total = 0
  /\ s.at \in 2..5 => /\ s.need + ag.total_collateral <= BOND
                      /\ s.need + (ag.total_collateral + ag.slashed_total) >= BOND
  /\ s.at \in 2..4 /\ s.acc.status # "Absent" => ag.status # "Absent"
  /\ s.at >= 5 => ag.status # "Absent"
  /\ s.at >= 6 => ag.total_collateral + ag.slashed_total >= BOND
  /\ s.at >= 8 \/ (s.at = 7 /\ s.acc.executor = SCRIPT_KEY) => ag.executor = SCRIPT_KEY
  /\ s.at = 9 \/ (s.at \in 7..8 /\ s.acc.status # "Draft") => IsPublished(ag)

\* The inductive invariant of the set-up script.
SetupInv == tool = "setup" => SetupOK(agent[a1], script)

\* The steps of main().
LEMMA SetupPlan ==
  ASSUME tool = "setup", script.at \in 0..9
  PROVE  /\ script.at = 0 => Step = ""
         /\ script.at \in {1, 6} => Step = "fetch"
         /\ script.at = 2 => Step = "fund operator"
         /\ script.at = 3 => Step = "fund key"
         /\ script.at = 4 => Step = "create"
         /\ script.at = 5 => Step = "deposit"
         /\ script.at = 7 => Step = "bind"
         /\ script.at = 8 => Step = "publish"
         /\ script.at = 9 => Step = "done"
<1>1. Plan = <<"fetch", "fund operator", "fund key", "create", "deposit", "fetch", "bind",
               "publish", "done">>
  BY DEF Plan
<1>2. /\ Plan[1] = "fetch" /\ Plan[2] = "fund operator" /\ Plan[3] = "fund key"
      /\ Plan[4] = "create" /\ Plan[5] = "deposit" /\ Plan[6] = "fetch" /\ Plan[7] = "bind"
      /\ Plan[8] = "publish" /\ Plan[9] = "done"
  BY <1>1
<1>3. script.at = 0 => Step = ""
  BY DEF Step
<1>4. ASSUME NEW k \in 1..9, script.at = k PROVE Step = Plan[k]
  <2>1. script.at # 0
    BY <1>4
  <2>2. Step = Plan[script.at]
    BY <2>1, Zenon DEF Step
  <2> QED BY <1>4, <2>2, Zenon
<1>5. /\ script.at = 1 => Step = Plan[1]
      /\ script.at = 2 => Step = Plan[2]
      /\ script.at = 3 => Step = Plan[3]
      /\ script.at = 4 => Step = Plan[4]
      /\ script.at = 5 => Step = Plan[5]
      /\ script.at = 6 => Step = Plan[6]
      /\ script.at = 7 => Step = Plan[7]
      /\ script.at = 8 => Step = Plan[8]
      /\ script.at = 9 => Step = Plan[9]
  BY <1>4, SMT
<1> QED BY <1>2, <1>3, <1>5, Zenon

\* What traders and trading keys do leaves what the script achieved.
LEMMA KeptKeepsSetup ==
  ASSUME NEW ag \in AgentRecord, NEW new \in AgentRecord, NEW s \in ScriptRecord,
         SetupOK(ag, s), KeepsAgent(ag, new)
  PROVE  SetupOK(new, s)
<1>1. /\ ag.total_collateral \in Nat /\ ag.slashed_total \in Nat
      /\ new.total_collateral \in Nat /\ new.slashed_total \in Nat
      /\ s.need \in Nat /\ BOND \in Nat
  BY ScriptKeys DEF AgentRecord, ScriptRecord
<1>2. /\ new.status = ag.status /\ new.executor = ag.executor
      /\ IsPublished(new) <=> IsPublished(ag)
  BY DEF KeepsAgent, IsPublished
<1>3. /\ new.total_collateral <= ag.total_collateral
      /\ new.total_collateral + new.slashed_total = ag.total_collateral + ag.slashed_total
  BY DEF KeepsAgent
<1>4. new.total_collateral <= BOND /\ (s.need + ag.total_collateral <= BOND =>
                                         s.need + new.total_collateral <= BOND)
  BY <1>1, <1>3 DEF SetupOK
<1>5. ag.total_collateral = 0 /\ ag.slashed_total = 0 =>
        new.total_collateral = 0 /\ new.slashed_total = 0
  BY <1>1, <1>3
<1> HIDE DEF SentOK
<1> QED BY <1>2, <1>3, <1>4, <1>5 DEF SetupOK

\* A step that leaves the agent and goes on.
LEMMA PassesKeepSetup ==
  ASSUME NEW ag \in AgentRecord, NEW s \in ScriptRecord, NEW t \in ScriptRecord,
         SetupOK(ag, s), t.at = s.at + 1, t.sent = {}, t.late = s.late, t.need = s.need,
         t.acc = s.acc,
         \/ s.at \in 2..3
         \/ s.at = 4 /\ s.acc.status # "Absent"
         \/ s.at = 5 /\ s.need = 0
         \/ s.at = 7 /\ s.acc.executor = SCRIPT_KEY
         \/ s.at = 8 /\ s.acc.status # "Draft"
  PROVE  SetupOK(ag, t)
<1>1. ag.total_collateral \in Nat /\ ag.slashed_total \in Nat /\ s.at \in 0..9 /\ SentOK(t)
  BY DEF AgentRecord, SetupOK, SentOK
<1> HIDE DEF SentOK
<1> QED BY <1>1, SMTT(30) DEF SetupOK

\* Where the script is at each of its steps; of the other script's it has none.
LEMMA SetupPlace ==
  ASSUME tool = "setup", script.at \in 0..9
  PROVE  /\ Step = "fetch" => script.at \in {1, 6}
         /\ Step = "done" => script.at = 9
         /\ Step \in {"", "done"} <=> script.at \in {0, 9}
         /\ Step \notin Remembered \cup Checked \cup Refusals \cup {"wait"}
<1>1. script.at \in {0, 1, 2, 3, 4, 5, 6, 7, 8, 9}
  OBVIOUS
<1>2. CASE script.at = 0
  BY <1>2, SetupPlan DEF Remembered, Checked, Refusals
<1>3. CASE script.at \in {1, 6}
  BY <1>3, SetupPlan DEF Remembered, Checked, Refusals
<1>4. CASE script.at \in {2, 3, 4, 5}
  BY <1>4, SetupPlan DEF Remembered, Checked, Refusals
<1>5. CASE script.at \in {7, 8}
  BY <1>5, SetupPlan DEF Remembered, Checked, Refusals
<1>6. CASE script.at = 9
  BY <1>6, SetupPlan DEF Remembered, Checked, Refusals
<1> QED BY <1>1, <1>2, <1>3, <1>4, <1>5, <1>6

\* What its steps want.
LEMMA SetupWants ==
  ASSUME tool = "setup", script \in ScriptRecord, script.at \in 0..9
  PROVE  /\ \A i \in Wants :
              \/ script.at \in 2..3 /\ i.op = "transfer"
              \/ script.at = 4 /\ i = [op |-> "createAgent", a |-> a1, terms |-> SCRIPT_TERMS]
              \/ script.at = 5 /\ i = [op |-> "depositCollateral", a |-> a1,
                                       amount |-> script.need]
              \/ script.at = 7 /\ i = [op |-> "setExecutor", a |-> a1, key |-> SCRIPT_KEY]
              \/ script.at = 8 /\ i = [op |-> "publishAgent", a |-> a1]
         /\ Wants = {} => /\ script.at = 4 => script.acc.status # "Absent"
                          /\ script.at = 5 => script.need = 0
                          /\ script.at = 7 => script.acc.executor = SCRIPT_KEY
                          /\ script.at = 8 => script.acc.status # "Draft"
<1>0. script.need \in Nat
  BY DEF ScriptRecord
<1>1. script.at \in {0, 1, 2, 3, 4, 5, 6, 7, 8, 9}
  OBVIOUS
<1>2. CASE script.at \in {0, 1, 6, 9}
  <2>1. Step \in {"", "fetch", "done"}
    BY <1>2, SetupPlan
  <2>2. Wants = {}
    BY <2>1 DEF Wants
  <2> QED BY <1>2, <2>2
<1>3. CASE script.at \in {2, 3}
  <2>1. Step \in {"fund operator", "fund key"}
    BY <1>3, SetupPlan
  <2>2. \A c, i : \A w \in When(c, i) : w = i
    BY DEF When
  <2>3. \A to, target : \A i \in TopUp(to, target) : i.op = "transfer"
    <3> TAKE to, target
    <3> DEFINE i == [op |-> "transfer", to |-> to, amount |-> target - wallet[to]]
    <3>1. i.op = "transfer" /\ TopUp(to, target) = When(wallet[to] < target, i)
      BY DEF TopUp
    <3> HIDE DEF i
    <3> QED BY <2>2, <3>1
  <2>4. \E to, target : Wants = TopUp(to, target)
    BY <2>1 DEF Wants
  <2>5. \A i \in Wants : i.op = "transfer"
    BY <2>3, <2>4
  <2> QED BY <1>3, <2>5
<1>4. CASE script.at = 4
  <2>1. Wants = When(script.acc.status = "Absent",
                     [op |-> "createAgent", a |-> a1, terms |-> SCRIPT_TERMS])
    BY <1>4, SetupPlan DEF Wants
  <2>2. \A i \in Wants : i = [op |-> "createAgent", a |-> a1, terms |-> SCRIPT_TERMS]
    BY <2>1 DEF When
  <2>3. Wants = {} => script.acc.status # "Absent"
    BY <2>1 DEF When
  <2> QED BY <1>4, <2>2, <2>3
<1>5. CASE script.at = 5
  <2>1. Wants = When(script.need > 0,
                     [op |-> "depositCollateral", a |-> a1, amount |-> script.need])
    BY <1>5, SetupPlan DEF Wants
  <2>2. \A i \in Wants : i = [op |-> "depositCollateral", a |-> a1, amount |-> script.need]
    BY <2>1 DEF When
  <2>3. Wants = {} => script.need = 0
    <3>1. Wants = {} => ~(script.need > 0)
      BY <2>1, Zenon DEF When
    <3> QED BY <1>0, <3>1
  <2> QED BY <1>5, <2>2, <2>3
<1>6. CASE script.at = 7
  <2>1. Wants = When(script.acc.executor # SCRIPT_KEY,
                     [op |-> "setExecutor", a |-> a1, key |-> SCRIPT_KEY])
    BY <1>6, SetupPlan DEF Wants
  <2>2. \A i \in Wants : i = [op |-> "setExecutor", a |-> a1, key |-> SCRIPT_KEY]
    BY <2>1 DEF When
  <2>3. Wants = {} => script.acc.executor = SCRIPT_KEY
    BY <2>1 DEF When
  <2> QED BY <1>6, <2>2, <2>3
<1>7. CASE script.at = 8
  <2>1. Wants = When(script.acc.status = "Draft", [op |-> "publishAgent", a |-> a1])
    BY <1>7, SetupPlan DEF Wants
  <2>2. \A i \in Wants : i = [op |-> "publishAgent", a |-> a1]
    BY <2>1 DEF When
  <2>3. Wants = {} => script.acc.status # "Draft"
    BY <2>1 DEF When
  <2> QED BY <1>7, <2>2, <2>3
<1> QED BY <1>1, <1>2, <1>3, <1>4, <1>5, <1>6, <1>7

\* Where the script lands its calls.
LEMMA LandedKeepsSetup ==
  ASSUME TypeOK, tool = "setup", script \in ScriptRecord, SetupOK(agent[a1], script),
         NEW i \in script.sent, Executed(i), NEW t \in ScriptRecord,
         t = [script EXCEPT !.at = script.at + 1, !.sent = {}]
  PROVE  SetupOK(agent'[a1], t)
<1> DEFINE ag == agent[a1]
           at == script.at
<1>1. /\ ag \in AgentRecord /\ agent \in [Agents -> AgentRecord] /\ a1 \in Agents
      /\ ag.total_collateral \in Nat /\ ag.slashed_total \in Nat
      /\ script.need \in Nat /\ BOND \in Nat /\ at \in 0..9
  BY ScriptKeys DEF TypeOK, AgentRecord, ScriptRecord, SetupOK
<1>2. /\ t.at = at + 1 /\ t.sent = {} /\ t.late = {} /\ t.need = script.need
      /\ t.acc = script.acc /\ SentOK(t)
  BY DEF ScriptRecord, SetupOK, SentOK
<1>3. CASE at \in 2..3
  <2>1. i.op = "transfer"
    BY <1>3 DEF SetupOK, SentOK
  <2>2. agent' = agent
    BY <2>1 DEF Executed, Transfer
  <2>3. agent'[a1] = ag /\ t.late = script.late
    BY <1>2, <2>2 DEF SetupOK
  <2> HIDE DEF SetupOK
  <2>4. SetupOK(ag, t)
    BY <1>1, <1>2, <1>3, <2>3, PassesKeepSetup
  <2> QED BY <2>3, <2>4
<1>4. CASE at = 4
  <2>1. i.op = "createAgent" /\ i.a = a1
    BY <1>4 DEF SetupOK, SentOK
  <2>2. CreateAgent(a1, SomeIdentity, i.terms)
    BY <2>1 DEF Executed, Executes
  <2>3. /\ agent'[a1].status = "Draft" /\ agent'[a1].total_collateral = 0
        /\ agent'[a1].slashed_total = 0 /\ ag.status = "Absent"
    BY <1>1, <2>2 DEF CreateAgent, NewAgent
  <2>4. script.need <= BOND /\ script.need >= BOND
    BY <1>1, <1>4, <2>3 DEF SetupOK
  <2>5. t.at = 5
    BY <1>2, <1>4
  <2> HIDE DEF at, ag, SentOK
  <2> QED BY <1>1, <1>2, <2>3, <2>4, <2>5 DEF SetupOK
<1>5. CASE at = 5
  <2>1. i.op = "depositCollateral" /\ i.a = a1 /\ i.amount = script.need
    BY <1>5 DEF SetupOK, SentOK
  <2>2. DepositCollateral(a1, script.need)
    BY <2>1 DEF Executed, Executes
  <2>3. agent'[a1] = [ag EXCEPT !.total_collateral = ag.total_collateral + script.need]
    BY <1>1, <2>2 DEF DepositCollateral
  <2>4. /\ agent'[a1].total_collateral = ag.total_collateral + script.need
        /\ agent'[a1].slashed_total = ag.slashed_total
        /\ agent'[a1].status = ag.status /\ ag.status # "Absent"
    BY <1>1, <2>2, <2>3 DEF DepositCollateral, AgentRecord
  <2>5. t.at = 6
    BY <1>2, <1>5
  <2>6. /\ ag.total_collateral + script.need <= BOND
        /\ (ag.total_collateral + script.need) + ag.slashed_total >= BOND
    BY <1>1, <1>5 DEF SetupOK
  <2> HIDE DEF at, ag, SentOK
  <2> QED BY <1>1, <1>2, <2>4, <2>5, <2>6 DEF SetupOK
<1>6. CASE at = 7
  <2>1. i.op = "setExecutor" /\ i.a = a1 /\ i.key = SCRIPT_KEY
    BY <1>6 DEF SetupOK, SentOK
  <2>2. SetExecutor(a1, SCRIPT_KEY)
    BY <2>1 DEF Executed, Executes
  <2>3. agent'[a1] = [ag EXCEPT !.executor = SCRIPT_KEY]
    BY <1>1, <2>2 DEF SetExecutor
  <2>4. /\ agent'[a1].total_collateral = ag.total_collateral
        /\ agent'[a1].slashed_total = ag.slashed_total
        /\ agent'[a1].status = ag.status /\ agent'[a1].executor = SCRIPT_KEY
    BY <1>1, <2>3 DEF AgentRecord
  <2>5. t.at = 8
    BY <1>2, <1>6
  <2> HIDE DEF at, ag, SentOK
  <2>6. IsPublished(agent'[a1]) <=> IsPublished(ag)
    BY <2>4 DEF IsPublished
  <2> HIDE DEF IsPublished
  <2> QED BY <1>1, <1>2, <1>6, <2>4, <2>5, <2>6 DEF SetupOK, at, ag
<1>7. CASE at = 8
  <2>1. i.op = "publishAgent" /\ i.a = a1
    BY <1>7 DEF SetupOK, SentOK
  <2>2. PublishAgent(a1)
    BY <2>1 DEF Executed, Executes
  <2>3. agent'[a1] = [ag EXCEPT !.status = "Active"]
    BY <1>1, <2>2 DEF PublishAgent
  <2>4. /\ agent'[a1].total_collateral = ag.total_collateral
        /\ agent'[a1].slashed_total = ag.slashed_total
        /\ agent'[a1].status = "Active" /\ agent'[a1].executor = ag.executor
    BY <1>1, <2>3 DEF AgentRecord
  <2>5. t.at = 9
    BY <1>2, <1>7
  <2>6. IsPublished(agent'[a1])
    BY <2>4 DEF IsPublished
  <2> HIDE DEF at, ag, SentOK, IsPublished
  <2> QED BY <1>1, <1>2, <1>7, <2>4, <2>5, <2>6 DEF SetupOK, at, ag
<1>8. at \in 2..3 \/ at = 4 \/ at = 5 \/ at = 7 \/ at = 8
  BY DEF SetupOK, SentOK
<1> QED BY <1>3, <1>4, <1>5, <1>6, <1>7, <1>8

\* Every step of the script keeps the invariant, if nothing lands that was given up.
LEMMA ScriptKeepsSetup ==
  ASSUME TypeOK, tool = "setup", ScriptTyped, script' \in ScriptRecord, ~LATE_LANDINGS,
         SetupOK(agent[a1], script), ScriptStep
  PROVE  SetupOK(agent'[a1], script')
<1> DEFINE ag == agent[a1]
           at == script.at
<1>1. /\ ag \in AgentRecord
      /\ ag.total_collateral \in Nat /\ ag.slashed_total \in Nat
      /\ script.need \in Nat /\ BOND \in Nat /\ at \in 0..9
      /\ script \in ScriptRecord /\ script.late = {} /\ SentOK(script)
  BY ScriptKeys DEF TypeOK, AgentRecord, ScriptTyped, ScriptRecord, SetupOK
<1>2. /\ at \in {0, 1, 6, 9} => script.sent = {}
      /\ Step \notin Remembered \cup Checked \cup Refusals \cup {"wait"}
  <2>1. at \in {0, 1, 6, 9} => script.sent = {}
    BY <1>1 DEF SentOK
  <2> QED BY <1>1, <2>1, SetupPlace
<1>3. CASE Starts
  <2>1. at \in {0, 9} /\ UNCHANGED vars
    BY <1>1, <1>3, SetupPlace DEF Starts, Running
  <2>2. script'.at = 1 /\ script'.late = {} /\ script'.sent = {}
    BY <1>1, <1>2, <1>3, <2>1 DEF Starts, ScriptRecord
  <2>3. agent'[a1] = ag /\ SentOK(script')
    BY <2>1, <2>2 DEF vars, SentOK
  <2> HIDE DEF SentOK
  <2> QED BY <2>2, <2>3 DEF SetupOK
<1>4. CASE Fetches
  <2> DEFINE need == Max({0, BOND - ag.total_collateral})
  <2>1. at \in {1, 6} /\ UNCHANGED vars /\ script.sent = {}
    BY <1>1, <1>2, <1>4, SetupPlace DEF Fetches
  <2>2. need = BOND - ag.total_collateral
    <3>1. 0 \in Int /\ BOND - ag.total_collateral \in Int
      BY <1>1
    <3>2. 0 <= BOND - ag.total_collateral
      BY <1>1 DEF SetupOK
    <3>3. need = IF 0 > BOND - ag.total_collateral THEN 0 ELSE BOND - ag.total_collateral
      BY <3>1, MaxOfTwo
    <3> HIDE DEF need
    <3> QED BY <1>1, <3>2, <3>3
  <2>3. /\ script'.at = at + 1 /\ script'.late = {} /\ script'.sent = {}
        /\ script'.acc = ag /\ script'.need = need
    BY <1>1, <1>4, <2>1 DEF Fetches, ScriptRecord
  <2>4. agent'[a1] = ag /\ SentOK(script')
    BY <2>1, <2>3 DEF vars, SentOK
  <2>5. /\ script'.need + ag.total_collateral <= BOND
        /\ script'.need + (ag.total_collateral + ag.slashed_total) >= BOND
    <3> HIDE DEF need
    <3> QED BY <1>1, <2>2, <2>3
  <2>6. at = 6 /\ ag.status # "Draft" => IsPublished(ag)
    BY <1>1 DEF SetupOK, IsPublished, AgentRecord, AgentStatus
  <2> HIDE DEF SentOK, need, IsPublished, ag
  <2>7. script'.at \in {2, 7} /\ (script'.at = 7 <=> at = 6)
    BY <2>1, <2>3
  <2>8. CASE at = 1
    <3>1. script'.at = 2
      BY <2>3, <2>8
    <3> QED BY <1>1, <2>3, <2>4, <2>5, <2>8, <3>1 DEF SetupOK, ag
  <2>9. CASE at = 6
    <3>1. script'.at = 7
      BY <2>3, <2>9
    <3> QED BY <1>1, <2>3, <2>4, <2>5, <2>6, <2>9, <3>1 DEF SetupOK, ag
  <2> QED BY <2>1, <2>8, <2>9
<1>5. CASE Sends
  <2>1. script' = [script EXCEPT !.sent = Wants] /\ UNCHANGED vars
    BY <1>5 DEF Sends
  <2>2. /\ script'.at = at /\ script'.late = script.late /\ script'.sent = Wants
        /\ script'.acc = script.acc /\ script'.need = script.need
    BY <1>1, <2>1 DEF ScriptRecord
  <2>3. SentOK(script')
    BY <1>1, <2>2, SetupWants DEF SentOK
  <2>4. agent'[a1] = ag
    BY <2>1 DEF vars
  <2> HIDE DEF SentOK
  <2> QED BY <2>2, <2>3, <2>4 DEF SetupOK
<1>6. CASE Skips
  <2>1. script' = [script EXCEPT !.at = at + 1] /\ UNCHANGED vars
    BY <1>1, <1>6 DEF Skips, ScriptRecord
  <2>2. /\ script'.at = at + 1 /\ script'.late = script.late /\ script'.sent = {}
        /\ script'.acc = script.acc /\ script'.need = script.need
    BY <1>1, <1>6, <2>1 DEF ScriptRecord, Skips
  <2>3. at \notin {0, 1, 6, 9}
    <3>1. Step \notin {"", "done", "fetch"}
      BY <1>6 DEF Skips, Running
    <3> QED BY <1>1, <3>1, SetupPlan
  <2>4. Wants = {}
    BY <1>6 DEF Skips
  <2>5. \/ at \in 2..3 \/ (at = 4 /\ script.acc.status # "Absent")
        \/ (at = 5 /\ script.need = 0) \/ (at = 7 /\ script.acc.executor = SCRIPT_KEY)
        \/ (at = 8 /\ script.acc.status # "Draft")
    <3>1. at \in 2..3 \/ at = 4 \/ at = 5 \/ at = 7 \/ at = 8
      BY <1>1, <2>3
    <3> QED BY <1>1, <2>4, <3>1, SetupWants
  <2>6. agent'[a1] = ag
    BY <2>1 DEF vars
  <2> QED BY <1>1, <2>2, <2>5, <2>6, PassesKeepSetup
<1>7. CASE SentLands
  <2>1. PICK i \in script.sent : Executed(i)
    BY <1>7 DEF SentLands
  <2>2. script' = [script EXCEPT !.at = at + 1, !.sent = {}]
    BY <1>1, <1>7 DEF SentLands, ScriptRecord
  <2> QED BY <1>1, <2>1, <2>2, LandedKeepsSetup
<1>8. CASE Stops
  <2>1. script' = [script EXCEPT !.at = 0, !.sent = {}, !.late = script.late]
    BY <1>8 DEF Stops
  <2>2. script'.at = 0 /\ script'.late = {} /\ script'.sent = {}
    BY <1>1, <2>1 DEF ScriptRecord
  <2>3. agent'[a1] = ag /\ SentOK(script')
    BY <1>8, <2>2 DEF Stops, vars, SentOK
  <2> HIDE DEF SentOK
  <2> QED BY <2>2, <2>3 DEF SetupOK
<1>9. ~LateLands /\ ~Remembers /\ ~Checks /\ ~IsRefused /\ ~Waits
  BY <1>1, <1>2 DEF LateLands, Remembers, Checks, IsRefused, Waits
<1> QED BY <1>3, <1>4, <1>5, <1>6, <1>7, <1>8, <1>9 DEF ScriptStep

\* It holds at first: nothing is bonded then, and no agent was ever slashed.
LEMMA InitSetup == ToolsInit => SetupInv
<1> SUFFICES ASSUME ToolsInit PROVE SetupOK(agent[a1], script)
  BY DEF SetupInv
<1>1. agent[a1] \in AgentAtStart(a1)
  BY ScriptKeys DEF ToolsInit, ConsoleInit, Init
<1>2. agent[a1].total_collateral = 0 /\ agent[a1].slashed_total = 0
  BY <1>1 DEF AgentAtStart, AbsentAgent, LegacyAgent, NewAgent
<1>3. script.at = 0 /\ script.late = {} /\ script.sent = {}
  BY DEF ToolsInit
<1>4. SentOK(script)
  BY <1>3 DEF SentOK
<1>5. BOND \in Nat
  BY ScriptKeys
<1> HIDE DEF SentOK
<1> QED BY <1>2, <1>3, <1>4, <1>5 DEF SetupOK

\* While the operator is not at the console, the others only keep agents.
LEMMA OutsideKeepsAgents ==
  ASSUME ToolsInv, Elsewhere
  PROVE  \A a \in Agents : KeepsAgent(agent[a], agent'[a])
<1>1. TypeOK /\ PagesInv /\ TradersOnlyTrade
  BY DEF ToolsInv
<1>2. \A a \in Agents : agent[a].total_collateral \in Nat
  BY <1>1 DEF TypeOK, AgentRecord
<1>3. ASSUME UNCHANGED vars PROVE \A a \in Agents : KeepsAgent(agent[a], agent'[a])
  BY <1>2, <1>3, SMT DEF vars, KeepsAgent
<1>4. ASSUME NEW g \in Pages \ OperatorPages, NEW c \in page[g].pending, Lands(g, c)
      PROVE  \A a \in Agents : KeepsAgent(agent[a], agent'[a])
  <2> DEFINE i == c.call
  <2>1. i \in Calls /\ i.op \in TraderOps
    BY <1>1 DEF PagesInv, PageRecord, Clicked, TradersOnlyTrade
  <2>2. Executes(i, WalletAt[g])
    BY <1>4 DEF Lands
  <2> HIDE DEF i
  <2>3. i.p \in Positions
    BY <2>1 DEF Calls, TraderOps
  <2>4. PICK amount \in Nat, duration \in Nat :
          OpenPosition(i.p, amount, duration) \/ CancelPosition(i.p) \/ ClaimDefault(i.p)
    <3>1. CASE i.op = "openPosition"
      <4>1. i.amount \in Nat /\ i.duration \in Nat
        BY <2>1, <3>1 DEF Calls
      <4>2. OpenPosition(i.p, i.amount, i.duration)
        BY <2>2, <3>1 DEF Executes
      <4> QED BY <4>1, <4>2
    <3>2. CASE i.op \in {"cancelPosition", "claimDefault"}
      <4>1. CancelPosition(i.p) \/ ClaimDefault(i.p)
        BY <2>2, <3>2 DEF Executes
      <4>2. 0 \in Nat
        OBVIOUS
      <4> QED BY <4>1, <4>2
    <3> QED BY <2>1, <3>1, <3>2 DEF TraderOps
  <2>5. PICK key : key \in Wallets
    BY <2>3, PositionKeys
  <2> QED BY <1>1, <2>3, <2>4, <2>5, PositionCallsKeepAgents
<1>5. ASSUME NEW g \in Pages \ OperatorPages, PageNext(g)
      PROVE  \A a \in Agents : KeepsAgent(agent[a], agent'[a])
  BY <1>1, <1>3, <1>4, <1>5, PageSteps
<1> QED BY <1>1, <1>5, OthersSteps DEF Elsewhere

\* Whoever acts, the script's achievements stay.
LEMMA NextSetup ==
  ASSUME ~LATE_LANDINGS
  PROVE  ToolsInv /\ ToolsInv' /\ SetupInv /\ [ToolsNext]_toolsVars => SetupInv'
<1> SUFFICES ASSUME ToolsInv, ToolsInv', SetupInv, [ToolsNext]_toolsVars, tool' = "setup"
             PROVE  SetupOK(agent'[a1], script')
  BY DEF SetupInv
<1>1. tool = "setup"
  BY DEF ToolsNext, toolsVars
<1>2. /\ SetupOK(agent[a1], script) /\ script \in ScriptRecord /\ script' \in ScriptRecord
      /\ agent[a1] \in AgentRecord /\ agent'[a1] \in AgentRecord
      /\ TypeOK /\ ScriptTyped
  BY <1>1, ScriptKeys DEF SetupInv, ToolsInv, ScriptTyped, TypeOK
<1>3. CASE UNCHANGED toolsVars
  BY <1>2, <1>3 DEF toolsVars, consoleVars, vars
<1>4. CASE ToolsNext /\ Script
  BY <1>1, <1>2, <1>4, ScriptKeepsSetup DEF Script
<1>5. CASE ToolsNext /\ ~Script
  <2>1. Elsewhere
    BY <1>1, <1>5 DEF ToolsNext
  <2>2. KeepsAgent(agent[a1], agent'[a1]) /\ script' = script
    BY <2>1, OutsideKeepsAgents, ScriptKeys DEF Elsewhere
  <2> QED BY <1>2, <2>2, KeptKeepsSetup
<1> QED BY <1>3, <1>4, <1>5

\* Wherever its earlier runs stopped, and whatever traders and the trading key did to its
\* agent since, the set-up script (setup.ts) never bonds more than the bond, and where it
\* ends the agent is published, its key bound, and its bond complete but for slashes:
\* provided that nothing lands which a stopped run had given up.
THEOREM SetupIsSafeToRerun == ~LATE_LANDINGS => (ToolsSpec => []SafeToRerun)
<1> SUFFICES ASSUME ~LATE_LANDINGS PROVE ToolsSpec => []SafeToRerun
  OBVIOUS
<1>1. ToolsInv /\ SetupInv => SafeToRerun
  <2> SUFFICES ASSUME ToolsInv, SetupInv, tool = "setup"
               PROVE  /\ agent[a1].total_collateral <= BOND
                      /\ Step = "done" =>
                           /\ IsPublished(agent[a1]) /\ agent[a1].executor = SCRIPT_KEY
                           /\ agent[a1].total_collateral + agent[a1].slashed_total >= BOND
    BY DEF SafeToRerun
  <2>1. SetupOK(agent[a1], script)
    BY DEF SetupInv
  <2>2. Step = "done" => script.at = 9
    BY <2>1, SetupPlace DEF SetupOK
  <2> HIDE DEF IsPublished, Step
  <2> QED BY <2>1, <2>2 DEF SetupOK
<1>2. ToolsInit => SetupInv
  BY InitSetup
<1>3. ToolsInv /\ ToolsInv' /\ SetupInv /\ [ToolsNext]_toolsVars => SetupInv'
  BY NextSetup
<1> QED BY <1>1, <1>2, <1>3, ToolsInvariant, PTL DEF ToolsSpec
-----------------------------------------------------------------------------
(* The bad operator *)

\* The positions of run r, as PosA and PosB are those of the current one.
RunA(r) == <<a1, SCRIPT_TRADER, 2 * r - 1>>
RunB(r) == <<a1, SCRIPT_TRADER, 2 * r>>

\* What the script counts on: its wallets differ, its agent is a new one, and position B
\* returns so little that beyond the tolerated loss its whole guarantee is missing.
FairTrial ==
  /\ ~LATE_LANDINGS /\ LegacyTerms = {} /\ SCRIPT_KEY # SCRIPT_TRADER
  /\ Reserved > 0
  /\ BAD_RETURN + Bps(PRINCIPAL, SCRIPT_TERMS.max_drawdown_bps) + Reserved <= PRINCIPAL

\* What a run r may send at each step.
TrialSends(i, at, r) ==
  \/ at \in 1..3 /\ i.op = "transfer"
  \/ at = 5 /\ i = [op |-> "createAgent", a |-> a1, terms |-> SCRIPT_TERMS]
  \/ /\ at \in {7, 8, 10, 11, 30}
     /\ i.op \in {"depositCollateral", "setExecutor", "publishAgent", "setAccepting"}
  \/ at = 13 /\ i = [op |-> "openPosition", p |-> RunA(r), amount |-> PRINCIPAL,
                     duration |-> SHORT_DEADLINE]
  \/ at = 14 /\ i = [op |-> "openPosition", p |-> RunB(r), amount |-> PRINCIPAL,
                     duration |-> LONG_DEADLINE]
  \/ at = 17 /\ i = [op |-> "drawFunds", p |-> RunA(r)]
  \/ at = 18 /\ i = [op |-> "drawFunds", p |-> RunB(r)]
  \/ at = 21 /\ i = [op |-> "settlePosition", p |-> RunB(r), returned |-> BAD_RETURN]
  \/ at \in {23, 26} /\ i = [op |-> "claimDefault", p |-> RunA(r)]
  \/ at = 28 /\ i = [op |-> "settlePosition", p |-> RunA(r), returned |-> PRINCIPAL]

\* The agent since the script looked at it.
Since(ag, was, locked, slashed, breaches) ==
  /\ ag.locked_collateral = was.locked_collateral + locked
  /\ ag.total_collateral + slashed = was.total_collateral
  /\ ag.breach_count = was.breach_count + breaches
  /\ ag.fees_earned = was.fees_earned

\* A position of the run that is open or trading.
Backed(pos) ==
  /\ pos.principal = PRINCIPAL /\ pos.locked_collateral = Reserved
  /\ pos.max_drawdown_bps = SCRIPT_TERMS.max_drawdown_bps /\ pos.fee_paid = 0

OpenNow(pos)    == pos.status = "Open" /\ Backed(pos)
TradingNow(pos) == pos.status = "Trading" /\ Backed(pos)

\* What is to become of position B, and of position A.
ClosedShort(pos) ==
  /\ pos.status = "Settled" /\ pos.slashed = Reserved /\ pos.fee_paid = 0
  /\ pos.breach = "Drawdown" \/ pos.closed_at >= pos.deadline
ClosedLate(pos) ==
  /\ pos.status = "Defaulted" /\ pos.slashed = Reserved /\ pos.fee_paid = 0
  /\ pos.breach = "MissedDeadline"

\* What each step finds on the agent ag and the positions A and B of the run.
TrialAccounts(s, ag, A, B) ==
  /\ s.at = 13 => Since(ag, s.before, 0, 0, 0)
  /\ s.at = 14 => Since(ag, s.before, Reserved, 0, 0)
  /\ s.at \in 15..21 => Since(ag, s.before, 2 * Reserved, 0, 0)
  /\ s.at \in 14..17 => OpenNow(A)
  /\ s.at \in 15..18 => OpenNow(B)
  /\ s.at \in 18..23 => TradingNow(A)
  /\ s.at \in 19..21 => TradingNow(B)
  /\ s.at = 22 => ClosedShort(B)
  /\ s.at \in 22..23 \/ (s.at \in 24..26 /\ A.status = "Trading")
       => Since(ag, s.before, Reserved, Reserved, 1)
  /\ s.at \in 24..26 /\ A.status = "Trading" => TradingNow(A)
  /\ s.at \in 27..28 => ClosedLate(A)
  /\ s.at \in 27..29 => Since(ag, s.before, 0, 2 * Reserved, 2)

\* What the trading key and the trader have, since the script looked at that.
TrialWallets(s, keys, traders) ==
  /\ s.at = 17 => keys >= s.had
  /\ s.at = 18 => keys >= s.had + PRINCIPAL
  /\ s.at = 19 => keys >= s.had + 2 * PRINCIPAL
  /\ s.at \in {21, 26} => traders >= s.had
  /\ s.at = 22 => traders >= s.had + (BAD_RETURN + Reserved)
  /\ s.at = 27 => traders >= s.had + Reserved

\* The checks that failed were late: before the check nothing has.
TrialFailures(s, A, B, time) ==
  \A check \in s.failed :
    \/ check = "early claim" /\ s.at \notin 1..23 /\ A.deadline \in 0..time
    \/ check = "settled" /\ s.at \notin 1..22 /\ B.closed_at >= B.deadline

TrialOK(s, ag, A, B, keys, traders, time) ==
  /\ s.at \in 0..31 /\ s.late = {} /\ \A i \in s.sent : TrialSends(i, s.at, s.runs)
  /\ ag.status # "Absent" => ag.terms = SCRIPT_TERMS
  /\ TrialAccounts(s, ag, A, B) /\ TrialWallets(s, keys, traders)
  /\ TrialFailures(s, A, B, time)

\* The inductive invariant of the bad operator's script.
TrialInv ==
  tool = "demo" => TrialOK(script, agent[a1], position[RunA(script.runs)],
                           position[RunB(script.runs)], wallet[SCRIPT_KEY],
                           wallet[SCRIPT_TRADER], now)

\* The steps of main().
LEMMA TrialPlan ==
  ASSUME tool = "demo", script.at \in 0..31
  PROVE  /\ script.at = 0 => Step = ""
         /\ script.at = 1 => Step = "fund operator"
         /\ script.at = 2 => Step = "fund key"
         /\ script.at = 3 => Step = "fund trader"
         /\ script.at \in {4, 6, 9} => Step = "fetch"
         /\ script.at = 5 => Step = "create"
         /\ script.at = 7 => Step = "deposit"
         /\ script.at = 8 => Step = "bind"
         /\ script.at = 10 => Step = "publish"
         /\ script.at = 11 => Step = "resume"
         /\ script.at = 12 => Step = "before"
         /\ script.at = 13 => Step = "open A"
         /\ script.at = 14 => Step = "open B"
         /\ script.at = 15 => Step = "opened"
         /\ script.at = 16 => Step = "before draw"
         /\ script.at = 17 => Step = "draw A"
         /\ script.at = 18 => Step = "draw B"
         /\ script.at = 19 => Step = "drawn"
         /\ script.at = 20 => Step = "before B"
         /\ script.at = 21 => Step = "settle B"
         /\ script.at = 22 => Step = "settled"
         /\ script.at = 23 => Step = "early claim"
         /\ script.at = 24 => Step = "wait"
         /\ script.at = 25 => Step = "before A"
         /\ script.at = 26 => Step = "claim A"
         /\ script.at = 27 => Step = "claimed"
         /\ script.at = 28 => Step = "late settle"
         /\ script.at = 29 => Step = "records"
         /\ script.at = 30 => Step = "pause"
         /\ script.at = 31 => Step = "done"
<1>1. Plan = <<"fund operator", "fund key", "fund trader", "fetch", "create", "fetch", "deposit",
         "bind", "fetch", "publish", "resume", "before", "open A", "open B", "opened",
         "before draw", "draw A", "draw B", "drawn", "before B", "settle B", "settled",
         "early claim", "wait", "before A", "claim A", "claimed", "late settle",
         "records", "pause", "done">>
  BY DEF Plan
<1>2. script.at = 0 => Step = ""
  BY DEF Step
<1>3. ASSUME NEW k \in 1..31, script.at = k PROVE Step = Plan[k]
  <2>1. script.at # 0
    BY <1>3
  <2>2. Step = Plan[script.at]
    BY <2>1, Zenon DEF Step
  <2> QED BY <1>3, <2>2, Zenon
<1>4. /\ script.at = 1 => Step = "fund operator"
      /\ script.at = 2 => Step = "fund key"
      /\ script.at = 3 => Step = "fund trader"
      /\ script.at = 4 => Step = "fetch"
      /\ script.at = 5 => Step = "create"
      /\ script.at = 6 => Step = "fetch"
  <2>1. /\ script.at = 1 => Step = Plan[1]
        /\ script.at = 2 => Step = Plan[2]
        /\ script.at = 3 => Step = Plan[3]
        /\ script.at = 4 => Step = Plan[4]
        /\ script.at = 5 => Step = Plan[5]
        /\ script.at = 6 => Step = Plan[6]
    BY <1>3, SMT
  <2>2. /\ Plan[1] = "fund operator"
        /\ Plan[2] = "fund key"
        /\ Plan[3] = "fund trader"
        /\ Plan[4] = "fetch"
        /\ Plan[5] = "create"
        /\ Plan[6] = "fetch"
    BY <1>1
  <2> QED BY <2>1, <2>2, Zenon
<1>5. /\ script.at = 7 => Step = "deposit"
      /\ script.at = 8 => Step = "bind"
      /\ script.at = 9 => Step = "fetch"
      /\ script.at = 10 => Step = "publish"
      /\ script.at = 11 => Step = "resume"
      /\ script.at = 12 => Step = "before"
  <2>1. /\ script.at = 7 => Step = Plan[7]
        /\ script.at = 8 => Step = Plan[8]
        /\ script.at = 9 => Step = Plan[9]
        /\ script.at = 10 => Step = Plan[10]
        /\ script.at = 11 => Step = Plan[11]
        /\ script.at = 12 => Step = Plan[12]
    BY <1>3, SMT
  <2>2. /\ Plan[7] = "deposit"
        /\ Plan[8] = "bind"
        /\ Plan[9] = "fetch"
        /\ Plan[10] = "publish"
        /\ Plan[11] = "resume"
        /\ Plan[12] = "before"
    BY <1>1
  <2> QED BY <2>1, <2>2, Zenon
<1>6. /\ script.at = 13 => Step = "open A"
      /\ script.at = 14 => Step = "open B"
      /\ script.at = 15 => Step = "opened"
      /\ script.at = 16 => Step = "before draw"
      /\ script.at = 17 => Step = "draw A"
      /\ script.at = 18 => Step = "draw B"
  <2>1. /\ script.at = 13 => Step = Plan[13]
        /\ script.at = 14 => Step = Plan[14]
        /\ script.at = 15 => Step = Plan[15]
        /\ script.at = 16 => Step = Plan[16]
        /\ script.at = 17 => Step = Plan[17]
        /\ script.at = 18 => Step = Plan[18]
    BY <1>3, SMT
  <2>2. /\ Plan[13] = "open A"
        /\ Plan[14] = "open B"
        /\ Plan[15] = "opened"
        /\ Plan[16] = "before draw"
        /\ Plan[17] = "draw A"
        /\ Plan[18] = "draw B"
    BY <1>1
  <2> QED BY <2>1, <2>2, Zenon
<1>7. /\ script.at = 19 => Step = "drawn"
      /\ script.at = 20 => Step = "before B"
      /\ script.at = 21 => Step = "settle B"
      /\ script.at = 22 => Step = "settled"
      /\ script.at = 23 => Step = "early claim"
      /\ script.at = 24 => Step = "wait"
  <2>1. /\ script.at = 19 => Step = Plan[19]
        /\ script.at = 20 => Step = Plan[20]
        /\ script.at = 21 => Step = Plan[21]
        /\ script.at = 22 => Step = Plan[22]
        /\ script.at = 23 => Step = Plan[23]
        /\ script.at = 24 => Step = Plan[24]
    BY <1>3, SMT
  <2>2. /\ Plan[19] = "drawn"
        /\ Plan[20] = "before B"
        /\ Plan[21] = "settle B"
        /\ Plan[22] = "settled"
        /\ Plan[23] = "early claim"
        /\ Plan[24] = "wait"
    BY <1>1
  <2> QED BY <2>1, <2>2, Zenon
<1>8. /\ script.at = 25 => Step = "before A"
      /\ script.at = 26 => Step = "claim A"
      /\ script.at = 27 => Step = "claimed"
      /\ script.at = 28 => Step = "late settle"
      /\ script.at = 29 => Step = "records"
      /\ script.at = 30 => Step = "pause"
  <2>1. /\ script.at = 25 => Step = Plan[25]
        /\ script.at = 26 => Step = Plan[26]
        /\ script.at = 27 => Step = Plan[27]
        /\ script.at = 28 => Step = Plan[28]
        /\ script.at = 29 => Step = Plan[29]
        /\ script.at = 30 => Step = Plan[30]
    BY <1>3, SMT
  <2>2. /\ Plan[25] = "before A"
        /\ Plan[26] = "claim A"
        /\ Plan[27] = "claimed"
        /\ Plan[28] = "late settle"
        /\ Plan[29] = "records"
        /\ Plan[30] = "pause"
    BY <1>1
  <2> QED BY <2>1, <2>2, Zenon
<1>9. /\ script.at = 31 => Step = "done"
  <2>1. /\ script.at = 31 => Step = Plan[31]
    BY <1>3, SMT
  <2>2. /\ Plan[31] = "done"
    BY <1>1
  <2> QED BY <2>1, <2>2, Zenon
<1> QED BY <1>2, <1>4, <1>5, <1>6, <1>7, <1>8, <1>9

\* Where the script is at each kind of step.
LEMMA TrialPlace ==
  ASSUME tool = "demo", script.at \in 0..31
  PROVE  /\ Step \in {"", "done"} => script.at \in {0, 31}
         /\ Step = "fetch" => script.at \in {4, 6, 9}
         /\ Step \in Remembered => script.at \in {12, 16, 20, 25}
         /\ Step \in Checked => script.at \in {15, 19, 22, 27, 29}
         /\ Step \in Refusals <=> script.at \in {23, 28}
         /\ Step = "wait" => script.at = 24
<1>1. \/ script.at \in {0, 31}
      \/ script.at \in {1, 2, 3, 5}
      \/ script.at \in {4, 6, 9}
      \/ script.at \in {7, 8, 10, 11}
      \/ script.at \in {12, 16, 20, 25}
      \/ script.at \in {13, 14, 17}
      \/ script.at \in {18, 21, 26}
      \/ script.at \in {15, 19, 22}
      \/ script.at \in {27, 29}
      \/ script.at \in {23, 28}
      \/ script.at \in {24, 30}
  OBVIOUS
<1>2. CASE script.at \in {0, 31}
  BY <1>2, TrialPlan DEF Remembered, Checked, Refusals
<1>3. CASE script.at \in {1, 2, 3, 5}
  BY <1>3, TrialPlan DEF Remembered, Checked, Refusals
<1>4. CASE script.at \in {4, 6, 9}
  BY <1>4, TrialPlan DEF Remembered, Checked, Refusals
<1>5. CASE script.at \in {7, 8, 10, 11}
  BY <1>5, TrialPlan DEF Remembered, Checked, Refusals
<1>6. CASE script.at \in {12, 16, 20, 25}
  BY <1>6, TrialPlan DEF Remembered, Checked, Refusals
<1>7. CASE script.at \in {13, 14, 17}
  BY <1>7, TrialPlan DEF Remembered, Checked, Refusals
<1>8. CASE script.at \in {18, 21, 26}
  BY <1>8, TrialPlan DEF Remembered, Checked, Refusals
<1>9. CASE script.at \in {15, 19, 22}
  BY <1>9, TrialPlan DEF Remembered, Checked, Refusals
<1>10. CASE script.at \in {27, 29}
  BY <1>10, TrialPlan DEF Remembered, Checked, Refusals
<1>11. CASE script.at \in {23, 28}
  BY <1>11, TrialPlan DEF Remembered, Checked, Refusals
<1>12. CASE script.at \in {24, 30}
  BY <1>12, TrialPlan DEF Remembered, Checked, Refusals
<1> QED BY <1>1, <1>2, <1>3, <1>4, <1>5, <1>6, <1>7, <1>8, <1>9, <1>10, <1>11, <1>12

\* What its steps want, and which always want something.
LEMMA TrialWants ==
  ASSUME tool = "demo", script.at \in 0..31
  PROVE  /\ \A i \in Wants : TrialSends(i, script.at, script.runs)
         /\ script.at \in {13, 14, 17, 18, 21, 23, 26, 28} => Wants # {}
<1>1. ASSUME NEW condition, NEW j, NEW i \in When(condition, j) PROVE i = j
  BY <1>1 DEF When
<1>2. CASE script.at \in {1, 2, 3}
  <2>1. Step \in {"fund operator", "fund key", "fund trader"}
    BY <1>2, TrialPlan
  <2>2. \E to, target : Wants = TopUp(to, target)
    BY <2>1 DEF Wants
  <2>3. ASSUME NEW i \in Wants PROVE i.op = "transfer"
    <3>1. PICK to, target : i \in TopUp(to, target)
      BY <2>2, <2>3
    <3> DEFINE j == [op |-> "transfer", to |-> to, amount |-> target - wallet[to]]
    <3>2. j.op = "transfer" /\ TopUp(to, target) = When(wallet[to] < target, j)
      BY DEF TopUp
    <3> HIDE DEF j
    <3> QED BY <1>1, <3>1, <3>2
  <2> QED BY <1>2, <2>3 DEF TrialSends
<1>3. CASE script.at \in {0, 4, 6, 9, 12, 15, 16}
  <2>1. Step \in {"", "fetch", "before", "opened", "before draw"}
    BY <1>3, TrialPlan
  <2>2. Wants = {}
    BY <2>1 DEF Wants
  <2> QED BY <1>3, <2>2
<1>4. CASE script.at \in {19, 20, 22, 24, 25, 27, 29, 31}
  <2>1. Step \in {"drawn", "before B", "settled", "wait", "before A", "claimed", "records",
                  "done"}
    BY <1>4, TrialPlan
  <2>2. Wants = {}
    BY <2>1 DEF Wants
  <2> QED BY <1>4, <2>2
<1>5. CASE script.at = 5
  <2>1. Wants = When(script.acc.status = "Absent",
                     [op |-> "createAgent", a |-> a1, terms |-> SCRIPT_TERMS])
    BY <1>5, TrialPlan DEF Wants
  <2> QED BY <1>1, <1>5, <2>1 DEF TrialSends
<1>6. CASE script.at \in {7, 8, 10, 11, 30}
  <2>1. Step \in {"deposit", "bind", "publish", "resume", "pause"}
    BY <1>6, TrialPlan
  <2>2. ASSUME NEW i \in Wants
        PROVE  i.op \in {"depositCollateral", "setExecutor", "publishAgent", "setAccepting"}
    <3>1. \/ i = [op |-> "depositCollateral", a |-> a1, amount |-> script.need]
          \/ i = [op |-> "setExecutor", a |-> a1, key |-> SCRIPT_KEY]
          \/ i = [op |-> "publishAgent", a |-> a1]
          \/ i = [op |-> "setAccepting", a |-> a1, accepting |-> TRUE]
          \/ i = [op |-> "setAccepting", a |-> a1, accepting |-> FALSE]
      BY <2>1 DEF Wants, When
    <3> QED BY <3>1
  <2> QED BY <1>6, <2>2 DEF TrialSends
<1>7. CASE script.at \in {13, 14}
  <2>1. /\ script.at = 13 => Wants = {[op |-> "openPosition", p |-> RunA(script.runs),
                                       amount |-> PRINCIPAL, duration |-> SHORT_DEADLINE]}
        /\ script.at = 14 => Wants = {[op |-> "openPosition", p |-> RunB(script.runs),
                                       amount |-> PRINCIPAL, duration |-> LONG_DEADLINE]}
    BY TrialPlan DEF Wants, PosA, PosB, RunA, RunB
  <2> QED BY <1>7, <2>1 DEF TrialSends
<1>8. CASE script.at \in {17, 18}
  <2>1. /\ script.at = 17 => Wants = {[op |-> "drawFunds", p |-> RunA(script.runs)]}
        /\ script.at = 18 => Wants = {[op |-> "drawFunds", p |-> RunB(script.runs)]}
    BY TrialPlan DEF Wants, PosA, PosB, RunA, RunB
  <2> QED BY <1>8, <2>1 DEF TrialSends
<1>9. CASE script.at \in {21, 28}
  <2>1. /\ script.at = 21 => Wants = {[op |-> "settlePosition", p |-> RunB(script.runs),
                                       returned |-> BAD_RETURN]}
        /\ script.at = 28 => Wants = {[op |-> "settlePosition", p |-> RunA(script.runs),
                                       returned |-> PRINCIPAL]}
    BY TrialPlan DEF Wants, PosA, PosB, RunA, RunB
  <2> QED BY <1>9, <2>1 DEF TrialSends
<1>10. CASE script.at \in {23, 26}
  <2>1. Wants = {[op |-> "claimDefault", p |-> RunA(script.runs)]}
    <3>1. Step \in {"early claim", "claim A"}
      BY <1>10, TrialPlan
    <3> QED BY <3>1 DEF Wants, PosA, RunA
  <2> QED BY <1>10, <2>1 DEF TrialSends
<1>11. \/ script.at \in {1, 2, 3} \/ script.at \in {0, 4, 6, 9, 12, 15, 16}
       \/ script.at \in {19, 20, 22, 24, 25, 27, 29, 31} \/ script.at = 5
       \/ script.at \in {7, 8, 10, 11, 30} \/ script.at \in {13, 14} \/ script.at \in {17, 18}
       \/ script.at \in {21, 28} \/ script.at \in {23, 26}
  OBVIOUS
<1> QED BY <1>2, <1>3, <1>4, <1>5, <1>6, <1>7, <1>8, <1>9, <1>10, <1>11

\* No position but p changes.
OnlyPosition(p) == \A q \in Positions : q # p => position'[q] = position[q]

\* The agent of the script still has its terms.
SameOffer(ag, new) == new.status = ag.status /\ new.terms = ag.terms

\* What opening a position of the script does.
LEMMA TrialOpens ==
  ASSUME TypeOK, NEW p \in Positions, AgentOf(p) = a1, agent[a1].terms = SCRIPT_TERMS,
         NEW duration, OpenPosition(p, PRINCIPAL, duration)
  PROVE  /\ OpenNow(position'[p]) /\ OnlyPosition(p) /\ SameOffer(agent[a1], agent'[a1])
         /\ Since(agent'[a1], agent[a1], Reserved, 0, 0)
<1> DEFINE ag == agent[a1]
<1>1. ag \in AgentRecord /\ a1 \in Agents /\ ag.total_collateral \in Nat /\ ag.breach_count \in Nat
  BY ScriptKeys DEF TypeOK, AgentRecord
<1>2. agent'[a1] = [ag EXCEPT !.locked_collateral = ag.locked_collateral + Reserved,
                              !.capital_managed = ag.capital_managed + PRINCIPAL,
                              !.open_positions = ag.open_positions + 1]
  BY <1>1 DEF OpenPosition, TypeOK, Reserved
<1>3. position' = [position EXCEPT ![p] = NewPosition(PRINCIPAL, Reserved, SCRIPT_TERMS, duration)]
  BY DEF OpenPosition, Reserved
<1>4. OpenNow(position'[p]) /\ OnlyPosition(p)
  BY <1>3 DEF TypeOK, NewPosition, OpenNow, Backed, OnlyPosition
<1>5. /\ SameOffer(ag, agent'[a1])
      /\ agent'[a1].locked_collateral = ag.locked_collateral + Reserved
      /\ agent'[a1].total_collateral = ag.total_collateral
      /\ agent'[a1].breach_count = ag.breach_count
      /\ agent'[a1].fees_earned = ag.fees_earned
  BY <1>1, <1>2 DEF AgentRecord, SameOffer
<1> HIDE DEF ag
<1>6. Since(agent'[a1], ag, Reserved, 0, 0)
  BY <1>1, <1>5, SMT DEF Since
<1> QED BY <1>4, <1>5, <1>6 DEF ag

\* What drawing one does.
LEMMA TrialDraws ==
  ASSUME TypeOK, NEW p \in Positions, OpenNow(position[p]), DrawFunds(SCRIPT_KEY, p)
  PROVE  /\ TradingNow(position'[p]) /\ OnlyPosition(p) /\ agent' = agent
         /\ wallet'[SCRIPT_KEY] = wallet[SCRIPT_KEY] + PRINCIPAL
<1>1. position[p] \in PositionRecord /\ wallet \in [Wallets -> Nat] /\ SCRIPT_KEY \in Wallets
  BY ScriptKeys DEF TypeOK
<1>2. position' = [position EXCEPT ![p] = [position[p] EXCEPT !.status = "Trading",
                                                              !.drawn_at = now]]
  BY <1>1 DEF DrawFunds, TypeOK
<1>3. TradingNow(position'[p]) /\ OnlyPosition(p)
  BY <1>1, <1>2 DEF TypeOK, PositionRecord, OpenNow, TradingNow, Backed, OnlyPosition
<1>4. wallet'[SCRIPT_KEY] = wallet[SCRIPT_KEY] + PRINCIPAL
  BY <1>1 DEF DrawFunds, Credit, OpenNow, Backed
<1> QED BY <1>3, <1>4 DEF DrawFunds

\* What settling one short does: its whole guarantee goes to the trader.
LEMMA TrialSettles ==
  ASSUME FairTrial, TypeOK, NEW p \in Positions, AgentOf(p) = a1, TraderOf(p) = SCRIPT_TRADER,
         TradingNow(position[p]), SettlePosition(SCRIPT_KEY, p, BAD_RETURN)
  PROVE  /\ ClosedShort(position'[p]) /\ OnlyPosition(p) /\ SameOffer(agent[a1], agent'[a1])
         /\ agent'[a1].locked_collateral = agent[a1].locked_collateral - Reserved
         /\ agent'[a1].total_collateral = agent[a1].total_collateral - Reserved
         /\ agent'[a1].breach_count = agent[a1].breach_count + 1
         /\ agent'[a1].fees_earned = agent[a1].fees_earned
         /\ wallet'[SCRIPT_TRADER] >= wallet[SCRIPT_TRADER] + (BAD_RETURN + Reserved)
<1> DEFINE ag        == agent[a1]
           a         == AgentOf(p)
           pos       == position[p]
           declined  == pos.status = "Open"
           sent      == IF declined THEN 0 ELSE BAD_RETURN
           effective == IF declined THEN pos.principal ELSE BAD_RETURN
           s         == ComputeSettlement(pos.principal, effective, pos.fee_bps,
                                          pos.max_drawdown_bps, pos.locked_collateral)
           after     == Debit(wallet, SCRIPT_KEY, sent)
           fee       == FeePaid(after, OperatorOf[a], TraderOf(p), s.fee)
           late      == ~declined /\ DeadlineReached(p)
           breach    == BreachOf(late, s.slash)
           slash     == s.slash
           paid      == slash + position_vault[p] + sent - fee
<1>1. /\ ag \in AgentRecord /\ pos \in PositionRecord /\ a \in Agents /\ a = a1
      /\ OperatorOf[a] \in Wallets /\ wallet \in [Wallets -> Nat] /\ position_vault[p] \in Nat
      /\ SCRIPT_KEY \in Wallets /\ SCRIPT_TRADER \in Wallets
      /\ ag.locked_collateral \in Nat /\ ag.total_collateral \in Nat
      /\ ag.breach_count \in Nat /\ ag.fees_earned \in Nat
      /\ PRINCIPAL \in Nat /\ BAD_RETURN \in Nat /\ now \in Nat
  BY ScriptKeys DEF TypeOK, AgentRecord
<1>2. /\ agent' = [agent EXCEPT ![a] =
            [Released(Slashed(agent[a], slash), pos)
               EXCEPT !.settled_positions = IF declined THEN @ ELSE @ + 1,
                      !.breach_count = IF breach = "None" THEN @ ELSE @ + 1,
                      !.fees_earned = @ + fee]]
      /\ position' = [position EXCEPT ![p].status = "Settled", ![p].breach = breach,
                                      ![p].returned = effective, ![p].slashed = slash,
                                      ![p].fee_paid = fee, ![p].closed_at = now]
      /\ wallet' = Credit(Credit(after, OperatorOf[a], fee), TraderOf(p), paid)
  BY DEF SettlePosition
<1>3. /\ ~declined /\ sent = BAD_RETURN /\ effective = BAD_RETURN
      /\ pos.principal = PRINCIPAL /\ pos.locked_collateral = Reserved
      /\ pos.max_drawdown_bps = SCRIPT_TERMS.max_drawdown_bps
  BY DEF TradingNow, Backed
<1>4. Reserved \in Nat /\ Bps(PRINCIPAL, SCRIPT_TERMS.max_drawdown_bps) \in Nat
  <2>1. Reserved \in Nat
    BY <1>1, <1>3 DEF PositionRecord
  <2>2. SCRIPT_TERMS.max_drawdown_bps \in Nat
    BY ScriptKeys DEF AgentTerms
  <2>3. /\ BPS_DENOMINATOR \in Nat \ {0}
        /\ PRINCIPAL * SCRIPT_TERMS.max_drawdown_bps \in Nat
    BY <1>1, <2>2, ConstantsAssumption DEF ConstantsAssumption
  <2> QED BY <2>1, <2>3 DEF Bps
<1>5. s.fee = 0 /\ slash = Reserved
  <2> DEFINE allowed   == Bps(PRINCIPAL, SCRIPT_TERMS.max_drawdown_bps)
             loss      == PRINCIPAL - BAD_RETURN
             shortfall == IF loss > allowed THEN loss - allowed ELSE 0
  <2>1. allowed \in Nat /\ BAD_RETURN + allowed + Reserved <= PRINCIPAL /\ Reserved > 0
    BY <1>4 DEF FairTrial
  <2>2. s = ComputeSettlement(PRINCIPAL, BAD_RETURN, pos.fee_bps,
                              SCRIPT_TERMS.max_drawdown_bps, Reserved)
    BY <1>3
  <2> HIDE DEF allowed, s
  <2>3. /\ ~(BAD_RETURN >= PRINCIPAL) /\ shortfall >= Reserved /\ shortfall \in Nat
    BY <1>1, <1>4, <2>1
  <2>4. (IF shortfall <= Reserved THEN shortfall ELSE Reserved) = Reserved
    <3> HIDE DEF shortfall
    <3> QED BY <1>4, <2>3
  <2>5. s = [fee |-> 0, slash |-> IF shortfall <= Reserved THEN shortfall ELSE Reserved]
    BY <2>2, <2>3 DEF ComputeSettlement, allowed
  <2> QED BY <2>4, <2>5
<1> HIDE DEF effective, s, slash
<1>6. fee = 0
  BY <1>5 DEF FeePaid
<1>7. /\ breach \in {"MissedDeadline", "Drawdown"}
      /\ breach = "Drawdown" \/ now >= pos.deadline
  <2>1. late <=> now >= pos.deadline
    BY <1>3 DEF DeadlineReached
  <2>2. s.slash > 0
    BY <1>5 DEF slash, FairTrial
  <2> HIDE DEF late
  <2> QED BY <2>1, <2>2 DEF BreachOf
<1> HIDE DEF declined, fee, breach
<1>8. ClosedShort(position'[p]) /\ OnlyPosition(p)
  <2>1. /\ position'[p].status = "Settled" /\ position'[p].breach = breach
        /\ position'[p].slashed = slash /\ position'[p].fee_paid = fee
        /\ position'[p].closed_at = now /\ position'[p].deadline = pos.deadline
        /\ OnlyPosition(p)
    BY <1>1, <1>2 DEF TypeOK, PositionRecord, OnlyPosition
  <2> QED BY <1>5, <1>6, <1>7, <2>1 DEF ClosedShort
<1>9. /\ agent'[a].status = ag.status /\ agent'[a].terms = ag.terms
      /\ agent'[a].locked_collateral = ag.locked_collateral - pos.locked_collateral
      /\ agent'[a].total_collateral = ag.total_collateral - slash
      /\ agent'[a].breach_count = IF breach = "None" THEN ag.breach_count
                                  ELSE ag.breach_count + 1
      /\ agent'[a].fees_earned = ag.fees_earned + fee
  BY <1>1, <1>2 DEF Released, Slashed, TypeOK, AgentRecord
<1>10. wallet'[SCRIPT_TRADER] >= wallet[SCRIPT_TRADER] + (BAD_RETURN + Reserved)
  <2>1. SCRIPT_KEY # SCRIPT_TRADER /\ TraderOf(p) = SCRIPT_TRADER
    BY DEF FairTrial
  <2>2. after \in [Wallets -> Int] /\ after[SCRIPT_TRADER] = wallet[SCRIPT_TRADER]
    BY <1>1, <1>3, <2>1 DEF Debit
  <2> HIDE DEF after, sent
  <2>3. Credit(after, OperatorOf[a], fee) = after
    <3>1. \A w \in Wallets : after[w] + 0 = after[w]
      BY <2>2
    <3> QED BY <1>1, <1>6, <2>2, <3>1 DEF Credit
  <2>4. wallet'[SCRIPT_TRADER] = wallet[SCRIPT_TRADER] + paid
    BY <1>1, <1>2, <2>1, <2>2, <2>3 DEF Credit
  <2>5. paid = Reserved + position_vault[p] + BAD_RETURN
    BY <1>1, <1>3, <1>4, <1>5, <1>6
  <2>6. wallet[SCRIPT_TRADER] \in Nat
    BY <1>1
  <2> HIDE DEF paid
  <2> QED BY <1>1, <1>4, <2>4, <2>5, <2>6
<1> QED BY <1>1, <1>3, <1>5, <1>6, <1>7, <1>8, <1>9, <1>10 DEF SameOffer

\* What claiming one late does: its whole guarantee goes to the trader.
LEMMA TrialClaims ==
  ASSUME TypeOK, NEW p \in Positions, AgentOf(p) = a1, TraderOf(p) = SCRIPT_TRADER,
         TradingNow(position[p]), ClaimDefault(p)
  PROVE  /\ ClosedLate(position'[p]) /\ OnlyPosition(p) /\ SameOffer(agent[a1], agent'[a1])
         /\ now >= position[p].deadline /\ position'[p].deadline = position[p].deadline
         /\ agent'[a1].locked_collateral = agent[a1].locked_collateral - Reserved
         /\ agent'[a1].total_collateral = agent[a1].total_collateral - Reserved
         /\ agent'[a1].breach_count = agent[a1].breach_count + 1
         /\ agent'[a1].fees_earned = agent[a1].fees_earned
         /\ wallet'[SCRIPT_TRADER] >= wallet[SCRIPT_TRADER] + Reserved
<1> DEFINE ag == agent[a1]
           pos == position[p]
           slash == pos.locked_collateral
<1>1. /\ ag \in AgentRecord /\ pos \in PositionRecord /\ a1 \in Agents
      /\ wallet \in [Wallets -> Nat] /\ wallet[SCRIPT_TRADER] \in Nat
      /\ position_vault[p] \in Nat /\ SCRIPT_TRADER \in Wallets /\ slash \in Nat
  BY ScriptKeys DEF TypeOK, PositionRecord
<1>2. slash = Reserved /\ pos.fee_paid = 0
  BY DEF TradingNow, Backed
<1>3. /\ agent' = [agent EXCEPT ![a1] =
            [Released(Slashed(ag, slash), pos)
               EXCEPT !.defaulted_positions = @ + 1, !.breach_count = @ + 1]]
      /\ position' = [position EXCEPT ![p].status = "Defaulted", ![p].breach = "MissedDeadline",
                                      ![p].slashed = slash, ![p].closed_at = now]
      /\ wallet' = Credit(wallet, SCRIPT_TRADER, slash + position_vault[p])
      /\ now >= pos.deadline
  BY DEF ClaimDefault, DeadlineReached
<1>4. /\ position'[p].status = "Defaulted" /\ position'[p].breach = "MissedDeadline"
      /\ position'[p].slashed = slash /\ position'[p].fee_paid = pos.fee_paid
      /\ position'[p].deadline = pos.deadline /\ OnlyPosition(p)
  BY <1>1, <1>3 DEF TypeOK, PositionRecord, OnlyPosition
<1>5. /\ agent'[a1].status = ag.status /\ agent'[a1].terms = ag.terms
      /\ agent'[a1].locked_collateral = ag.locked_collateral - slash
      /\ agent'[a1].total_collateral = ag.total_collateral - slash
      /\ agent'[a1].breach_count = ag.breach_count + 1
      /\ agent'[a1].fees_earned = ag.fees_earned
  BY <1>1, <1>3 DEF Released, Slashed, TypeOK, AgentRecord
<1>6. wallet'[SCRIPT_TRADER] = wallet[SCRIPT_TRADER] + (slash + position_vault[p])
  BY <1>1, <1>3 DEF Credit
<1>7. wallet'[SCRIPT_TRADER] >= wallet[SCRIPT_TRADER] + Reserved
  <2> HIDE DEF slash
  <2> QED BY <1>1, <1>2, <1>6
<1> QED BY <1>2, <1>3, <1>4, <1>5, <1>7 DEF ClosedLate, SameOffer

\* Failures stay excused when the script goes on.
LEMMA FailuresStay ==
  ASSUME NEW s \in ScriptRecord, NEW t \in ScriptRecord, s.at \in 1..30, t.at = s.at + 1,
         t.failed = s.failed, NEW A \in PositionRecord, NEW B \in PositionRecord, NEW newA,
         NEW newB, NEW time \in Nat, NEW later \in Nat, TrialFailures(s, A, B, time),
         later >= time, s.at >= 24 => newA.deadline = A.deadline, s.at >= 23 => newB = B
  PROVE  TrialFailures(t, newA, newB, later)
<1> SUFFICES ASSUME NEW check \in t.failed
             PROVE  \/ check = "early claim" /\ t.at \notin 1..23 /\ newA.deadline \in 0..later
                    \/ check = "settled" /\ t.at \notin 1..22 /\ newB.closed_at >= newB.deadline
  BY DEF TrialFailures
<1>1. \/ check = "early claim" /\ s.at \notin 1..23 /\ A.deadline \in 0..time
      \/ check = "settled" /\ s.at \notin 1..22 /\ B.closed_at >= B.deadline
  BY DEF TrialFailures
<1>2. A.deadline \in Nat
  BY DEF PositionRecord
<1>3. s.at \notin 1..23 => s.at >= 24 /\ t.at \notin 1..23
  OBVIOUS
<1>4. s.at \notin 1..22 => s.at >= 23 /\ t.at \notin 1..22
  OBVIOUS
<1>5. A.deadline \in 0..time => A.deadline \in 0..later
  BY <1>2
<1> QED BY <1>1, <1>3, <1>4, <1>5, Zenon

\* The early steps and the last ones know nothing of the accounts.
LEMMA QuietSteps ==
  ASSUME NEW t, NEW ag, NEW A, NEW B, NEW keys, NEW traders, NEW time,
         t.at \in 0..31, t.at \notin 13..29, t.late = {},
         \A i \in t.sent : TrialSends(i, t.at, t.runs),
         ag.status # "Absent" => ag.terms = SCRIPT_TERMS,
         TrialFailures(t, A, B, time)
  PROVE  TrialOK(t, ag, A, B, keys, traders, time)
BY SMT DEF TrialOK, TrialAccounts, TrialWallets

\* The positions of the run.
LEMMA RunPositions ==
  ASSUME ScriptTyped, script.at # 0
  PROVE  /\ RunA(script.runs) \in Positions /\ RunB(script.runs) \in Positions
         /\ RunA(script.runs) # RunB(script.runs)
         /\ AgentOf(RunA(script.runs)) = a1 /\ TraderOf(RunA(script.runs)) = SCRIPT_TRADER
         /\ AgentOf(RunB(script.runs)) = a1 /\ TraderOf(RunB(script.runs)) = SCRIPT_TRADER
<1>1. RunA(script.runs) \in Positions /\ RunB(script.runs) \in Positions
  BY ScriptPositions DEF PosA, PosB, RunA, RunB
<1>2. script.runs \in Nat
  BY ScriptKeys DEF ScriptTyped, ScriptRecord
<1>3. 2 * script.runs - 1 # 2 * script.runs
  BY <1>2
<1> QED BY <1>1, <1>3 DEF RunA, RunB, AgentOf, TraderOf

\* What the operator's calls leave: the agent's terms and all positions.
LEMMA OperatorCallsKeepTerms ==
  ASSUME TypeOK, NEW i \in Sendings, Executed(i),
         i.op \in {"transfer", "depositCollateral", "setExecutor", "publishAgent",
                   "setAccepting"}
  PROVE  /\ position' = position /\ now' = now
         /\ \A a \in Agents : /\ agent'[a].terms = agent[a].terms
                              /\ agent[a].status = "Absent" => agent'[a].status = "Absent"
<1>1. agent \in [Agents -> AgentRecord]
  BY DEF TypeOK
<1>2. CASE i.op = "transfer"
  BY <1>2 DEF Executed, Transfer
<1>3. CASE i.op # "transfer"
  <2>1. i \in Calls
    BY <1>3 DEF Sendings
  <2>2. i.a \in Agents
    BY <1>3, <2>1 DEF Calls
  <2>3. CASE i.op = "depositCollateral"
    <3>1. DepositCollateral(i.a, i.amount)
      BY <2>3 DEF Executed, Executes
    <3> QED BY <1>1, <2>2, <3>1 DEF DepositCollateral, AgentRecord
  <2>4. CASE i.op = "setExecutor"
    <3>1. SetExecutor(i.a, i.key)
      BY <2>4 DEF Executed, Executes
    <3> QED BY <1>1, <2>2, <3>1 DEF SetExecutor, AgentRecord
  <2>5. CASE i.op = "publishAgent"
    <3>1. PublishAgent(i.a)
      BY <2>5 DEF Executed, Executes
    <3> QED BY <1>1, <2>2, <3>1 DEF PublishAgent, AgentRecord
  <2>6. CASE i.op = "setAccepting"
    <3>1. SetAccepting(i.a, i.accepting)
      BY <2>6 DEF Executed, Executes
    <3> QED BY <1>1, <2>2, <3>1 DEF SetAccepting, IsPublished, AgentRecord
  <2> QED BY <1>3, <2>3, <2>4, <2>5, <2>6
<1> QED BY <1>2, <1>3

\* The numbers of the script are numbers.
LEMMA TrialNumbers ==
  ASSUME TypeOK, ScriptTyped
  PROVE  /\ Reserved \in Nat /\ PRINCIPAL \in Nat /\ BAD_RETURN \in Nat /\ now \in Nat
         /\ script.had \in Nat /\ wallet[SCRIPT_KEY] \in Nat /\ wallet[SCRIPT_TRADER] \in Nat
         /\ agent[a1] \in AgentRecord /\ script.before \in AgentRecord
         /\ agent[a1].locked_collateral \in Nat /\ agent[a1].total_collateral \in Nat
         /\ agent[a1].breach_count \in Nat /\ agent[a1].fees_earned \in Nat
         /\ script.before.locked_collateral \in Nat /\ script.before.total_collateral \in Nat
         /\ script.before.breach_count \in Nat /\ script.before.fees_earned \in Nat
<1>1. Reserved \in Nat
  <2>1. SCRIPT_TERMS.collateral_ratio_bps \in Nat /\ PRINCIPAL \in Nat
    BY ScriptKeys DEF AgentTerms
  <2>2. /\ BPS_DENOMINATOR \in Nat \ {0}
        /\ PRINCIPAL * SCRIPT_TERMS.collateral_ratio_bps \in Nat
    BY <2>1, ConstantsAssumption DEF ConstantsAssumption
  <2>3. PRINCIPAL * SCRIPT_TERMS.collateral_ratio_bps + BPS_DENOMINATOR - 1 \in Nat
    BY <2>2
  <2> QED BY <2>2, <2>3 DEF Reserved, RequiredCollateral
<1>2. agent[a1] \in AgentRecord /\ script.before \in AgentRecord /\ script.had \in Nat
  BY ScriptKeys DEF TypeOK, ScriptTyped, ScriptRecord
<1> QED BY <1>1, <1>2, ScriptKeys DEF TypeOK, AgentRecord

\* Where the script lands what it sent, and means it.
LEMMA TrialLands ==
  ASSUME FairTrial, TypeOK, TypeOK', tool = "demo", ScriptTyped, TrialInv,
         NEW i \in script.sent, Executed(i), script.at \notin {23, 28}, NEW t \in ScriptRecord,
         t = [script EXCEPT !.at = script.at + 1, !.sent = {}]
  PROVE  TrialOK(t, agent'[a1], position'[RunA(t.runs)], position'[RunB(t.runs)],
                 wallet'[SCRIPT_KEY], wallet'[SCRIPT_TRADER], now')
<1> DEFINE ag == agent[a1]
           at == script.at
           pA == RunA(script.runs)
           pB == RunB(script.runs)
           A == position[pA]
           B == position[pB]
           keys == wallet[SCRIPT_KEY]
           traders == wallet[SCRIPT_TRADER]
           was == script.before
<1>1. /\ at \in 0..31 /\ script.late = {} /\ TrialSends(i, at, script.runs)
      /\ ag.status # "Absent" => ag.terms = SCRIPT_TERMS
      /\ TrialAccounts(script, ag, A, B) /\ TrialWallets(script, keys, traders)
      /\ TrialFailures(script, A, B, now)
  BY DEF TrialInv, TrialOK
<1>2. /\ script \in ScriptRecord /\ t.at = at + 1 /\ t.sent = {} /\ t.late = {}
      /\ t.runs = script.runs /\ t.failed = script.failed /\ t.had = script.had
      /\ t.before = was
  BY <1>1 DEF ScriptTyped, ScriptRecord
<1>3. at \in 1..3 \/ at = 5 \/ at \in {7, 8, 10, 11, 30} \/ at = 13 \/ at = 14 \/ at = 17
      \/ at = 18 \/ at = 21 \/ at = 26
  BY <1>1 DEF TrialSends
<1>4. /\ pA \in Positions /\ pB \in Positions /\ pA # pB
      /\ AgentOf(pA) = a1 /\ TraderOf(pA) = SCRIPT_TRADER
      /\ AgentOf(pB) = a1 /\ TraderOf(pB) = SCRIPT_TRADER
  <2>1. at # 0
    BY <1>3
  <2> QED BY <2>1, RunPositions
<1>5. /\ A \in PositionRecord /\ B \in PositionRecord /\ now \in Nat /\ i \in Sendings
  BY <1>2, <1>4 DEF TypeOK, ScriptRecord
<1>6. /\ Reserved \in Nat /\ PRINCIPAL \in Nat /\ BAD_RETURN \in Nat
      /\ script.had \in Nat /\ keys \in Nat /\ traders \in Nat
      /\ ag.locked_collateral \in Nat /\ ag.total_collateral \in Nat
      /\ ag.breach_count \in Nat /\ ag.fees_earned \in Nat
      /\ was.locked_collateral \in Nat /\ was.total_collateral \in Nat
      /\ was.breach_count \in Nat /\ was.fees_earned \in Nat
  BY TrialNumbers
<1>7. \A j \in t.sent : TrialSends(j, t.at, t.runs)
  BY <1>2
<1> HIDE DEF ag, at, pA, pB, A, B, keys, traders, was
<1>8. ASSUME now' = now, at >= 24 => position'[pA].deadline = A.deadline,
             at >= 23 => position'[pB] = B
      PROVE  TrialFailures(t, position'[pA], position'[pB], now')
  <2>1. script.at \in 1..30 /\ t.at = script.at + 1 /\ now' \in Nat /\ now' >= now
    BY <1>1, <1>2, <1>3, <1>5, <1>8 DEF at
  <2>2. /\ script.at >= 24 => position'[pA].deadline = A.deadline
        /\ script.at >= 23 => position'[pB] = B
    BY <1>8 DEF at
  <2> QED BY <1>1, <1>2, <1>5, <2>1, <2>2, FailuresStay
<1>9. ASSUME position' = position, now' = now, at \notin 12..28,
             agent'[a1].status # "Absent" => agent'[a1].terms = SCRIPT_TERMS
      PROVE  TrialOK(t, agent'[a1], position'[pA], position'[pB], wallet'[SCRIPT_KEY],
                     wallet'[SCRIPT_TRADER], now')
  <2>1. t.at \in 0..31 /\ t.at \notin 13..29
    BY <1>1, <1>2, <1>3, <1>9
  <2>2. TrialFailures(t, position'[pA], position'[pB], now')
    BY <1>8, <1>9 DEF A, B
  <2> QED BY <1>2, <1>7, <1>9, <2>1, <2>2, QuietSteps
<1>10. ASSUME now' = now, at \in {13, 14, 17, 18, 21, 26}, SameOffer(ag, agent'[a1]),
              at = 26 => position'[pA].deadline = A.deadline /\ position'[pB] = B,
              TrialAccounts(t, agent'[a1], position'[pA], position'[pB]),
              TrialWallets(t, wallet'[SCRIPT_KEY], wallet'[SCRIPT_TRADER])
       PROVE  TrialOK(t, agent'[a1], position'[pA], position'[pB], wallet'[SCRIPT_KEY],
                      wallet'[SCRIPT_TRADER], now')
  <2>1. TrialFailures(t, position'[pA], position'[pB], now')
    <3>1. at >= 23 => at = 26
      BY <1>10
    <3>2. at >= 24 => at = 26
      BY <1>10
    <3> QED BY <1>8, <1>10, <3>1, <3>2
  <2>2. agent'[a1].status # "Absent" => agent'[a1].terms = SCRIPT_TERMS
    BY <1>1, <1>10 DEF SameOffer
  <2>3. t.at \in 0..31
    BY <1>1, <1>2, <1>10
  <2> QED BY <1>2, <1>7, <1>10, <2>1, <2>2, <2>3 DEF TrialOK
<1>11. CASE at \in 1..3 \/ at \in {7, 8, 10, 11, 30}
  <2>1. i.op \in {"transfer", "depositCollateral", "setExecutor", "publishAgent",
                  "setAccepting"}
    BY <1>1, <1>11 DEF TrialSends
  <2>2. /\ position' = position /\ now' = now
        /\ agent'[a1].status # "Absent" => agent'[a1].terms = SCRIPT_TERMS
    BY <1>1, <1>5, <2>1, ScriptKeys, OperatorCallsKeepTerms DEF ag
  <2>3. at \notin 12..28
    BY <1>11
  <2> QED BY <1>2, <1>9, <2>2, <2>3 DEF pA, pB
<1>12. CASE at = 5
  <2>1. i.op = "createAgent" /\ i.a = a1 /\ i.terms = SCRIPT_TERMS
    BY <1>1, <1>12 DEF TrialSends
  <2>2. CreateAgent(a1, SomeIdentity, SCRIPT_TERMS)
    BY <2>1 DEF Executed, Executes
  <2>3. agent'[a1].terms = SCRIPT_TERMS /\ position' = position /\ now' = now
    BY <2>2, ScriptKeys DEF CreateAgent, NewAgent, TypeOK
  <2>4. at \notin 12..28
    BY <1>12
  <2> QED BY <1>2, <1>9, <2>3, <2>4 DEF pA, pB
<1>13. CASE at = 13
  <2>1. i.op = "openPosition" /\ i.p = pA /\ i.amount = PRINCIPAL
    BY <1>1, <1>13 DEF TrialSends, pA
  <2>2. OpenPosition(pA, PRINCIPAL, i.duration)
    BY <2>1 DEF Executed, Executes
  <2>3. ag.terms = SCRIPT_TERMS /\ now' = now
    BY <1>1, <1>4, <2>2 DEF OpenPosition, ag
  <2>4. /\ OpenNow(position'[pA]) /\ SameOffer(ag, agent'[a1])
        /\ Since(agent'[a1], ag, Reserved, 0, 0)
    BY <1>4, <2>2, <2>3, TrialOpens DEF ag
  <2>5. Since(agent'[a1], was, Reserved, 0, 0)
    <3>1. Since(ag, was, 0, 0, 0)
      BY <1>1, <1>13 DEF TrialAccounts, at, was
    <3> QED BY <1>6, <2>4, <3>1 DEF Since
  <2>6. t.at = 14
    BY <1>2, <1>13
  <2>7. TrialAccounts(t, agent'[a1], position'[pA], position'[pB])
    BY <1>2, <2>4, <2>5, <2>6 DEF TrialAccounts
  <2>8. TrialWallets(t, wallet'[SCRIPT_KEY], wallet'[SCRIPT_TRADER])
    BY <2>6 DEF TrialWallets
  <2> QED BY <1>2, <1>10, <1>13, <2>3, <2>4, <2>7, <2>8 DEF pA, pB
<1>14. CASE at = 14
  <2>1. i.op = "openPosition" /\ i.p = pB /\ i.amount = PRINCIPAL
    BY <1>1, <1>14 DEF TrialSends, pB
  <2>2. OpenPosition(pB, PRINCIPAL, i.duration)
    BY <2>1 DEF Executed, Executes
  <2>3. ag.terms = SCRIPT_TERMS /\ now' = now
    BY <1>1, <1>4, <2>2 DEF OpenPosition, ag
  <2>4. /\ OpenNow(position'[pB]) /\ OnlyPosition(pB) /\ SameOffer(ag, agent'[a1])
        /\ Since(agent'[a1], ag, Reserved, 0, 0)
    BY <1>4, <2>2, <2>3, TrialOpens DEF ag
  <2>5. Since(ag, was, Reserved, 0, 0) /\ OpenNow(A)
    BY <1>1, <1>14 DEF TrialAccounts, at, was
  <2>6. Since(agent'[a1], was, 2 * Reserved, 0, 0)
    BY <1>6, <2>4, <2>5 DEF Since
  <2>7. OpenNow(position'[pA])
    BY <1>4, <2>4, <2>5 DEF OnlyPosition, A
  <2>8. t.at = 15
    BY <1>2, <1>14
  <2>9. TrialAccounts(t, agent'[a1], position'[pA], position'[pB])
    BY <1>2, <2>4, <2>6, <2>7, <2>8 DEF TrialAccounts
  <2>10. TrialWallets(t, wallet'[SCRIPT_KEY], wallet'[SCRIPT_TRADER])
    BY <2>8 DEF TrialWallets
  <2> QED BY <1>2, <1>10, <1>14, <2>3, <2>4, <2>9, <2>10 DEF pA, pB
<1>15. CASE at \in {17, 18}
  <2> DEFINE p == IF at = 17 THEN pA ELSE pB
  <2>1. i.op = "drawFunds" /\ i.p = p
    BY <1>1, <1>15 DEF TrialSends, pA, pB
  <2>2. DrawFunds(SCRIPT_KEY, p)
    BY <2>1 DEF Executed, Executes
  <2>3. /\ Since(ag, was, 2 * Reserved, 0, 0) /\ OpenNow(B)
        /\ at = 17 => OpenNow(A) /\ keys >= script.had
        /\ at = 18 => TradingNow(A) /\ keys >= script.had + PRINCIPAL
    BY <1>1, <1>15 DEF TrialAccounts, TrialWallets, at, was
  <2>4. p \in Positions /\ OpenNow(position[p])
    BY <1>4, <1>15, <2>3 DEF A, B
  <2> HIDE DEF p
  <2>5. /\ TradingNow(position'[p]) /\ OnlyPosition(p) /\ agent' = agent
        /\ wallet'[SCRIPT_KEY] = keys + PRINCIPAL
    BY <2>2, <2>4, TrialDraws DEF keys
  <2>6. /\ now' = now /\ SameOffer(ag, agent'[a1])
        /\ Since(agent'[a1], was, 2 * Reserved, 0, 0)
    BY <2>2, <2>3, <2>5 DEF DrawFunds, SameOffer, ag
  <2>7. CASE at = 17
    <3>1. TradingNow(position'[pA]) /\ OpenNow(position'[pB]) /\ t.at = 18
      BY <1>2, <1>4, <2>3, <2>5, <2>7 DEF OnlyPosition, B, p
    <3>2. TrialAccounts(t, agent'[a1], position'[pA], position'[pB])
      BY <1>2, <2>6, <3>1 DEF TrialAccounts
    <3>3. wallet'[SCRIPT_KEY] >= script.had + PRINCIPAL
      BY <1>6, <2>3, <2>5, <2>7
    <3>4. TrialWallets(t, wallet'[SCRIPT_KEY], wallet'[SCRIPT_TRADER])
      BY <1>2, <3>1, <3>3 DEF TrialWallets
    <3> QED BY <1>2, <1>10, <2>6, <2>7, <3>2, <3>4 DEF pA, pB
  <2>8. CASE at = 18
    <3>1. TradingNow(position'[pA]) /\ TradingNow(position'[pB]) /\ t.at = 19
      BY <1>2, <1>4, <2>3, <2>5, <2>8 DEF OnlyPosition, A, p
    <3>2. TrialAccounts(t, agent'[a1], position'[pA], position'[pB])
      BY <1>2, <2>6, <3>1 DEF TrialAccounts
    <3>3. wallet'[SCRIPT_KEY] >= script.had + 2 * PRINCIPAL
      BY <1>6, <2>3, <2>5, <2>8
    <3>4. TrialWallets(t, wallet'[SCRIPT_KEY], wallet'[SCRIPT_TRADER])
      BY <1>2, <3>1, <3>3 DEF TrialWallets
    <3> QED BY <1>2, <1>10, <2>6, <2>8, <3>2, <3>4 DEF pA, pB
  <2> QED BY <1>15, <2>7, <2>8
<1>16. CASE at = 21
  <2>1. i.op = "settlePosition" /\ i.p = pB /\ i.returned = BAD_RETURN
    BY <1>1, <1>16 DEF TrialSends, pB
  <2>2. SettlePosition(SCRIPT_KEY, pB, BAD_RETURN)
    BY <2>1 DEF Executed, Executes
  <2>3. /\ Since(ag, was, 2 * Reserved, 0, 0) /\ TradingNow(A) /\ TradingNow(B)
        /\ traders >= script.had
    BY <1>1, <1>16 DEF TrialAccounts, TrialWallets, at, was
  <2>4. /\ ClosedShort(position'[pB]) /\ OnlyPosition(pB) /\ SameOffer(ag, agent'[a1])
        /\ agent'[a1].locked_collateral = ag.locked_collateral - Reserved
        /\ agent'[a1].total_collateral = ag.total_collateral - Reserved
        /\ agent'[a1].breach_count = ag.breach_count + 1
        /\ agent'[a1].fees_earned = ag.fees_earned
        /\ wallet'[SCRIPT_TRADER] >= traders + (BAD_RETURN + Reserved)
    BY <1>4, <2>2, <2>3, TrialSettles DEF ag, B, traders
  <2>5. now' = now
    BY <2>2 DEF SettlePosition
  <2>6. Since(agent'[a1], was, Reserved, Reserved, 1)
    BY <1>6, <2>3, <2>4 DEF Since
  <2>7. TradingNow(position'[pA])
    BY <1>4, <2>3, <2>4 DEF OnlyPosition, A
  <2>8. t.at = 22
    BY <1>2, <1>16
  <2>9. TrialAccounts(t, agent'[a1], position'[pA], position'[pB])
    BY <1>2, <2>4, <2>6, <2>7, <2>8 DEF TrialAccounts
  <2>10. wallet'[SCRIPT_TRADER] >= script.had + (BAD_RETURN + Reserved)
    <3>1. wallet'[SCRIPT_TRADER] \in Nat
      BY ScriptKeys DEF TypeOK
    <3> QED BY <1>6, <2>3, <2>4, <3>1
  <2>11. TrialWallets(t, wallet'[SCRIPT_KEY], wallet'[SCRIPT_TRADER])
    BY <1>2, <2>8, <2>10 DEF TrialWallets
  <2> QED BY <1>2, <1>10, <1>16, <2>4, <2>5, <2>9, <2>11 DEF pA, pB
<1>17. CASE at = 26
  <2>1. i.op = "claimDefault" /\ i.p = pA
    BY <1>1, <1>17 DEF TrialSends, pA
  <2>2. ClaimDefault(pA)
    BY <2>1 DEF Executed, Executes
  <2>3. A.status = "Trading" /\ now' = now
    BY <2>2 DEF ClaimDefault, A
  <2>4. Since(ag, was, Reserved, Reserved, 1) /\ TradingNow(A) /\ traders >= script.had
    BY <1>1, <1>17, <2>3 DEF TrialAccounts, TrialWallets, at, was
  <2>5. /\ ClosedLate(position'[pA]) /\ OnlyPosition(pA) /\ SameOffer(ag, agent'[a1])
        /\ position'[pA].deadline = A.deadline
        /\ agent'[a1].locked_collateral = ag.locked_collateral - Reserved
        /\ agent'[a1].total_collateral = ag.total_collateral - Reserved
        /\ agent'[a1].breach_count = ag.breach_count + 1
        /\ agent'[a1].fees_earned = ag.fees_earned
        /\ wallet'[SCRIPT_TRADER] >= traders + Reserved
    BY <1>4, <2>2, <2>4, TrialClaims DEF ag, A, traders
  <2>6. Since(agent'[a1], was, 0, 2 * Reserved, 2)
    BY <1>6, <2>4, <2>5 DEF Since
  <2>7. position'[pB] = B /\ t.at = 27
    BY <1>2, <1>4, <1>17, <2>5 DEF OnlyPosition, B
  <2>8. TrialAccounts(t, agent'[a1], position'[pA], position'[pB])
    BY <1>2, <2>5, <2>6, <2>7 DEF TrialAccounts
  <2>9. wallet'[SCRIPT_TRADER] >= script.had + Reserved
    <3>1. wallet'[SCRIPT_TRADER] \in Nat
      BY ScriptKeys DEF TypeOK
    <3> QED BY <1>6, <2>4, <2>5, <3>1
  <2>10. TrialWallets(t, wallet'[SCRIPT_KEY], wallet'[SCRIPT_TRADER])
    BY <1>2, <2>7, <2>9 DEF TrialWallets
  <2> QED BY <1>2, <1>10, <1>17, <2>3, <2>5, <2>7, <2>8, <2>10 DEF pA, pB
<1> QED BY <1>2, <1>3, <1>11, <1>12, <1>13, <1>14, <1>15, <1>16, <1>17 DEF pA, pB

\* Where the script only looks, what it knows of the accounts stays.
LEMMA AccountsStay ==
  ASSUME NEW s \in ScriptRecord, NEW t \in ScriptRecord, NEW ag, NEW A, NEW B,
         s.at \in {15, 16, 19, 20, 22, 23, 24, 25, 27, 28, 29}, t.at = s.at + 1,
         t.before = s.before, TrialAccounts(s, ag, A, B)
  PROVE  TrialAccounts(t, ag, A, B)
<1>1. TradingNow(A) => A.status = "Trading"
  BY DEF TradingNow
<1>2. CASE s.at \in {15, 16, 19, 20}
  <2>1. t.at \in {16, 17, 20, 21} /\ (t.at \in {16, 17} <=> s.at \in {15, 16})
    BY <1>2
  <2> QED BY <1>2, <2>1 DEF TrialAccounts
<1>3. CASE s.at \in {22, 23}
  <2>1. t.at \in {23, 24} /\ Since(ag, s.before, Reserved, Reserved, 1) /\ TradingNow(A)
    BY <1>3 DEF TrialAccounts
  <2> QED BY <1>3, <2>1 DEF TrialAccounts
<1>4. CASE s.at \in {24, 25}
  <2>1. t.at \in {25, 26}
    BY <1>4
  <2> QED BY <1>4, <2>1 DEF TrialAccounts
<1>5. CASE s.at \in {27, 28, 29}
  <2>1. t.at \in {28, 29, 30} /\ (t.at = 28 => s.at = 27) /\ (t.at = 29 => s.at = 28)
    BY <1>5
  <2> QED BY <1>5, <2>1 DEF TrialAccounts
<1> QED BY <1>2, <1>3, <1>4, <1>5

\* What an unchanged ledger and a step to the next place leave to show.
LEMMA TrialGoesOn ==
  ASSUME TypeOK, ScriptTyped, TrialOK(script, agent[a1], position[RunA(script.runs)],
           position[RunB(script.runs)], wallet[SCRIPT_KEY], wallet[SCRIPT_TRADER], now),
         script.at \in 1..30, NEW t \in ScriptRecord, t.at = script.at + 1, t.sent = {},
         t.late = {}, t.runs = script.runs, t.failed = script.failed,
         TrialAccounts(t, agent[a1], position[RunA(script.runs)], position[RunB(script.runs)]),
         TrialWallets(t, wallet[SCRIPT_KEY], wallet[SCRIPT_TRADER])
  PROVE  TrialOK(t, agent[a1], position[RunA(script.runs)], position[RunB(script.runs)],
                 wallet[SCRIPT_KEY], wallet[SCRIPT_TRADER], now)
<1> DEFINE A == position[RunA(script.runs)]
           B == position[RunB(script.runs)]
<1>1. A \in PositionRecord /\ B \in PositionRecord /\ now \in Nat /\ now >= now
      /\ script \in ScriptRecord
  BY RunPositions DEF TypeOK, ScriptTyped
<1>2. TrialFailures(script, A, B, now)
  BY DEF TrialOK
<1> HIDE DEF A, B
<1>3. TrialFailures(t, A, B, now)
  BY <1>1, <1>2, FailuresStay
<1>4. t.at \in 0..31
  BY SMT
<1> QED BY <1>3, <1>4 DEF TrialOK, A, B

\* It remembers what there is.
LEMMA TrialRemembers ==
  ASSUME TypeOK, tool = "demo", ScriptTyped, script' \in ScriptRecord, TrialInv, Remembers
  PROVE  TrialOK(script', agent'[a1], position'[RunA(script'.runs)],
                 position'[RunB(script'.runs)], wallet'[SCRIPT_KEY], wallet'[SCRIPT_TRADER], now')
<1> DEFINE ag == agent[a1]
           A == position[RunA(script.runs)]
           B == position[RunB(script.runs)]
           keys == wallet[SCRIPT_KEY]
           traders == wallet[SCRIPT_TRADER]
           before == IF Step = "before" THEN ag ELSE script.before
           had == wallet[IF Step = "before draw" THEN SCRIPT_KEY ELSE SCRIPT_TRADER]
<1>1. TrialOK(script, ag, A, B, keys, traders, now) /\ UNCHANGED vars
  BY DEF TrialInv, Remembers
<1>2. /\ script.at \in 0..31 /\ script.late = {}
      /\ \A i \in script.sent : TrialSends(i, script.at, script.runs)
      /\ TrialAccounts(script, ag, A, B)
  BY <1>1 DEF TrialOK
<1>3. script.at \in {12, 16, 20, 25}
  BY <1>2, TrialPlace DEF Remembers
<1>4. script.sent = {}
  BY <1>2, <1>3 DEF TrialSends
<1>5. /\ script' = [script EXCEPT !.at = script.at + 1, !.before = before, !.had = had]
      /\ script \in ScriptRecord
  BY DEF Remembers, ScriptTyped, ScriptRecord
<1> HIDE DEF before, had
<1>6. /\ script'.at = script.at + 1 /\ script'.sent = {} /\ script'.late = {}
      /\ script'.runs = script.runs /\ script'.failed = script.failed
  BY <1>2, <1>4, <1>5 DEF ScriptRecord
<1>7. script'.before = before /\ script'.had = had /\ script \in ScriptRecord
  BY <1>5 DEF ScriptRecord
<1>8. keys \in Nat /\ traders \in Nat
  BY TrialNumbers
<1>9. Since(ag, ag, 0, 0, 0)
  <2>1. /\ ag.locked_collateral \in Nat /\ ag.total_collateral \in Nat
        /\ ag.breach_count \in Nat
    BY TrialNumbers
  <2> HIDE DEF ag
  <2> QED BY <2>1 DEF Since
<1>10. TrialAccounts(script', ag, A, B) /\ TrialWallets(script', keys, traders)
  <2>1. CASE script.at = 12
    <3>1. script'.at = 13 /\ script'.before = ag
      <4>1. Step = "before"
        BY <1>2, <2>1, TrialPlan
      <4> QED BY <1>6, <1>7, <2>1, <4>1 DEF before
    <3> HIDE DEF ag, A, B, keys, traders
    <3> QED BY <1>9, <3>1 DEF TrialAccounts, TrialWallets
  <2>2. CASE script.at = 16
    <3>1. Step = "before draw" /\ Step # "before"
      BY <1>2, <2>2, TrialPlan
    <3>2. script'.before = script.before /\ script'.had = keys
      BY <1>7, <3>1, Zenon DEF before, had
    <3>3. script'.at = 17 /\ script.at \in {15, 16, 19, 20, 22, 23, 24, 25, 27, 28, 29}
      BY <1>6, <2>2
    <3> HIDE DEF ag, A, B, keys, traders
    <3>4. TrialAccounts(script', ag, A, B)
      BY <1>2, <1>6, <1>7, <3>2, <3>3, AccountsStay
    <3> QED BY <1>8, <3>2, <3>3, <3>4 DEF TrialWallets
  <2>3. CASE script.at \in {20, 25}
    <3>1. Step \in {"before B", "before A"} /\ Step \notin {"before", "before draw"}
      BY <1>2, <2>3, TrialPlan
    <3>2. script'.before = script.before /\ script'.had = traders
      BY <1>7, <3>1, Zenon DEF before, had
    <3>3. /\ script'.at \in {21, 26}
          /\ script.at \in {15, 16, 19, 20, 22, 23, 24, 25, 27, 28, 29}
      BY <1>6, <2>3
    <3> HIDE DEF ag, A, B, keys, traders
    <3>4. TrialAccounts(script', ag, A, B)
      BY <1>2, <1>6, <1>7, <3>2, <3>3, AccountsStay
    <3> QED BY <1>8, <3>2, <3>3, <3>4 DEF TrialWallets
  <2> QED BY <1>3, <2>1, <2>2, <2>3
<1>11. script.at \in 1..30
  BY <1>3
<1>12. TrialOK(script', ag, A, B, keys, traders, now)
  BY <1>1, <1>6, <1>10, <1>11, TrialGoesOn
<1> QED BY <1>1, <1>6, <1>12 DEF vars

\* What the checks compare is as they expect, unless B was settled at its deadline.
LEMMA ChecksHold ==
  ASSUME TypeOK, tool = "demo", ScriptTyped, TrialInv, Step \in Checked
  PROVE  \/ Holds
         \/ script.at = 22 /\ position[PosB].closed_at >= position[PosB].deadline
<1> DEFINE ag == agent[a1]
           A == position[PosA]
           B == position[PosB]
           keys == wallet[SCRIPT_KEY]
           traders == wallet[SCRIPT_TRADER]
           was == script.before
<1>1. /\ script.at \in 0..31
      /\ TrialAccounts(script, ag, A, B) /\ TrialWallets(script, keys, traders)
  BY DEF TrialInv, TrialOK, PosA, PosB, RunA, RunB
<1>2. script.at \in {15, 19, 22, 27, 29}
  BY <1>1, TrialPlace
<1>3. /\ Reserved \in Nat /\ PRINCIPAL \in Nat /\ BAD_RETURN \in Nat
      /\ script.had \in Nat /\ keys \in Nat /\ traders \in Nat
      /\ ag.locked_collateral \in Nat /\ ag.total_collateral \in Nat
      /\ ag.breach_count \in Nat /\ ag.fees_earned \in Nat
      /\ was.locked_collateral \in Nat /\ was.total_collateral \in Nat
      /\ was.breach_count \in Nat /\ was.fees_earned \in Nat
  BY TrialNumbers
<1> HIDE DEF ag, A, B, keys, traders, was
<1>4. CASE script.at = 15
  <2>1. Since(ag, was, 2 * Reserved, 0, 0)
    BY <1>1, <1>4 DEF TrialAccounts, was
  <2>2. ag.locked_collateral - was.locked_collateral = 2 * Reserved
    BY <1>3, <2>1 DEF Since
  <2>3. Step = "opened"
    BY <1>4, TrialPlan
  <2> QED BY <2>2, <2>3 DEF Holds, ag, was
<1>5. CASE script.at = 19
  <2>1. keys >= script.had + 2 * PRINCIPAL
    BY <1>1, <1>5 DEF TrialWallets
  <2>2. keys - script.had >= 2 * PRINCIPAL
    BY <1>3, <2>1
  <2>3. Step = "drawn"
    BY <1>5, TrialPlan
  <2> QED BY <2>2, <2>3 DEF Holds, keys
<1>6. CASE script.at = 22
  <2>1. ClosedShort(B) /\ traders >= script.had + (BAD_RETURN + Reserved)
    BY <1>1, <1>6 DEF TrialAccounts, TrialWallets
  <2>2. traders - script.had >= BAD_RETURN + Reserved
    BY <1>3, <2>1
  <2>3. CASE B.breach = "Drawdown"
    <3>1. Step = "settled"
      BY <1>6, TrialPlan
    <3>2. Punished(PosB, "Drawdown", "Settled", BAD_RETURN + Reserved)
      BY <2>1, <2>2, <2>3, Zenon DEF Punished, ClosedShort, B, traders
    <3> QED BY <3>1, <3>2 DEF Holds
  <2> QED BY <1>6, <2>1, <2>3 DEF ClosedShort, B
<1>7. CASE script.at = 27
  <2>1. ClosedLate(A) /\ traders >= script.had + Reserved
    BY <1>1, <1>7 DEF TrialAccounts, TrialWallets
  <2>2. traders - script.had >= Reserved
    BY <1>3, <2>1
  <2>3. Step = "claimed"
    BY <1>7, TrialPlan
  <2>4. Punished(PosA, "MissedDeadline", "Defaulted", Reserved)
    BY <2>1, <2>2, Zenon DEF Punished, ClosedLate, A, traders
  <2> QED BY <2>3, <2>4 DEF Holds
<1>8. CASE script.at = 29
  <2>1. Since(ag, was, 0, 2 * Reserved, 2)
    BY <1>1, <1>8 DEF TrialAccounts, was
  <2>2. /\ ag.breach_count = was.breach_count + 2
        /\ ag.total_collateral = was.total_collateral - 2 * Reserved
        /\ ag.locked_collateral = was.locked_collateral /\ ag.fees_earned = was.fees_earned
    BY <1>3, <2>1 DEF Since
  <2>3. Step = "records"
    BY <1>8, TrialPlan
  <2> QED BY <2>2, <2>3 DEF Holds, ag, was
<1> QED BY <1>2, <1>4, <1>5, <1>6, <1>7, <1>8

\* So a check that fails is excused.
LEMMA TrialChecks ==
  ASSUME TypeOK, tool = "demo", ScriptTyped, script' \in ScriptRecord, TrialInv, Checks
  PROVE  TrialOK(script', agent'[a1], position'[RunA(script'.runs)],
                 position'[RunB(script'.runs)], wallet'[SCRIPT_KEY], wallet'[SCRIPT_TRADER], now')
<1> DEFINE ag == agent[a1]
           A == position[RunA(script.runs)]
           B == position[RunB(script.runs)]
           keys == wallet[SCRIPT_KEY]
           traders == wallet[SCRIPT_TRADER]
           failed == IF Holds THEN script.failed ELSE script.failed \cup {Step}
<1>1. TrialOK(script, ag, A, B, keys, traders, now) /\ UNCHANGED vars
  BY DEF TrialInv, Checks
<1>2. /\ script.at \in 0..31 /\ script.late = {}
      /\ \A i \in script.sent : TrialSends(i, script.at, script.runs)
      /\ TrialAccounts(script, ag, A, B) /\ TrialFailures(script, A, B, now)
      /\ ag.status # "Absent" => ag.terms = SCRIPT_TERMS
  BY <1>1 DEF TrialOK
<1>3. script.at \in {15, 19, 22, 27, 29}
  BY <1>2, TrialPlace DEF Checks
<1>4. script.sent = {}
  BY <1>2, <1>3 DEF TrialSends
<1>5. script' = [script EXCEPT !.at = script.at + 1, !.failed = failed] /\ script \in ScriptRecord
  BY DEF Checks, ScriptTyped, ScriptRecord
<1>6. Holds \/ (script.at = 22 /\ B.closed_at >= B.deadline)
  BY ChecksHold DEF Checks, PosB, RunB
<1>7. Holds => failed = script.failed
  OBVIOUS
<1>8. ~Holds => failed = script.failed \cup {Step}
  OBVIOUS
<1> HIDE DEF failed, ag, A, B, keys, traders
<1>9. /\ script'.at = script.at + 1 /\ script'.sent = {} /\ script'.late = {}
      /\ script'.runs = script.runs /\ script'.failed = failed /\ script'.had = script.had
      /\ script'.before = script.before /\ script \in ScriptRecord
  BY <1>2, <1>4, <1>5 DEF ScriptRecord
<1>10. TrialAccounts(script', ag, A, B)
  <2>1. script.at \in {15, 16, 19, 20, 22, 23, 24, 25, 27, 28, 29}
    BY <1>3
  <2> QED BY <1>2, <1>9, <2>1, AccountsStay
<1>11. TrialWallets(script', keys, traders)
  <2>1. script'.at \in {16, 20, 23, 28, 30}
    BY <1>3, <1>9
  <2> QED BY <2>1 DEF TrialWallets
<1>12. CASE Holds
  <2>1. script.at \in 1..30
    BY <1>3
  <2>2. TrialOK(script', ag, A, B, keys, traders, now)
    BY <1>1, <1>7, <1>9, <1>10, <1>11, <1>12, <2>1, TrialGoesOn DEF ag, A, B, keys, traders
  <2> QED BY <1>1, <1>9, <2>2 DEF vars, ag, A, B, keys, traders
<1>13. CASE ~Holds
  <2>1. script.at = 22 /\ script'.at = 23 /\ B.closed_at >= B.deadline
    BY <1>6, <1>9, <1>13
  <2>2. Step = "settled"
    BY <2>1, TrialPlan
  <2>3. script.failed = {}
    <3>1. script.at \in 1..23 /\ script.at \in 1..22
      BY <2>1
    <3> QED BY <1>2, <3>1, Zenon DEF TrialFailures
  <2>4. script'.failed = {"settled"}
    BY <1>8, <1>9, <1>13, <2>2, <2>3
  <2>5. script'.at \notin 1..22 /\ script'.at \in 0..31
    BY <2>1
  <2>6. TrialFailures(script', A, B, now)
    BY <2>1, <2>4, <2>5, Zenon DEF TrialFailures
  <2>7. \A i \in script'.sent : TrialSends(i, script'.at, script'.runs)
    BY <1>9
  <2>8. TrialOK(script', ag, A, B, keys, traders, now)
    BY <1>2, <1>9, <1>10, <1>11, <2>5, <2>6, <2>7 DEF TrialOK
  <2> QED BY <1>1, <1>9, <2>8 DEF vars, ag, A, B, keys, traders
<1> QED BY <1>12, <1>13

\* What it expects to be refused is refused, unless the deadline has passed by then.
LEMMA TrialIsRefused ==
  ASSUME TypeOK, TypeOK', tool = "demo", ScriptTyped, script' \in ScriptRecord, TrialInv,
         IsRefused
  PROVE  TrialOK(script', agent'[a1], position'[RunA(script'.runs)],
                 position'[RunB(script'.runs)], wallet'[SCRIPT_KEY], wallet'[SCRIPT_TRADER], now')
<1> DEFINE ag == agent[a1]
           pA == RunA(script.runs)
           pB == RunB(script.runs)
           A == position[pA]
           B == position[pB]
           keys == wallet[SCRIPT_KEY]
           traders == wallet[SCRIPT_TRADER]
<1>1. TrialOK(script, ag, A, B, keys, traders, now)
  BY DEF TrialInv
<1>2. /\ script.at \in 0..31 /\ script.late = {}
      /\ \A i \in script.sent : TrialSends(i, script.at, script.runs)
      /\ TrialAccounts(script, ag, A, B) /\ TrialFailures(script, A, B, now)
      /\ ag.status # "Absent" => ag.terms = SCRIPT_TERMS
  BY <1>1 DEF TrialOK
<1>3. script.at \in {23, 28}
  BY <1>2, TrialPlace DEF IsRefused
<1>4. PICK i \in script.sent :
        \/ /\ UNCHANGED vars
           /\ script' = [script EXCEPT !.at = script.at + 1, !.sent = {}]
        \/ /\ Executed(i)
           /\ script' = [script EXCEPT !.at = script.at + 1, !.sent = {},
                                       !.failed = script.failed \cup {Step}]
  BY DEF IsRefused, ScriptTyped, ScriptRecord
<1>5. /\ script'.at = script.at + 1 /\ script'.sent = {} /\ script'.late = {}
      /\ script'.runs = script.runs /\ script'.had = script.had
      /\ script'.before = script.before /\ script \in ScriptRecord
  BY <1>2, <1>4 DEF ScriptTyped, ScriptRecord
<1>6. /\ TrialWallets(script', keys, traders)
      /\ TrialWallets(script', wallet'[SCRIPT_KEY], wallet'[SCRIPT_TRADER])
  <2>1. script'.at \in {24, 29}
    BY <1>3, <1>5
  <2> QED BY <2>1 DEF TrialWallets
<1>7. /\ pA \in Positions /\ pB \in Positions /\ pA # pB
      /\ AgentOf(pA) = a1 /\ TraderOf(pA) = SCRIPT_TRADER
  <2>1. script.at # 0
    BY <1>3
  <2> QED BY <2>1, RunPositions
<1> HIDE DEF ag, A, B, keys, traders, pA, pB
<1>8. CASE UNCHANGED vars /\ script' = [script EXCEPT !.at = script.at + 1, !.sent = {}]
  <2>1. /\ script.at \in {15, 16, 19, 20, 22, 23, 24, 25, 27, 28, 29}
        /\ script.at \in 1..30
    BY <1>3
  <2>2. TrialAccounts(script', ag, A, B)
    BY <1>2, <1>5, <2>1, AccountsStay
  <2>3. script'.failed = script.failed
    BY <1>5, <1>8 DEF ScriptRecord
  <2>4. TrialOK(script', ag, A, B, keys, traders, now)
    BY <1>1, <1>5, <1>6, <2>1, <2>2, <2>3, TrialGoesOn DEF ag, A, B, keys, traders, pA, pB
  <2> QED BY <1>5, <1>8, <2>4 DEF vars, ag, A, B, keys, traders, pA, pB
<1>9. ASSUME Executed(i), script' = [script EXCEPT !.at = script.at + 1, !.sent = {},
                                                   !.failed = script.failed \cup {Step}]
      PROVE  TrialOK(script', agent'[a1], position'[pA], position'[pB], wallet'[SCRIPT_KEY],
                     wallet'[SCRIPT_TRADER], now')
  <2>1. script.at # 28
    <3> SUFFICES ASSUME script.at = 28 PROVE FALSE
      OBVIOUS
    <3>1. i.op = "settlePosition" /\ i.p = pA
      BY <1>2 DEF TrialSends, pA
    <3>2. SettlePosition(SCRIPT_KEY, pA, i.returned)
      BY <1>9, <3>1 DEF Executed, Executes
    <3>3. A.status \in {"Open", "Trading"}
      BY <3>2 DEF SettlePosition, IsLive, A
    <3>4. ClosedLate(A)
      BY <1>2 DEF TrialAccounts
    <3> QED BY <3>3, <3>4 DEF ClosedLate
  <2>2. script.at = 23 /\ script'.at = 24
    BY <1>3, <1>5, <2>1
  <2>3. i.op = "claimDefault" /\ i.p = pA /\ TradingNow(A)
    <3>1. i.op = "claimDefault" /\ i.p = pA
      BY <1>2, <2>2 DEF TrialSends, pA
    <3>2. TradingNow(A)
      BY <1>2, <2>2 DEF TrialAccounts
    <3> QED BY <3>1, <3>2
  <2>4. ClaimDefault(pA)
    BY <1>9, <2>3 DEF Executed, Executes
  <2>5. /\ ClosedLate(position'[pA]) /\ OnlyPosition(pA) /\ SameOffer(ag, agent'[a1])
        /\ now >= A.deadline /\ position'[pA].deadline = A.deadline
    BY <1>7, <2>3, <2>4, TrialClaims DEF ag, A
  <2>6. position'[pB] = B /\ now' = now /\ position'[pA].status # "Trading"
    BY <1>7, <2>4, <2>5 DEF OnlyPosition, ClosedLate, ClaimDefault, B
  <2>7. TrialAccounts(script', agent'[a1], position'[pA], position'[pB])
    BY <2>2, <2>6 DEF TrialAccounts
  <2>8. TrialFailures(script', position'[pA], position'[pB], now')
    <3>1. script'.failed = script.failed \cup {"early claim"}
      <4>1. Step = "early claim"
        BY <1>2, <2>2, TrialPlan
      <4>2. script'.failed = script.failed \cup {Step}
        BY <1>5, <1>9 DEF ScriptRecord
      <4> QED BY <4>1, <4>2, Zenon
    <3>2. script.at \in 1..23 /\ script'.at \notin 1..23 /\ script'.at \notin 1..22
      BY <2>2
    <3>3. \A check \in script.failed : check = "settled" /\ B.closed_at >= B.deadline
      BY <1>2, <3>2, Zenon DEF TrialFailures
    <3>4. position'[pA].deadline \in 0..now'
      <4>1. A.deadline \in Nat /\ now \in Nat
        BY <1>7 DEF TypeOK, PositionRecord, A
      <4> QED BY <2>5, <2>6, <4>1
    <3> QED BY <2>6, <3>1, <3>2, <3>3, <3>4, Zenon DEF TrialFailures
  <2>9. /\ agent'[a1].status # "Absent" => agent'[a1].terms = SCRIPT_TERMS
        /\ \A j \in script'.sent : TrialSends(j, script'.at, script'.runs)
        /\ script'.at \in 0..31
    BY <1>2, <1>5, <2>2, <2>5 DEF SameOffer
  <2> QED BY <1>5, <1>6, <2>7, <2>8, <2>9 DEF TrialOK
<1> QED BY <1>4, <1>5, <1>8, <1>9 DEF pA, pB

\* Every step of the script keeps the invariant, if nothing lands that was given up.
LEMMA ScriptKeepsTrial ==
  ASSUME FairTrial, TypeOK, TypeOK', tool = "demo", ScriptTyped, script' \in ScriptRecord,
         TrialInv, ScriptStep
  PROVE  TrialOK(script', agent'[a1], position'[RunA(script'.runs)],
                 position'[RunB(script'.runs)], wallet'[SCRIPT_KEY], wallet'[SCRIPT_TRADER], now')
<1> DEFINE ag == agent[a1]
           A == position[RunA(script.runs)]
           B == position[RunB(script.runs)]
           at == script.at
           Kept == TrialOK(script', agent'[a1], position'[RunA(script'.runs)],
                           position'[RunB(script'.runs)], wallet'[SCRIPT_KEY],
                           wallet'[SCRIPT_TRADER], now')
<1>1. /\ at \in 0..31 /\ script.late = {} /\ script \in ScriptRecord
      /\ \A i \in script.sent : TrialSends(i, at, script.runs)
      /\ ag.status # "Absent" => ag.terms = SCRIPT_TERMS
      /\ TrialFailures(script, A, B, now)
      /\ TrialOK(script, ag, A, B, wallet[SCRIPT_KEY], wallet[SCRIPT_TRADER], now)
  BY DEF TrialInv, TrialOK, ScriptTyped
<1>2. at \in {0, 4, 6, 9, 24, 31} => script.sent = {}
  BY <1>1 DEF TrialSends
<1>3. ASSUME UNCHANGED vars, script'.late = {}, script'.sent = {},
             script'.at \in 0..31, script'.at \notin 13..29,
             TrialFailures(script', position'[RunA(script'.runs)],
                           position'[RunB(script'.runs)], now')
      PROVE  Kept
  <2>1. agent'[a1].status # "Absent" => agent'[a1].terms = SCRIPT_TERMS
    BY <1>1, <1>3 DEF vars
  <2>2. \A i \in script'.sent : TrialSends(i, script'.at, script'.runs)
    BY <1>3
  <2> QED BY <1>3, <2>1, <2>2, QuietSteps
<1>4. ASSUME UNCHANGED vars, at \in 1..30, script'.at = at + 1, script'.failed = script.failed,
             script'.runs = script.runs
      PROVE  TrialFailures(script', position'[RunA(script'.runs)],
                           position'[RunB(script'.runs)], now')
  <2>1. A \in PositionRecord /\ B \in PositionRecord /\ now \in Nat /\ now' \in Nat
    BY <1>4, RunPositions DEF TypeOK
  <2>2. /\ position'[RunA(script'.runs)] = A /\ position'[RunB(script'.runs)] = B
        /\ now' >= now
    BY <1>4, <2>1 DEF vars
  <2> HIDE DEF A, B
  <2> QED BY <1>1, <1>4, <2>1, <2>2, FailuresStay DEF at
<1>5. CASE Starts
  <2>1. at \in {0, 31} /\ UNCHANGED vars
    BY <1>1, <1>5, TrialPlace DEF Starts, Running
  <2>2. /\ script'.at = 1 /\ script'.late = {} /\ script'.sent = {} /\ script'.failed = {}
    BY <1>1, <1>2, <1>5, <2>1 DEF Starts, ScriptRecord
  <2>3. TrialFailures(script', position'[RunA(script'.runs)], position'[RunB(script'.runs)],
                      now')
    BY <2>2 DEF TrialFailures
  <2> QED BY <1>3, <2>1, <2>2, <2>3
<1>6. CASE Fetches
  <2>1. at \in {4, 6, 9} /\ UNCHANGED vars
    BY <1>1, <1>6, TrialPlace DEF Fetches
  <2>2. /\ script'.at = at + 1 /\ script'.late = {} /\ script'.sent = {}
        /\ script'.failed = script.failed /\ script'.runs = script.runs
    BY <1>1, <1>2, <1>6, <2>1 DEF Fetches, ScriptRecord
  <2>3. at \in 1..30 /\ script'.at \in 0..31 /\ script'.at \notin 13..29
    BY <2>1, <2>2
  <2> QED BY <1>3, <1>4, <2>1, <2>2, <2>3
<1>7. CASE Sends
  <2>1. script' = [script EXCEPT !.sent = Wants] /\ UNCHANGED vars
    BY <1>7 DEF Sends
  <2>2. /\ script'.at = at /\ script'.late = {} /\ script'.sent = Wants
        /\ script'.failed = script.failed /\ script'.runs = script.runs
        /\ script'.had = script.had /\ script'.before = script.before
    BY <1>1, <2>1 DEF ScriptRecord
  <2>3. \A i \in script'.sent : TrialSends(i, script'.at, script'.runs)
    BY <1>1, <2>2, TrialWants
  <2>4. TrialOK(script', ag, A, B, wallet[SCRIPT_KEY], wallet[SCRIPT_TRADER], now)
    <3> HIDE DEF ag, A, B
    <3>1. /\ TrialAccounts(script', ag, A, B) <=> TrialAccounts(script, ag, A, B)
          /\ TrialWallets(script', wallet[SCRIPT_KEY], wallet[SCRIPT_TRADER])
               <=> TrialWallets(script, wallet[SCRIPT_KEY], wallet[SCRIPT_TRADER])
          /\ TrialFailures(script', A, B, now) <=> TrialFailures(script, A, B, now)
      BY <2>2 DEF TrialAccounts, TrialWallets, TrialFailures, at
    <3> QED BY <1>1, <2>2, <2>3, <3>1 DEF TrialOK
  <2> QED BY <2>1, <2>2, <2>4 DEF vars
<1>8. CASE Skips
  <2>1. script' = [script EXCEPT !.at = at + 1] /\ UNCHANGED vars
    BY <1>1, <1>8 DEF Skips, ScriptRecord
  <2>2. /\ script'.at = at + 1 /\ script'.late = {} /\ script'.sent = {}
        /\ script'.failed = script.failed /\ script'.runs = script.runs
    BY <1>1, <1>8, <2>1 DEF ScriptRecord, Skips
  <2>3. at \in {1, 2, 3, 5, 7, 8, 10, 11, 30}
    <3>1. Step \notin {"", "done", "fetch", "wait"} \cup Remembered \cup Checked /\ Wants = {}
      BY <1>8 DEF Skips, Running
    <3>2. /\ at \notin {0, 31} /\ at \notin {4, 6, 9} /\ at # 24
      BY <1>1, <3>1, TrialPlan
    <3>3. at \notin {12, 16, 20, 25}
      BY <1>1, <3>1, TrialPlan DEF Remembered
    <3>4. at \notin {15, 19, 22, 27, 29}
      BY <1>1, <3>1, TrialPlan DEF Checked
    <3>5. at \notin {13, 14, 17, 18, 21, 23, 26, 28}
      BY <1>1, <3>1, TrialWants
    <3> QED BY <1>1, <3>2, <3>3, <3>4, <3>5
  <2>4. at \in 1..30 /\ script'.at \in 0..31 /\ script'.at \notin 13..29
    BY <2>2, <2>3
  <2> QED BY <1>3, <1>4, <2>1, <2>2, <2>4
<1>9. CASE SentLands
  <2>1. PICK i \in script.sent : Executed(i)
    BY <1>9 DEF SentLands
  <2>2. script' = [script EXCEPT !.at = script.at + 1, !.sent = {}]
    BY <1>1, <1>9 DEF SentLands, ScriptRecord
  <2>3. script.at \notin {23, 28}
    BY <1>1, <1>9, TrialPlace DEF SentLands
  <2> QED BY <2>1, <2>2, <2>3, TrialLands
<1>10. CASE Stops
  <2>1. script' = [script EXCEPT !.at = 0, !.sent = {}, !.late = script.late] /\ UNCHANGED vars
    BY <1>10 DEF Stops, FairTrial
  <2>2. /\ script'.at = 0 /\ script'.late = {} /\ script'.sent = {}
        /\ script'.failed = script.failed /\ script'.runs = script.runs
    BY <1>1, <2>1 DEF ScriptRecord
  <2>3. TrialFailures(script', A, B, now)
    <3> HIDE DEF A, B
    <3>1. script'.at \notin 1..23 /\ script'.at \notin 1..22
      BY <2>2
    <3> QED BY <1>1, <2>2, <3>1, Zenon DEF TrialFailures
  <2>4. script'.at \in 0..31 /\ script'.at \notin 13..29
    BY <2>2
  <2>5. TrialFailures(script', position'[RunA(script'.runs)], position'[RunB(script'.runs)],
                      now')
    BY <2>1, <2>2, <2>3 DEF vars
  <2> QED BY <1>3, <2>1, <2>2, <2>4, <2>5
<1>11. CASE Remembers
  BY <1>11, TrialRemembers
<1>12. CASE Checks
  BY <1>12, TrialChecks
<1>13. CASE IsRefused
  BY <1>13, TrialIsRefused
<1>14. CASE Waits
  <2>1. at = 24 /\ UNCHANGED vars /\ script' = [script EXCEPT !.at = at + 1]
    BY <1>1, <1>14, TrialPlace DEF Waits, ScriptRecord
  <2>2. /\ script'.at = at + 1 /\ script'.late = {} /\ script'.sent = {}
        /\ script'.failed = script.failed /\ script'.runs = script.runs
        /\ script'.before = script.before
    BY <1>1, <1>2, <2>1 DEF ScriptRecord
  <2>3. TrialAccounts(script', ag, A, B)
    <3>1. TrialAccounts(script, ag, A, B)
      BY <1>1 DEF TrialOK
    <3>2. script.at \in {15, 16, 19, 20, 22, 23, 24, 25, 27, 28, 29}
      BY <2>1
    <3> HIDE DEF ag, A, B
    <3> QED BY <1>1, <2>2, <3>1, <3>2, AccountsStay DEF at
  <2>4. TrialWallets(script', wallet[SCRIPT_KEY], wallet[SCRIPT_TRADER])
    BY <2>1, <2>2 DEF TrialWallets
  <2>5. script.at \in 1..30
    BY <2>1
  <2>6. TrialOK(script', ag, A, B, wallet[SCRIPT_KEY], wallet[SCRIPT_TRADER], now)
    BY <1>1, <2>2, <2>3, <2>4, <2>5, TrialGoesOn
  <2> QED BY <2>1, <2>2, <2>6 DEF vars
<1>15. ~LateLands
  BY <1>1 DEF LateLands
<1> QED BY <1>5, <1>6, <1>7, <1>8, <1>9, <1>10, <1>11, <1>12, <1>13, <1>14, <1>15
        DEF ScriptStep

\* It holds at first: the agent is not there yet, and no check has failed.
LEMMA InitTrial == FairTrial /\ ToolsInit => TrialInv
<1> SUFFICES ASSUME FairTrial, ToolsInit
             PROVE  TrialOK(script, agent[a1], position[RunA(script.runs)],
                            position[RunB(script.runs)], wallet[SCRIPT_KEY],
                            wallet[SCRIPT_TRADER], now)
  BY DEF TrialInv
<1>1. agent[a1] \in AgentAtStart(a1)
  BY ScriptKeys DEF ToolsInit, ConsoleInit, Init
<1>2. agent[a1].status = "Absent"
  BY <1>1 DEF AgentAtStart, AbsentAgent, NewAgent, FairTrial
<1>3. script.at = 0 /\ script.late = {} /\ script.sent = {} /\ script.failed = {}
  BY DEF ToolsInit
<1>4. TrialFailures(script, position[RunA(script.runs)], position[RunB(script.runs)], now)
  BY <1>3 DEF TrialFailures
<1>5. /\ script.at \in 0..31 /\ script.at \notin 13..29
      /\ \A i \in script.sent : TrialSends(i, script.at, script.runs)
  BY <1>3
<1> QED BY <1>2, <1>3, <1>4, <1>5, QuietSteps

\* Nobody else acts, and time only excuses more.
LEMMA NextTrial ==
  FairTrial /\ ToolsInv /\ ToolsInv' /\ TrialInv /\ [ToolsNext]_toolsVars => TrialInv'
<1> SUFFICES ASSUME FairTrial, ToolsInv, ToolsInv', TrialInv, [ToolsNext]_toolsVars,
                    tool' = "demo"
             PROVE  TrialOK(script', agent'[a1], position'[RunA(script'.runs)],
                            position'[RunB(script'.runs)], wallet'[SCRIPT_KEY],
                            wallet'[SCRIPT_TRADER], now')
  BY DEF TrialInv, a1, RunA, RunB
<1>1. /\ tool = "demo" /\ TypeOK /\ TypeOK' /\ ScriptTyped /\ script' \in ScriptRecord
  BY DEF ToolsNext, toolsVars, ToolsInv, ScriptTyped
<1>2. CASE ToolsNext /\ Script
  BY <1>1, <1>2, ScriptKeepsTrial DEF Script
<1>3. ASSUME UNCHANGED <<agent, position, wallet, script>>, now' = now \/ now' = now + 1
      PROVE  TrialOK(script', agent'[a1], position'[RunA(script'.runs)],
                     position'[RunB(script'.runs)], wallet'[SCRIPT_KEY],
                     wallet'[SCRIPT_TRADER], now')
  <2> DEFINE A == position[RunA(script.runs)]
             B == position[RunB(script.runs)]
  <2>1. TrialOK(script, agent[a1], A, B, wallet[SCRIPT_KEY], wallet[SCRIPT_TRADER], now)
    BY <1>1 DEF TrialInv
  <2>2. TrialFailures(script, A, B, now')
    <3>1. now \in Nat /\ TrialFailures(script, A, B, now)
      BY <1>1, <2>1 DEF TypeOK, TrialOK
    <3> HIDE DEF A, B
    <3>2. A.deadline \in 0..now => A.deadline \in 0..now'
      BY <1>3, <3>1
    <3> QED BY <3>1, <3>2, Zenon DEF TrialFailures
  <2> HIDE DEF A, B
  <2>3. TrialOK(script, agent[a1], A, B, wallet[SCRIPT_KEY], wallet[SCRIPT_TRADER], now')
    BY <2>1, <2>2 DEF TrialOK
  <2> QED BY <1>3, <2>3 DEF A, B
<1>4. CASE ToolsNext /\ ~Script
  BY <1>1, <1>3, <1>4 DEF ToolsNext, Alone, Tick
<1>5. CASE UNCHANGED toolsVars
  BY <1>3, <1>5 DEF toolsVars, consoleVars, vars
<1> QED BY <1>2, <1>4, <1>5

\* Wherever its earlier runs stopped and whatever they left, the bad operator is punished as
\* the script expects (bad-operator.ts): settled short or not at all, its guarantee goes to
\* the trader and both breaches to its record, and a check fails only if its step came
\* after the deadline; provided that the return is as bad as the script's and that nothing
\* lands which a stopped run had given up.
THEOREM BadOperatorIsPunished == FairTrial => (ToolsSpec => []MisconductIsPunished)
<1> SUFFICES ASSUME FairTrial PROVE ToolsSpec => []MisconductIsPunished
  OBVIOUS
<1>1. ToolsInv /\ TrialInv => MisconductIsPunished
  <2> SUFFICES ASSUME ToolsInv, TrialInv, tool = "demo", NEW check \in script.failed
               PROVE  \/ check = "early claim" /\ DeadlineReached(PosA)
                      \/ check = "settled" /\ position[PosB].closed_at >= position[PosB].deadline
    BY DEF MisconductIsPunished
  <2>1. TrialFailures(script, position[PosA], position[PosB], now)
    BY DEF TrialInv, TrialOK, PosA, PosB, RunA, RunB
  <2>2. now \in Nat
    BY DEF ToolsInv, TypeOK
  <2>3. position[PosA].deadline \in 0..now => now >= position[PosA].deadline
    BY <2>2
  <2> QED BY <2>1, <2>3, Zenon DEF TrialFailures, DeadlineReached
<1>2. ToolsInit => TrialInv
  BY InitTrial
<1>3. ToolsInv /\ ToolsInv' /\ TrialInv /\ [ToolsNext]_toolsVars => TrialInv'
  BY NextTrial
<1> QED BY <1>1, <1>2, <1>3, ToolsInvariant, PTL DEF ToolsSpec
=============================================================================
