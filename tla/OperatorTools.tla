----------------------------- MODULE OperatorTools -----------------------------
(***************************************************************************)
(* What acts on agents from outside the pages: the commands of `poa`       *)
(* (sdk/src/cli.ts), the script that sets agents up (agent/src/setup.ts),  *)
(* and the one that plays a bad operator and checks that it is punished    *)
(* (agent/src/bad-operator.ts).                                            *)
(*                                                                         *)
(* In a behaviour an operator works with one `tool`: the pages, a terminal *)
(* for commands, or one of the scripts; traders use the pages throughout.  *)
(* A script sends one transaction after the other; it may be killed or     *)
(* fail at any step, and is then run again from the start.                 *)
(***************************************************************************)
EXTENDS Console

CONSTANTS
  BOND, SPARE, GAS,         \* what setup aims at: bond, operator's spare SOL, trading key's
  FUNDER, SCRIPT_KEY, SCRIPT_TRADER,   \* the wallets of the scripts (keys.ts)
  SCRIPT_TERMS,
  PRINCIPAL, SHORT_DEADLINE, LONG_DEADLINE, BAD_RETURN,   \* of the bad operator
  MAX_RUNS,                 \* bound on the runs of a script
  LATE_LANDINGS,            \* whether a transaction may land after its script gave up on it
  Horizon                   \* bound on the clock, for each tool

Tools == {"pages", "terminal", "setup", "demo"}

ASSUME ToolsAssumption ==
  /\ {BOND, SPARE, GAS, PRINCIPAL, BAD_RETURN, MAX_RUNS} \subseteq Nat
  /\ {FUNDER, SCRIPT_KEY} \subseteq Wallets /\ SCRIPT_TRADER \in Traders
  /\ SCRIPT_TERMS \in AgentTerms
  /\ {SHORT_DEADLINE, LONG_DEADLINE}
       \subseteq SCRIPT_TERMS.min_duration_secs..SCRIPT_TERMS.max_duration_secs
  /\ LATE_LANDINGS \in BOOLEAN
  /\ 1 \in Agents
  /\ 1..(2 * MAX_RUNS) \subseteq Nonces
  /\ Horizon \in [Tools -> 0..MAX_NOW]

VARIABLES tool, script

toolsVars == <<consoleVars, tool, script>>

a1 == 1                     \* the scripts' agent_id, and so its address

\* The steps of main(), one for each await that sends, reads or checks.
Plan ==
  IF tool = "setup"
  THEN <<"fetch", "fund operator", "fund key", "create", "deposit", "fetch", "bind",
         "publish", "done">>
  ELSE <<"fund operator", "fund key", "fund trader", "fetch", "create", "fetch", "deposit",
         "bind", "fetch", "publish", "resume", "before", "open A", "open B", "opened",
         "before draw", "draw A", "draw B", "drawn", "before B", "settle B", "settled",
         "early claim", "wait", "before A", "claim A", "claimed", "late settle",
         "records", "pause", "done">>

ToolsInit ==
  /\ ConsoleInit
  /\ tool \in Tools
  /\ script = [at |-> 0, runs |-> 0, acc |-> AbsentAgent(a1), need |-> 0, sent |-> {},
               late |-> {}, before |-> AbsentAgent(a1), had |-> 0, failed |-> {}]

\* A script that was stopped, or not started yet, is at no step.
Step == IF script.at = 0 THEN "" ELSE Plan[script.at]
Running == Step \notin {"", "done"}
PosA == <<a1, SCRIPT_TRADER, 2 * script.runs - 1>>    \* its nonce is the time of its open
PosB == <<a1, SCRIPT_TRADER, 2 * script.runs>>
Reserved == RequiredCollateral(PRINCIPAL, SCRIPT_TERMS.collateral_ratio_bps)
-----------------------------------------------------------------------------
(* poa *)

AgentCommand(a) ==
  \/ \E t \in Terms : CreateAgent(a, SomeIdentity, t)
  \/ \E amount \in Amounts : DepositCollateral(a, amount) \/ WithdrawCollateral(a, amount)
  \/ \E key \in ExecutorKeys : SetExecutor(a, key)
  \/ PublishAgent(a)
  \/ \E accepting \in BOOLEAN : SetAccepting(a, accepting)

DevCommand(p) ==
  \/ /\ p[3] \in PageNonces
     /\ \E amount \in Amounts, duration \in MIN_POSITION_DURATION..MAX_POSITION_DURATION :
          OpenPosition(p, amount, duration)
  \/ CancelPosition(p)

\* A command sends one instruction; if the program rejects it nothing happens.
Command ==
  /\ \E g \in OperatorPages : CountClick(g)
  /\ (\E a \in Agents : AgentCommand(a)) \/ (\E p \in Positions : DevCommand(p))
  /\ UNCHANGED page
-----------------------------------------------------------------------------
(* What the scripts send *)

When(condition, i) == IF condition THEN {i} ELSE {}
TopUp(to, target) ==
  When(wallet[to] < target, [op |-> "transfer", to |-> to, amount |-> target - wallet[to]])

\* The transaction of a step; none where there is nothing left for it to do.
Wants ==
  CASE Step = "fund operator" -> TopUp(OperatorOf[a1], script.need + SPARE)
    [] Step = "fund key"      -> TopUp(SCRIPT_KEY, GAS)
    [] Step = "fund trader"   -> TopUp(SCRIPT_TRADER, 2 * PRINCIPAL + SPARE)
    [] Step = "create"  -> When(script.acc.status = "Absent",
                                [op |-> "createAgent", a |-> a1, terms |-> SCRIPT_TERMS])
    [] Step = "deposit" -> When(script.need > 0,
                                [op |-> "depositCollateral", a |-> a1, amount |-> script.need])
    [] Step = "bind"    -> When(script.acc.executor # SCRIPT_KEY,
                                [op |-> "setExecutor", a |-> a1, key |-> SCRIPT_KEY])
    [] Step = "publish" -> When(script.acc.status = "Draft", [op |-> "publishAgent", a |-> a1])
    [] Step = "resume"  -> When(script.acc.status = "Paused",
                                [op |-> "setAccepting", a |-> a1, accepting |-> TRUE])
    [] Step = "open A"  -> {[op |-> "openPosition", p |-> PosA, amount |-> PRINCIPAL,
                             duration |-> SHORT_DEADLINE]}
    [] Step = "open B"  -> {[op |-> "openPosition", p |-> PosB, amount |-> PRINCIPAL,
                             duration |-> LONG_DEADLINE]}
    [] Step = "draw A"  -> {[op |-> "drawFunds", p |-> PosA]}
    [] Step = "draw B"  -> {[op |-> "drawFunds", p |-> PosB]}
    [] Step = "settle B" -> {[op |-> "settlePosition", p |-> PosB, returned |-> BAD_RETURN]}
    [] Step \in {"early claim", "claim A"} -> {[op |-> "claimDefault", p |-> PosA]}
    [] Step = "late settle" ->
         {[op |-> "settlePosition", p |-> PosA, returned |-> PRINCIPAL]}
    [] Step = "pause"   -> {[op |-> "setAccepting", a |-> a1, accepting |-> FALSE]}
    [] OTHER -> {}

Transfer(i) ==
  /\ wallet[FUNDER] >= i.amount
  /\ wallet' = Credit(Debit(wallet, FUNDER, i.amount), i.to, i.amount)
  /\ RentExempt(wallet', {FUNDER, i.to})
  /\ UNCHANGED <<now, agent, position, agent_vault, position_vault>>

Executed(i) == IF i.op = "transfer" THEN Transfer(i) ELSE Executes(i, SCRIPT_KEY)
-----------------------------------------------------------------------------
(* The steps of a script *)

Starts ==
  /\ script.runs < MAX_RUNS /\ ~Running
  /\ script' = [script EXCEPT !.at = 1, !.runs = @ + 1, !.need = BOND, !.failed = {}]
  /\ UNCHANGED vars

\* (faulty: deposits the whole bond, whatever is there)
FetchesStatus ==
  /\ Step = "fetch"
  /\ script' = [script EXCEPT !.at = @ + 1, !.acc = agent[a1], !.need = BOND]
  /\ UNCHANGED vars

\* The agent is read, and with it what its bond lacks.
Fetches ==
  /\ Step = "fetch"
  /\ script' = [script EXCEPT !.at = @ + 1, !.acc = agent[a1],
                              !.need = Max({0, BOND - agent[a1].total_collateral})]
  /\ UNCHANGED vars

Sends ==
  /\ script.sent = {} /\ Wants # {}
  /\ script' = [script EXCEPT !.sent = Wants]
  /\ UNCHANGED vars

Remembered == {"before", "before draw", "before B", "before A"}
Checked    == {"opened", "drawn", "settled", "claimed", "records"}
Refusals   == {"early claim", "late settle"}     \* sent, and expected to be refused

Skips ==
  /\ Running /\ Step \notin Remembered \cup Checked \cup {"fetch", "wait"}
  /\ script.sent = {} /\ Wants = {}
  /\ script' = [script EXCEPT !.at = @ + 1]
  /\ UNCHANGED vars

SentLands ==
  /\ Step \notin Refusals
  /\ \E i \in script.sent : Executed(i)
  /\ script' = [script EXCEPT !.at = @ + 1, !.sent = {}]

\* It is killed, or a call throws.  What was sent is rejected or lost, or still under way.
Stops ==
  /\ Running
  /\ \E late \in {script.late} \cup (IF LATE_LANDINGS THEN {script.late \cup script.sent} ELSE {}) :
       script' = [script EXCEPT !.at = 0, !.sent = {}, !.late = late]
  /\ UNCHANGED vars

LateLands ==
  \E i \in script.late : Executed(i) /\ script' = [script EXCEPT !.late = @ \ {i}]
-----------------------------------------------------------------------------
(* What the bad operator remembers and checks *)

Remembers ==
  /\ Step \in Remembered
  /\ script' = [script EXCEPT
       !.at = @ + 1,
       !.before = IF Step = "before" THEN agent[a1] ELSE @,
       !.had = wallet[IF Step = "before draw" THEN SCRIPT_KEY ELSE SCRIPT_TRADER]]
  /\ UNCHANGED vars

Punished(p, breach, status, paid) ==
  /\ position[p].breach = breach /\ position[p].status = status
  /\ position[p].slashed = Reserved /\ position[p].fee_paid = 0
  /\ wallet[SCRIPT_TRADER] - script.had >= paid

Holds ==
  LET ag == agent[a1]
      was == script.before
  IN  CASE Step = "opened"  -> ag.locked_collateral - was.locked_collateral = 2 * Reserved
        [] Step = "drawn"   -> wallet[SCRIPT_KEY] - script.had >= 2 * PRINCIPAL
        [] Step = "settled" -> Punished(PosB, "Drawdown", "Settled", BAD_RETURN + Reserved)
        [] Step = "claimed" -> Punished(PosA, "MissedDeadline", "Defaulted", Reserved)
        [] Step = "records" -> /\ ag.breach_count = was.breach_count + 2
                               /\ ag.total_collateral = was.total_collateral - 2 * Reserved
                               /\ ag.locked_collateral = was.locked_collateral
                               /\ ag.fees_earned = was.fees_earned

Checks ==
  /\ Step \in Checked
  /\ script' = [script EXCEPT !.at = @ + 1, !.failed = IF Holds THEN @ ELSE @ \cup {Step}]
  /\ UNCHANGED vars

IsRefused ==
  /\ Step \in Refusals
  /\ \E i \in script.sent :
       \/ /\ ~ENABLED Executed(i) /\ UNCHANGED vars
          /\ script' = [script EXCEPT !.at = @ + 1, !.sent = {}]
       \/ /\ Executed(i)
          /\ script' = [script EXCEPT !.at = @ + 1, !.sent = {}, !.failed = @ \cup {Step}]

Waits ==
  /\ Step = "wait" /\ DeadlineReached(PosA)
  /\ script' = [script EXCEPT !.at = @ + 1]
  /\ UNCHANGED vars
-----------------------------------------------------------------------------
ScriptStep ==
  \/ Starts \/ Fetches \/ Sends \/ Skips \/ SentLands \/ Stops \/ LateLands
  \/ Remembers \/ Checks \/ IsRefused \/ Waits

Script == ScriptStep /\ UNCHANGED <<page, clicks>>

\* What goes on while the operator is not at the console.
Elsewhere == (Others \/ \E g \in Pages \ OperatorPages : PageNext(g)) /\ UNCHANGED script

\* Nobody allocates to the bad operator, whose rules ask not to.
Alone == Tick /\ UNCHANGED <<page, clicks, script>>

ToolsNext ==
  /\ UNCHANGED tool
  /\ \/ tool = "pages" /\ ConsoleNext /\ UNCHANGED script
     \/ tool = "terminal" /\ ((Command /\ UNCHANGED script) \/ Elsewhere)
     \/ tool = "setup" /\ (Script \/ Elsewhere)
     \/ tool = "demo" /\ (Script \/ Alone)
  /\ now' <= Horizon[tool]

ToolsSpec == ToolsInit /\ [][ToolsNext]_toolsVars
-----------------------------------------------------------------------------
(* Properties *)

\* "Safe to re-run: every step is skipped once done" (setup.ts:5).  Wherever earlier runs
\* stopped, and whatever traders did to the agent since, the script never bonds more than
\* the bond, and a run that ends leaves the agent published, its trading key bound, and
\* its bond complete but for what was slashed.
SafeToRerun ==
  tool = "setup" =>
    /\ agent[a1].total_collateral <= BOND
    /\ Step = "done" =>
         /\ IsPublished(agent[a1]) /\ agent[a1].executor = SCRIPT_KEY
         /\ agent[a1].total_collateral + agent[a1].slashed_total >= BOND

\* The bad operator is punished as its script expects, in every run of it and whatever
\* earlier runs left: a check fails only if its step came after the deadline.
MisconductIsPunished ==
  tool = "demo" => \A check \in script.failed :
    \/ check = "early claim" /\ DeadlineReached(PosA)
    \/ check = "settled" /\ position[PosB].closed_at >= position[PosB].deadline
=============================================================================
