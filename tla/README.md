# A TLA+ model of collateralized agents

Traders hand SOL to AI trading agents.  An agent's operator backs every
position with collateral that an on-chain program holds, so that an agent that
loses too much, or never returns the money, pays the trader.  This directory
models that system, checks it with TLC and proves its central facts with TLAPS.

Paths below are relative to the repository.

## 1. The system

### 1.1 Components

| Component | Where | State it keeps | Operations | Here |
|---|---|---|---|---|
| **Program `proof_of_agent`** | `programs/proof_of_agent/src` | an `Agent` account and a collateral vault per agent, a `Position` account and a vault per position | 12 instructions: create, update, publish, set executor, set accepting, deposit, withdraw; open, cancel, claim default; draw, settle | modelled |
| **Settlement arithmetic** | `state.rs`, `open_position.rs`, `settle_position.rs` | none | `validate`, `required_collateral`, `compute_settlement` | modelled |
| **Agent runner** | `agent/src` | per agent a book for each position, the wallet | one loop over its agents: refresh the clock, settle what is due, trade, alert, draw; watchdog; crash recovery | partly: one agent |
| **Runner lock, state file** | `agent/src/lock.ts`, `state.ts` | a lock file; a JSON file per agent, its `.bak`, a temporary file | take, take over, release; atomic save, load with fall-back | modelled |
| **SDK runner** | `sdk/src/runner.ts` | the one active position, the hook's process group, the slot of the last settle; `runner.json` | tick: reap an orphan hook, adopt, draw and start the hook, stop it and settle | partly: no paper mode |
| **SDK client, `poa`** | `sdk/src/client.ts`, `cli.ts` | none | builds the program's instructions; sends one until it is confirmed or expired, and signs it again | partly |
| **Scripts** | `agent/src/setup.ts`, `bad-operator.ts` | none | one transaction after the other, with checks; run again after a failure | modelled |
| **Operator and trader pages** | `app/app/(app)/agent`, `agents/[agent]`, `positions`, `lib/useProtocol.ts` | a snapshot of the accounts, a draft, clicks under way | buttons and forms that send instructions | partly: no wording, no amounts as text |
| **Accounts route** | `app/app/api/accounts`, `lib/accounts.ts` | a copy per instance, the edge's, the browser's | read with a minimum slot, shared loads, retries | modelled |
| **Faucet** | `app/app/api/faucet` | markers per wallet and per day in blob storage | POST: claim, count, send, release | partly: no GET |
| **Rate limiter** | `app/lib/rateLimit.ts` | hits per client in the memory of an instance | `limited` | modelled |
| **Waitlist** | `app/app/api/waitlist`, `lib/waitlist*.ts` | one blob per submission, snapshots | submit, export, back up | partly: no encryption, no CSV |
| **Heartbeat** | `app/app/api/heartbeat` | last report per instance, one blob | POST by a runner, GET by a page | modelled |
| **Other pages, simulation, watchdog workflow, `seed-positions.ts`, `keys.ts`** | `app/`, `sim/`, `.github/` | none | | not modelled, section 7 |

### 1.2 How they interact

The program is the only state that everybody shares.  Everyone else sends it
transactions, each of which takes effect as a whole or not at all, and reads
its accounts through nodes that may lag, so that what was read may be stale by
the time a transaction lands.  The two runners also keep books off chain that
must survive a crash: the lock keeps two processes off one set of books, the
state file keeps the books across restarts.  The SDK runner hands its wallet to
a hook, a process of its own that trades while the runner waits.  The web app's
routes run in several instances that share blobs and nothing else; between the
chain and a page stand a node, an instance, the edge and the browser, each with
a copy of its own.

### 1.3 What is hard, and what makes each part correct

* **Program.** Many positions share one collateral vault and three counters per
  agent; a position ends in four ways, some of which race.  Correct when no
  order of calls lets one position's end touch another's bond, when settling is
  never cheaper than defaulting, when no call that ends a position can be
  blocked, and when the public track record is what really happened.
* **Settlement arithmetic.** The bond is rounded up, the tolerated loss down.
  Correct when the slash of an agent that returns nothing is the bond.
* **Agent runner.** A crash between a confirmed transaction and the save of the
  books; a swap whose confirmation is lost and that lands later; a list of
  positions read before the awaits of the tick that uses it; one wallet for all
  positions; the deadline.  Correct when a drawn position is always settled in
  time with what its book says, each swap is booked exactly once, and no
  position's money is spent on another.
* **Lock and state file.** File operations of two processes interleave, a
  process dies between any two, the machine reboots, process ids come back, a
  file goes bad.  Correct when two runners never run at once, a lock left behind
  never keeps everyone out, and a start loads the last save, or its backup and
  says so.
* **SDK runner.** What a position earned is the difference of two balances of
  one wallet.  Correct when nothing else moves the wallet in between: not a hook
  that was forgotten, not a second position, not a balance read too early.
* **Pages and scripts.** A click or a step acts on what was read earlier.
  Correct when what is offered works unless the chain moved on, when a trader
  gets the terms that were shown, and when a script can be run again.
* **Routes.** Check-then-act over stores without transactions, calls that fail
  after they took effect, caches.  Correct when the faucet pays once, the
  waitlist loses nothing, and a page never goes back in time.

## 2. The modules

| Module | What it is |
|---|---|
| `Settlement` | rates, `validate`, `required_collateral`, `compute_settlement` |
| `SettlementQuote` | the arithmetic against a definition that does not divide |
| `LamportSums` | sums over sets of positions, as cardinalities |
| `ProofOfAgent`, `ProgramProperties` | the program: one action per instruction, the clock, plain transfers; what it guarantees |
| `SegregatedBonds` | abstract: one bond per position instead of a pooled vault |
| `PositionLifecycle` | abstract: the life of a position, which the program implements and the runner keeps to |
| `AgentRunner`, `RunnerProperties` | the runner of one agent, the chain and the traders around it; what it promises |
| `RunnerLock`, `StateFile`, `RunnerProcess` | the lock file; the state file; both in one process |
| `SdkRunner` | the SDK's runner, its hook, its sends, the chain around it |
| `Console` | the pages that send instructions, composed with `ProofOfAgent` |
| `OperatorTools` | `poa`, `setup.ts` and `bad-operator.ts`, composed with `Console` |
| `RateLimiter`, `Faucet`, `Waitlist`, `Heartbeat` | the routes that keep state |
| `AccountViews`, `SnapshotStore` | the accounts route with its caches and hooks; abstract: what a reader may rely on |
| `Site` | the five routes side by side |
| `MC...` | small instances: constants, sets of terms, wallets |
| `SettlementProofs`, `QuoteProofs`, `ProgramProofs`, `RunnerProcessProofs`, `AgentRunnerProofs`, `SdkRunnerProofs`, `SiteProofs`, `ConsoleProofs` | theorems |

A definition marked `mutant` or `faulty` is not used by any specification.  It
is a plausible bug in the definition after it; substituting it makes TLC refute
the property that is there to catch it.

### 2.1 `ProofOfAgent` and the program

`agent`, `position`, `agent_vault` and `position_vault` are the program's
accounts, `wallet` the lamports of everybody else, `now` the clock.  An account
that does not exist has status `"Absent"`; a position's address is its seeds
`<<agent, trader, nonce>>`, an agent's address stands for `<<operator, agent_id>>`.

Solana executes transactions one after the other and undoes one that fails, so
each instruction is one atomic action, enabled exactly when the instruction
succeeds.  A guard holds the handler's `require!`s, its account constraints,
every checked addition, every plain subtraction (the release profile traps
overflow), the balance each transfer needs, and the runtime's rule that an
account that was written may not be left with less than the rent-exempt minimum
unless it is left empty.  `SystemTransfer` lets anybody send lamports to any
account, vaults included, without the program noticing.

`LegacyTerms` are terms that satisfy every check but `ratio_and_drawdown_fit`:
`open_position.rs` says that agents with such terms exist on chain.

`ProgramProperties` maps the program to `SegregatedBonds`, where a bond is
taken from the agent's free collateral when its position opens and returned,
less the slash, when it closes, and to `PositionLifecycle`, which knows only the
clock and the status and deadline of each position.  The chain inside
`AgentRunner` is checked against the second as well: this is where the two
halves of the model meet.

### 2.2 `AgentRunner` and `agent/src`

The runner is a single loop with awaits.  Between two awaits the code is one
step; at every await the chain may move and the process may die, so `pc` names
the await the runner stands at:

| `pc` | the code waits for | leaves through |
|---|---|---|
| `idle` | the next tick (`runner.ts` loop) | `StartTick` (scan), `SkipTick` (no scan) |
| `books` | nothing: the loops over books of `settleDue` and `runBooks` | `DropBook`, `NotDueYet`, `TakeBook`, `NextPass` |
| `status`, `height`, `lookup`, `recheck` | the answers of `resolveSwap` about a pending swap | `ReadStatus`, `ReadHeight`, `ReadLanded`, `Recheck` |
| `act` | nothing: settle or trade? | `Act` |
| `trade`, `leg2`, `send`, `confirm`, `meta` | quote, send, confirmation and effects of a swap (`swapExactIn`) | `Trade`, `SecondLeg`, `NoTrade`, `Send`, `Confirm`, `ReadMeta` |
| `unwind`, `balance`, `settle`, `settling` | the sale of the USDC, the wallet's balance, the settlement (`settle`) | `Unwind`, `UnwindFails`, `ReadBalance`, `SendSettle`, `SettleReturns`, `SettleErrors` |
| `draws`, `drawing` | the draws (`maybeDraw`) and adoption of orphans (`adoptOrphan`) | `SendDraw`, `DrawReturns`, `DrawErrors`, `Adopt`, `PassOver`, `EndTick` |
| `down` | the supervisor's restart | `Restart` |

`books` are the books in memory, `disk` those in the state file.  The code saves
before it sends anything, so every change of the books is a `Save`; the one
place where memory may be ahead of the file is the end of the process (`Exit`:
killed, or saved by the watchdog).  `loop` is what a tick carries across its
awaits: the list of positions it read, the pass it is in, the clock's skew.
`held` is a history variable: what the chain really did with each position's
money.

On the other side of the awaits, `swaps`, `draws` and `settles` are what was
signed or sent.  Any of it may land, fail, or be lost, at any time while its
blockhash lives, also after the runner gave up waiting or died.

Which of its trades a strategy wants depends on prices, so `Trade` may take any
trade the strategy allows in that book, or none.  `FailingLookups` names the
two places where the code takes a failed look-up of a landed swap for "it did
not land"; `SCANS_LAG` lets a scan miss a draw of the last unit of time.

### 2.3 `RunnerLock`, `StateFile`, `RunnerProcess`

The first two go file operation by file operation: creating the lock with `wx`
and writing it are two steps, as are opening and finishing the temporary file,
the copy to `.bak` (whose target is torn until it is complete) and the atomic
rename.  A process may die between any two.  In `RunnerLock` a reboot (or the
volume moving to another host) ends every process, and unrelated processes get
ids that dead runners had.  In `StateFile` a save's contents are its number.

`RunnerProcess` composes them: a step of the books is taken only by a process
that has the lock, and any step of the lock in which the process that runs ends
is a crash of the books, wherever in a save they are.

### 2.4 `SdkRunner` and `sdk/src/runner.ts`

`pc` again names the await, and one tick walks `sleep`, `stop` (an orphan hook),
`look` (the active position's account), then either `stop`, `balance`, `build`,
`confirm`, `final`, `settled`, or `scan`, `adopt` / `reserve`, `draw`,
`drawing`, `spawn`, `spawned`.  `confirm`, `final` and `build` are the client's
`sendUntilConfirmed` (`client.ts`): it sends one signed transaction until its
status says it landed or its blockhash expired, looks once more, and may be
signed again.  The hook is a process group: a shell and its children, of which
either may outlive the other and the runner.  `mem` is the runner's memory,
`file` the state file with its backup; `mem.alerted` says whether the memory ever
came from the backup, which the operator is told.  A node that lags answers `wallet.before`
as long as the runner's `minSlot` does not forbid it.  `pace` is described in
section 4.

### 2.5 `Console` and the pages

Each tab has the snapshot it shows, the time at which it was last rendered, a
snapshot that is being loaded, the draft of the terms form, and the clicks that
have not ended.  Nothing renders a page because time passes, so whether a
position is overdue, and with it whether Draw or Claim is offered, is decided by
the time of the last rendering (`Overdue`); a new snapshot, a click, the end of
one, or anything else on the page renders it again.  A click is one instruction,
offered under the condition of its button or form, on the snapshot.  The two
forms for an amount check it against the wallet's balance as it is at the click,
or, while that has not been read, against nothing.  A click lands on the accounts
as they are by then (`Executes` is the program's own action), is rejected exactly
when the program would reject it, or is dropped.  Other tabs and a runner with
the trading key act at any time.

### 2.6 `OperatorTools`, `poa` and the scripts

A behaviour exercises one `tool`: the pages, the terminal (`poa`), `setup.ts` or
`bad-operator.ts`.  A script is a sequence `Plan` of the steps of its `main()`,
one for each await that sends, reads or checks; what a step sends depends on
what it read (`Wants`).  It stops at any step, with what it sent landed or not,
and is run again from the start.  The bad operator's checks compare the chain
with what the script remembered, as in its source; a failed check is a value in
`script.failed`, not an end of the model.

### 2.7 The routes and `Site`

`Faucet`, `Waitlist`, `Heartbeat`, `AccountViews` go await by await, with any
number of requests at the same time.  A storage call may fail, and it may fail
although it took effect; a request may be killed at any await.  `RateLimiter` is
synchronous, so one call is one step; its map keeps the order of insertion, on
which eviction depends.  An export sorts stably by time, so entries of one instant
stay in the order in which the store lists their paths: `Place` says which.  In `AccountViews` a snapshot is the slot it was read
at, its time, and the instance that read it, which no action looks at but the
properties do; a load is answered by a node that is at any slot up to the latest.
The times are one order over all instances: their clocks are taken to agree.  The
routes share no state, so `Site` lets every behaviour exercise one of them: its
states are the sum of theirs and not the product.

## 3. The runs

| Run | Question | Bounds |
|---|---|---|
| `program_core` | Do counters, bonds, breaches and track record stay exact when two traders share one agent's vault, does the pool behave like separate bonds, and does every position live the life of `PositionLifecycle`? | one agent, two positions of 2 or 4, collateral up to 6, returns 0, 2, 9, three instants |
| `program_rent` | Can a balance, a trapped subtraction, the rent rule, bad terms or old terms block a draw or a close? Can a trader always get out alone, with at least the bond? | one position, nearly empty wallets, a trading key of its own or the operator's, gifts of 4 to any account, terms refused by each check, one agent that may have been published under terms that no longer validate |
| `settlement_quote` | Is the rounding right, and does withholding ever pay? | rates in tenths from 0 to 100%, principals 1 to 7, returns 0 to 20 |
| `runner_process` | Do crashes, torn saves, damage, reboots, moves and reused ids ever let two runners run, keep all out, or lose books silently? | two runners and an unrelated process, two hosts, one reboot, four saves, two files going bad |
| `lock_two_starts` | The same when two runners start at once | the same; **violated**, finding 1 |
| `runner_books` | Do the books say what the chain did, is no swap doubled or forgotten, and is no other money spent? | one position, 2 SOL of other money, three swaps in round trips, one fault |
| `runner_live` | Is every draw settled, in time? | one position, two swaps, one fault that may be the loss of the state file, a clock that may be one unit behind, scans that miss the last unit's draws, failing look-ups |
| `runner_lookup` | What if the look-up after a confirmed swap fails? | small; **violated**, finding 2 |
| `sdk_runner` | Does each position get back what was made with it, in time, and nothing of another's? | two positions, one gain or loss of 1 each way, one fault, two builds of a settle, eight instants |
| `site` | Do limits, markers, exports, snapshots, the online pill and the caches keep their promises under concurrency and failing calls? | see below |
| `console` | Do pages that show old snapshots, went by an old time or do not know a balance give the terms they show, and is what they offer rejected only for that? Can interrupted scripts be run again, and is the bad operator punished? | one agent, new or of an earlier version of the program, one trader, two tabs, five clicks or commands, two runs of a script |
| `console_decline` | What does "Decline & refund" do on an old page? | the same; **violated**, finding 3 |

**Program bounds.** 100% is 10 units instead of 10000 and a day is one tick:
every division still leaves remainders, and the deadline can be before, at and
after the clock.  In `program_core` a bond of 2 backs a principal of 4 whose
tolerated loss is 1, so returning 2 slashes half of the bond, 0 all of it, and 9
pays a fee of 1, which is below the rent minimum 2.  Collateral 6 covers three
such bonds but not every combination of positions, so the check of free
collateral matters.  The clock stops at `MAX_NOW`.

**Agent runner bounds.** A position of 2 SOL sells one at a time for 2 USDC, so
a book can be all SOL, mixed, and after a lost update visibly wrong.  Three
swaps let a second swap be signed while the first one's fate is unknown, with a
third to unwind.  One fault is any one of: the process dying, the state file
lost, a scan or tick failing, a balance or confirmation call failing, a
transaction dropped; swaps may fail, expire or be reported as unknown without
counting as faults.  In `runner_books` the trades of "arbitrage" (sell, and buy
back in the same tick) include those that "momentum" takes; the 2 SOL of other
money stand for the other positions of the agent, which share the wallet.  In
`runner_live` a unit of time is a poll interval of 30 s: the last call, 120 s,
is four units before the deadline.  The settlement buffer is five units: its
size beyond the last call only leaves room for more of the same.

**SDK runner bounds.** The wallet's own 5 lamports cover the reserve of 3 (rent
2, one settle fee) with room for one loss.  A position lasts five units and is
settled after one, or three before its deadline; two positions fit one after
the other, so the settle of the first, its lag and its retries meet the draw of
the second.  A transaction lives one unit and a settle is built at most twice,
as in the client.  One fault is a crash, a torn file, a lost transaction, a
failed call, a lagging read, a key bound elsewhere, or a stall.

**Site bounds.** Limiter: three clients, two places in the map, one hit per
window, five calls.  Faucet: two requests for one wallet and one for another, a
cap of one drop a day, one midnight, and funds that cover two drops less one
lamport.  Waitlist: two submissions for one email, with equal or different
contents and times, two files of the old layout, one of another email and one of
that email that does not decrypt, and one job, which is an export or a snapshot.
Heartbeat: two instances, two reports, a window of two units.  Accounts: two
instances, two requests, two slots (before and after the transaction that lands), two
reads, one wallet that connects, one fault.  Two reads are what a race between the
instances takes, and what a request makes that tries again.

**Console bounds.** Five clicks (`MAX_CLICKS`), four of the operator's and two of
the trader's at most (`PAGE_CLICKS`), reach from a new draft to a settled or
claimed position, through terms that are edited and saved before an allocation,
and from an agent that was published under terms that no longer fit (`OldTerms`)
to its rejected allocation; such an agent has used two of them at the start.  On the
pages one unit of time passes (`Clocks`), which is the deadline of a position that
opens at once, so a tab can go by a time before it; the bad operator's script has
more.  The scripts go through all of their steps, twice.

`CHECK_DEADLOCK FALSE` is there where the system really stops: when time and the
bounded resources are used up and everything is closed.

### 3.1 What the passing runs exclude

Some constants switch off one failure that the code does not survive.  Setting
them the other way makes TLC refute the property within seconds:

| Constant | Value in the run | With the other value |
|---|---|---|
| `RESTORE_INTERRUPTED` (`StateFile`) | `FALSE` | `BooksSurvive` fails.  `state.ts:57-60` says that the backup is used when the file does not parse; the bad file is moved away (`state.ts:71`) and the restored books stay in memory until the next save.  If the process ends before, the next start finds no file and begins with no books, silently. |
| `CONCURRENT_STARTS` (`RunnerLock`) | `FALSE` | `OneRunner` fails: finding 1. |
| `FailingLookups` (`AgentRunner`) | `{}` in `runner_books` | `ForgottenCannotLand` fails: finding 2. |
| `SCANS_LAG` (`AgentRunner`) | `FALSE` in `runner_books` | `BooksTellTheTruth` fails: a scan that misses a draw shows the position as open, its book is dropped, and it is adopted later with its principal, without what was traded.  It is still closed in time (`runner_live`). |
| `ClockErrors` (`AgentRunner`) | `{0}` in `runner_books` | with `{0, 1}` `SettlesOwnMoney` fails: the error changes between two ticks, and the second trades what the first one's settlement, still in flight, is about to pay (section 6.3). |
| `SPAWN_INTERRUPTED` (`SdkRunner`) | `FALSE` | `WalletReadAlone` fails: a runner that dies between the spawn of the hook and the save of its group (`runner.ts:512`) leaves a hook that the next one does not know of. |
| `LATE_DRAWS` (`SdkRunner`) | `FALSE` | with `TX_LIFE_SECS = 2` `OneAtATime` fails: a draw is given up on, its position is soon too close to its deadline to be drawn again, the next one is drawn, and the first draw lands: two positions in one wallet. |
| `LaggingReads` (`SdkRunner`) | `{"settle"}` | with `"draw"` as well `SettlesItsOwn` fails: `minSlot` covers settles only, and a balance read by a node that has not seen the draw makes the position look lost. |
| `LATE_LANDINGS` (`OperatorTools`) | `FALSE` | `SafeToRerun` fails: a deposit that lands after the second run has read the bond is made twice. |

Some properties say less than one might hope, because more is not true.
`LockedOutOnlyIfSent` excludes wallets for which storage failed or a request was
killed: their marker stays although nothing was sent (`route.ts:185`).
`CapPerDay` counts only drops that were marked and counted on the same day.
`OnlineIsTrue` speaks of "online" only: an instance may say "offline" while
another holds a fresh report.  `OffersOnlyWhatWorks` lets a click be rejected when
what its page went by is no longer so (`GoesBy`): the accounts have changed, time
has passed since the page was rendered (a page left open offers Draw after the
deadline), or the balance was not known or has changed.  And it names what the
pages do not check at all (`LeftToProgram`): the cost of creating an agent, the
free collateral to withdraw, what a settlement can send, and the terms of an agent
of an earlier version of the program, for which the certificate offers an
allocation (`Certificate.tsx:224`) that `open_position.rs:64-72` always refuses.
`StepsBackOnlyAcross` and `RefreshIsAnswered` allow for what the browser does when
several instances answer it: it compares copies by the time they were read
(`accounts.ts:45`), and the later of two can be from a node that lags more.  So a
page may go back to an older slot, and may drop the answer to its own refresh,
although `useProtocol.ts:122` says that a transaction's slot is noted "so the
refresh that follows doesn't show a snapshot from before it": a plain load begins
at one instance before the transaction and ends after the other has read the
chain for the refresh; its response arrives first, and the refresh's counts as
older.  With one instance neither can happen: both properties then say that a
page never goes back, and that a refresh shows the transaction.

## 4. Fairness

* `program_rent`: time passes (`WF_vars(Tick)`), and a trader who can keep
  cancelling or claiming does so (`WF_vars(TraderExit(p))`).  Nothing is assumed
  of operators and trading keys: that is what the property is about.
* `runner_live`: every call the runner makes returns or times out and the
  supervisor restarts a process that ended (`WF_vars(Runner)`), a transaction in
  flight that can land does unless it is lost (`WF_vars(Lands)`), and time
  passes.
* `sdk_runner`: the same, and the operator who is alerted that the agent is
  bound to another key binds this one again (`WF_vars(Bind)`).
* `site`, for the accounts only: effects run, requests arrive, and calls to a
  node return or fail (`AccountViews!Fair`).  No node is assumed to catch up.
  The other routes promise safety only.

`NeverLate` is a safety property under a stated pace: it speaks of behaviours in
which every unit of time sees a completed tick (`pace = "due"`).  In `SdkRunner`
time also passes while a tick waits for the hook's grace period or for a
blockhash to expire, which are the waits the code's margins are made for.
`EveryDrawIsClosed` needs no pace, only fairness.

## 5. Findings

1. **Two runners at once** (`lock_two_starts`).  `lock.ts:65` promises that two
   runners never trade the same books.  The lock is created empty and filled
   by a second call (`lock.ts:38-40`); a runner that reads it in between judges
   it torn, removes it, and both run.  In the same window two runners can find
   the same stale lock, and the slower one removes the faster one's fresh lock
   (`lock.ts:95`).
2. **A landed swap is forgotten** (`runner_lookup`).  `orca.ts:185-187` says that
   any error but `SwapInFlight` means nothing was sent, and `agent.ts:390` clears
   the pending swap on such an error.  `fetchMeta` throws one after the swap was
   confirmed, when both RPC nodes fail.
3. **A decline that slashes** (`console_decline`).  `agent/page.tsx:437` says of
   "Decline & refund": "Refund the trader in full. No fee, no breach."  The click
   sends `settle_position` with 0, which is a decline only while the position is
   open.  If the runner draws it before the click lands, the whole bond is
   slashed, a breach is recorded, and the principal stays in the trading wallet.

Section 3.1 lists what else the code does not survive.  A smaller difference:
`agent/README.md:15` says that a position settles at the latest five minutes
before the deadline; `SETTLE_BUFFER_SECS` (`config.ts:170`) is ten.

## 6. What is proved, and what is only model-checked

A theorem holds for every set of wallets, agents, positions, processes, pages,
requests and so on, infinite ones included where the code sets no bound, and for
every value of the constants that satisfies the named assumptions of the module
(`ConstantsAssumption`, `ProgramAssumption`, ...).  Those say only what the
source guarantees of its own constants; where a theorem needs more, its
statement says so, and section 3.1 shows what happens without.

### 6.1 The program (`SettlementProofs`, `QuoteProofs`, `ProgramProofs`)

* `ReturningNothingCostsTheBond`, `TraderKeepsTheBond`: from
  `BondAndToleranceFit`, which shows that bond and tolerated loss together are at
  most the principal although one is rounded up.  It bounds
  `BPS_DENOMINATOR * (bond + loss)` by `BPS_DENOMINATOR * principal` plus a
  remainder below `BPS_DENOMINATOR`.
* `QuoteIsExact`, `WithholdingNeverPays`: bond, tolerated loss, slash and fee are
  what a definition without division says, and returning one lamport more never
  harms the one who returns it.  Both rest on what `\div` does to a product that
  grows by one rate (`DivBounds` and the lemmas after it).
* `ProgramTypeCorrect`: the state is always typed; in particular no counter and
  no balance goes below zero.
* `CountersAlwaysMatch`: the three counters of an agent are the sums over its
  live positions.  The inductive invariant `CountersInv` adds that the sums are
  finite and that an agent that does not exist has no live position (otherwise
  `create_agent`, which zeroes the counters, would break it).  A sum is the
  cardinality of a set of pairs `<<position, lamport>>`, so adding and removing a
  position are the library's facts about finite sets; every instruction is then
  shown to keep, reserve or release.
* `BondsAlwaysBacked`, `PrincipalAlwaysHeld`, `SettlingNothingAlwaysCosts`: the
  first two are inductive with the types.  The third needs `LiveFit`: a live
  position locked what some ratio requires, and that ratio and its own snapshot
  of the tolerance fit, whatever the agent's terms are.
* `RecordsAlwaysTrue`: the track record and every recorded breach are true.
  `RecordsInv` says that a position carries no result until it ends and that its
  time stamp tells whether it was drawn; it counts the closed positions the way
  `CountersInv` sums the live ones, and again needs that no position ended
  before its agent was created.
* `NoCloseIsEverBlocked`: on every live position the instruction that its state
  calls for would succeed: a cancel before the draw, a claim after the deadline,
  a settlement by a wallet that can send what it returns and keep the rent
  minimum or nothing.  `NoCloseIsBlocked` states the checks of each instruction
  (`CancelPasses`, `ClaimPasses`, `SettlePasses`) instead of `ENABLED`; three
  lemmas (`CancelIsItsChecks`, `ClaimIsItsChecks`, `SettleIsItsChecks`) prove that
  the action is these checks and assignments and nothing else, so no check is
  forgotten.  The proof needs the invariants above and that every wallet is empty
  or exempt from rent, which the runtime keeps if it is so at the start
  (`WalletsAssumption`).  It excludes counters that are full (`CountersHaveRoom`):
  the program does refuse then, after 2^32 positions.
* `TraderAlwaysRecovers`: the trader gets back at least the bond, and the money
  arrives.  Besides the invariants above it needs `TermsInv`: published terms
  stay within the limits, so a live position's fee is a share.
* `BondsAreKeptApart`: the program implements `SegregatedBonds`.  What the
  abstract specification sees of a position depends on that position alone
  (`OnePosition`), so each instruction moves one bond: the operator's are
  `MoveFree` (or stutter), the others `Put`, `Draw` and `Close`.
* `LifeIsFollowed`: the program implements `PositionLifecycle`.  An instruction
  that writes a position replaces one record (`OneMove`), which is a move of the
  lifecycle or, for the operator's instructions and transfers, a stutter.  That a
  position opens with its deadline in the future needs a least duration above
  zero (`constants.rs:32`).

### 6.2 The agent runner's process (`RunnerProcessProofs`)

While runners start one after the other (`~CONCURRENT_STARTS`, finding 1):

* `LockIsSound`, `OneRunnerOnly`: never are two running.  That alone is not
  inductive.  `LockInv` says why it holds: whoever runs or is about to let go
  owns the file that is there, a process between its creation and its first
  write owns the torn one, there is no file between removal and re-creation, and
  a process about to remove a stale lock finds nobody running.
* `RefusalsAreJustified`: a lock left behind never keeps everyone out.
  `RefusedInv` adds to `LockInv` that there is one file at most and that a
  process about to be turned away left none of its own.

While `RESTORE_INTERRUPTED` is `FALSE`:

* `BooksAlwaysSurvive`: wherever in a save the runner ends, the next one resumes
  from the last save; if the file went bad, from its backup, at most one save
  behind, or with nothing, and the loss is reported.  `BooksInv` says what each
  file holds at each step of a save: the books in memory are the last save, plus
  one while they are being written; after a restore they are the backup (plus
  one) and there is no file until it is written; and the backup is at most one
  save behind.

### 6.3 The agent runner (`AgentRunnerProofs`)

For any number of positions, swaps and faults, and any amounts and delays:

| Theorem | Assumes | Inductive invariant |
|---|---|---|
| `SwapsNeverOverlap` | the state file is not lost (`~STATE_MAY_BE_LOST`), scans see what is drawn (`~SCANS_LAG`) | `SwapsInv`: memory and file agree wherever the code has saved; a book's pending swap is the only one of its position that may still land; what each `pc` knows about that swap is still true when it acts on it; what the scan saw as drawn stays so |
| `BooksAreTrue`, `ForgottenSwapsCannotLand` | the same, and a landed swap can be looked up (`FailingLookups = {}`, finding 2) | `BooksInv` adds `HeldOK`: the chain did with a position's money what its book records, plus the pending swap if that landed |
| `SettlementsSpendTheirOwn` | the same, and an error of the runner's clock that does not change | `MoneyInv` adds that outside an emergency a settlement is due, pays what the book holds, and that while it is in flight no sale of that position's SOL can begin or land |
| `RunnerFollowsLifecycle` | nothing | `LifeInv`: the runner sends what concerns a position |
| `NeverLateUnlessSetBack` | of the behaviour: few setbacks around the last call; of the constants: draws end before it (`CallAt`) | `LateInv`: see below |

The assumption of a constant clock error was found by the proof: `SettleOK` is
not inductive without it, and TLC then shows why: a settlement is sent by a
clock that is ahead, the process dies, and its next tick, by a right clock,
finds the position not due and sells what the settlement in flight is about to
pay, which then comes out of the other money in the wallet.  The skew is
measured anew in every tick, and the local clock stands in when the chain's
time cannot be read (`agent.ts:38-46`).

What holds whatever is lost or lags is kept apart (`Typed`, `TypedNext`):
`NeverLate` allows for lost state files, lagging scans and failing look-ups.
Its argument counts ticks.  `start` is a time from which every tick is past the
last call, by any clock (`CallAt`).  A tick after it that does not settle a
position was set back: by a failure, by a swap of its USDC that it began, by a
sale of SOL that landed and left the wallet short, or by a settlement of another
position that landed late and took the SOL first; and each of those happens once
(`Spent`, `LeftOf`).  A settlement that is still in flight after its tick was left
by a failure, so the failure pays for what it does later (`LeftNext`).  `LateInv`
says that the setbacks since `start`, less those still to come of settlements in
flight, are at least the ticks since then that did not settle the position
(`Slack`), one more for a position without a book, and that a tick under way
either will settle it or has been set back (`Underway`).  Swaps and failures of
before are not counted, but a settlement sent up to a transaction's life before
`start` is (`From`).  At the deadline the setbacks are as many as the ticks from
`start` on, so fewer of them mean in time.  With the code's constants those are
four ticks of 30 s (`agent.ts:51`, `config.ts:134`), so three setbacks are
survived by a clock that is right.  The code bounds neither its failures nor its
swaps, so there is no theorem without that condition on the behaviour.

### 6.4 The SDK runner (`SdkRunnerProofs`)

For any number of positions, restarts and faults:

| Theorem | Assumes | Inductive invariant |
|---|---|---|
| `WalletIsReadAlone` | no death between spawning a hook and saving its group (`~SPAWN_INTERRUPTED`) | `HookInv`: the file, or its backup, knows the group of a hook that runs, unless the operator was told that the books came from a backup; and a hook runs only while the runner sleeps, looks, stops it or is down |
| `OneTradesAtATime` | no draw lands that the runner gave up on (`~LATE_DRAWS`) | `DrawInv`: the one draw in flight is the one being waited for, and nothing trades from the scan of the reserve on until it lands |
| `SettlementsAreExact` | both, and no node lags (`LaggingReads = {}`) | `MoneyInv`: the balance in the book is the wallet's at the draw without the principal, what the hook made is the difference, and a settlement in flight pays just that |
| `SdkRunnerIsNeverLate` | the same, and a schedule with room for the failures (`RoomForFailures`) | `TimeInv` adds to it what time is left for: see below |

The run covers `SettlesItsOwn` with settles that lag as well, for one fault: with
two faults it no longer holds, so the theorem excludes lag and allows any number.

`SdkRunnerIsNeverLate` is about a runner that keeps up (section 4).  Its argument
counts what failures cost.  A failure sets the runner back by one grace period of
the hook, if it died while it waited for that, or by the life of a transaction that
was lost (`Setback`), and by one tick more if blockhashes may run out (`Throw`).
`Spare` is what the failures that are left may still cost, so a failure pays for its
own setback, and `Enough` says that a time is before the deadline with that to spare.
`OnTime` then gives each position that trades what it still needs: without a book,
the delay after which an adopted position settles (`Adopts`); with one, the grace
period of a hook that may run, what is left of it while it is waited for, and the
life of a settle that was lost (`Settles`).  The other parts are what this rests
on: the book is of the position that trades (`BookIsOfIt`), draws begin more than
the buffer before the deadline (`DrawnEarly`), and the wallet can pay for the
settle, which would otherwise be refused for as long as the hook's losses last
(`Solvent`).  `RoomForFailures` asks for a buffer longer than the grace period, or
the delay of an adopted position, and one setback for each failure, and for a hook
that does not lose the principal.  In ticks of 30 s the defaults (a buffer of 300 s,
a grace period of 60 s, `args.ts:11-12`) and blockhashes that live up to 90 s leave
room for two failures.  The buffer that `args.ts:43-48` insists on, one poll and
30 s, is too short for this theorem.  The run satisfies all of this but `LaggingReads`.

### 6.5 The routes (`SiteProofs`)

For any number of requests, instances, files and failures, over every behaviour
of `Site`:

* `OnlineClaimIsTrue`: `BeatsInv` says that an instance holds, and the blob gets,
  only reports that were made.
* `NoSnapshotIsPartial`: `LoadsInv` says that what was stored when a job began is
  at every step of it loaded, still listed to be loaded, or unreadable.
* `ExportsAreFaithful`: `WaitInv` says what the store keeps under concurrent
  submissions and failing puts: a file is an old one or a submission's own entry
  at one of its two paths, an email has one first file, nobody has a later file
  without it (`Closed`), and whatever a submission knew when it was made is
  within what a job saw when it began, or the other way round.  With `LoadsInv`,
  what was accepted is loaded.  `SortedOnce` shows that the sort, stated by
  ranks, lists every entry once in order (`RankedOnce`), and `RowShows` that
  going through them one by one shows every version once; both are inductions,
  done by the least counterexample (`LeastOf`).  That the row is the first
  submission then follows: of what its submission knew and what the job saw, the
  smaller holds the first file of the email, which would come before it.  Of old
  files only this is assumed (`SiteAssumption`): ids and paths of their own, and
  times before the first submission.
* `LimiterIsHonest`: `LimiterInv` relates the map to all calls so far
  (`Remembers`): each time in it is a call of its key (`Tells`), its keys differ
  and stand in the order of their last calls, and a call whose key is not in the
  map is out of the window or was pushed out by `MAX_KEYS` other keys (`Lost`).
  The order of the last calls is what makes the first key the right one to give
  way: every other key called after it.  A window of zero is excluded, in which
  not even the call itself would count.
* `DropsStayLimited`, `MarkersAreEarned`: in `DropsInv` at most one request holds
  a wallet's marker (`OneHolder`), though an answer may be lost after the put;
  and the drops of a day are at most its cap, because each placed request has a
  marker of its own among those it counted (`CapOK`, by an injection).
* `PagesStepBackOnlyAcross`, `RefreshesAreAnswered`: for any number of instances
  of the accounts route, on nodes of any lag.  `ViewsInv` says that every copy in
  the system, at the edge, in a response or in the browser, was once the cache of
  the instance that read it (`CopyOK`), whose slot never goes down (`CacheOK`), so
  that among the copies of one instance the later is never of an older slot
  (`InOrder`); and that the route answers a fresh request behind its slot only
  with what it cannot better (`ReplyOK`).  A copy that replaces one of a newer
  slot is then of another instance, so the pages implement `SnapshotStore`
  (`ShownOK`, `SameOrLater`).

### 6.6 Pages, commands and scripts (`ConsoleProofs`)

For any number of tabs, agents, clicks, commands and runs of a script:

* `TermsAreAsShown`: `PagesInv` says that what any snapshot, shown, loading or
  clicked on, has as published is published with these very terms now
  (`StillTrue`), and that a position is asked for only of an agent shown as
  active.  Every call keeps it (`AgentsMoveOn`).
* `SetupIsSafeToRerun`, if nothing lands that a stopped run had given up
  (`~LATE_LANDINGS`, section 3.1): `SetupInv` says for each step of the script
  what is achieved by then, whatever happened to the agent since it was read:
  what is about to be deposited fits under the bond and completes it but for
  slashes, and what was read as done is still done.  Traders and the trading key
  change an agent only by slashes (`KeepsAgent`).
* `BadOperatorIsPunished`, under `FairTrial`: nothing lands that a stopped run
  had given up, the agent is one that this script created, the trading key and
  the trader have different wallets, and what position B returns, the tolerated
  loss and the whole guarantee together do not exceed the principal.  The last is
  how `bad-operator.ts:19-25` chooses its numbers (0.03 + 0.02 + 0.05 of 0.1);
  with a better return the script's checks would not hold, and with one wallet
  for the key and the trader, what one pays the other would not show.  As in the
  run, nobody else allocates to this agent (`Alone`).  The checks compare accounts
  and wallets with what the script read many steps before, so `TrialInv` says for
  each of the 31 steps what it may still rely on: which of its two positions are
  open, trading or closed, and how, and how the agent's totals and breaches differ
  from those remembered (`TrialAccounts`); what the trading key and the trader
  have received since (`TrialWallets`).  A failed check is recorded with its
  excuse (`TrialFailures`).  Positions of earlier, stopped runs may be open all
  along.

### 6.7 Only model-checked

* **Liveness and `ENABLED`**: `EveryPositionEnds`, `EveryDrawIsClosed`,
  `EveryLoadEnds`, `OffersOnlyWhatWorks`.
* **The cases the theorems exclude and the runs cover**: settles that lag in
  `SettlesItsOwn` and in `NeverLate` of `SdkRunner`, and lost state files, failing look-ups and lagging scans in
  `runner_live`.

## 7. Not modelled, and why

* **Of the program**: texts and mints beyond whether they are valid, bumps and
  derived addresses (a seed identifies its account), events (they repeat fields
  of the state), transaction fees.
* **Of the agent runner**: several agents in one process (the other money in the
  wallet stands for them), price samples and slippage (a strategy may ask for
  any of its trades; trading neither wins nor loses), logs, alerts and the
  report after a restore.  Starting from a backup that is one save behind is
  explored in `RunnerProcess` but not traded on in `AgentRunner`.
* **Of the SDK**: paper mode, which sends nothing; notifications, the check for
  stray tokens, priority fees, the history list; `keygen`, `status` and the
  parsing of options.
* **Of the web app**: pages that only show (charts, how it works, simulation,
  live numbers), wording and layout, amounts as text, the wallet dialog,
  encryption and CSV of the waitlist, the faucet's status for display.
* **The Python simulation**: a floating-point study that takes no part in the
  running system.  **The watchdog workflow**: it reads the heartbeat and changes
  nothing.  **`seed-positions.ts`, `keys.ts`**: one-shot scripts without a
  state that others depend on.

## 8. Plan

The order in which the project was built: settlement arithmetic; the program and
its abstract specifications; the theorems about it; lock and state file; the
agent runner; the SDK runner and the client's sends; the routes; pages, commands
and scripts over the program; lagging nodes in both runners and in the caches;
lock and state file in one process; the accounts route in several instances.

What would add most next: two agents in one `AgentRunner`; a start from the
backup that is traded on; instances of the accounts route whose clocks differ; the
event of a hook that exits after its successor was spawned (`runner.ts:524-528`),
which `SdkRunner` takes to arrive with the exit.
