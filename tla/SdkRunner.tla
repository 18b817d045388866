------------------------------ MODULE SdkRunner ------------------------------
(***************************************************************************)
(* The runner of the SDK (sdk/src/runner.ts, client.ts): it draws one      *)
(* position at a time into a trading wallet, lets a hook (the operator's   *)
(* bot, a process group of its own) trade with it, stops the hook, and     *)
(* settles with whatever the wallet gained or lost since the draw.  The    *)
(* process may die between any two steps, and the hook outlives it.        *)
(***************************************************************************)
EXTENDS Integers, FiniteSets

CONSTANTS
  Positions,
  PRINCIPAL, OWN_SOL,        \* lamports of a position, and in the wallet at the start
  DRAW_TX_FEE, SETTLE_FEE, RENT,
  DURATION,                  \* from the opening of a position to its deadline
  HOLD_SECS, BUFFER_SECS, DRAW_MARGIN_SECS, ADOPT_DELAY_SECS, GRACE_SECS, SETTLE_TX_SECS,
  TX_LIFE_SECS,              \* how long a transaction may land after it was signed
  MAX_BUILDS,                \* blockhashes a settle is signed with before it gives up
  LaggingReads,              \* transactions a node may not have seen: "draw", "settle"
  SPAWN_INTERRUPTED,         \* whether the process may die between a spawn and its save
  LATE_DRAWS,                \* whether a draw may land after the runner lost track of it
  MAX_NOW, MAX_TRADES, MAX_FAULTS   \* bounds

ASSUME SdkRunnerAssumption ==
  /\ "none" \notin Positions
  /\ {PRINCIPAL, OWN_SOL, DRAW_TX_FEE, SETTLE_FEE, RENT, DURATION, HOLD_SECS, BUFFER_SECS,
      DRAW_MARGIN_SECS, ADOPT_DELAY_SECS, GRACE_SECS, SETTLE_TX_SECS, TX_LIFE_SECS, MAX_BUILDS,
      MAX_NOW, MAX_TRADES, MAX_FAULTS} \subseteq Nat
  /\ LaggingReads \subseteq {"draw", "settle"} /\ SPAWN_INTERRUPTED \in BOOLEAN
  /\ LATE_DRAWS \in BOOLEAN

VARIABLES
  now,        \* the cluster's clock
  position,   \* of each position: its status, when it was opened and drawn
  wallet,     \* the trading wallet: lamports, the last draw or settle, lamports before it
  bound,      \* whether the agent is bound to this trading key
  txs,        \* transactions in flight
  hook,       \* the hook's processes: whom they trade for, shell and children
  mem,        \* the runner's memory; alerted: whether it ever came from a backup
  file,       \* the state file (absent, torn or good) and its backup
  pc,
  task,       \* the position, amount, build and continuation of the work at hand
  pace,       \* this unit of time needs a tick ("due"), had it ("done"), or does not wait ("any")
  faults,     \* failures so far
  made        \* history: what the hook gained or lost for each position

chain == <<position, wallet, bound, txs, made>>
vars  == <<now, chain, hook, mem, file, pc, task, pace, faults>>

MinOf(a, b) == IF a <= b THEN a ELSE b
MaxOf(a, b) == IF a >= b THEN a ELSE b

NoBook  == [p |-> "none", balanceAtDraw |-> 0, settleAt |-> 0]
Empty   == [active |-> NoBook, hookPgid |-> FALSE, minSlot |-> 0]
NoHook  == [p |-> "none", shell |-> FALSE]
Started == [state |-> Empty, hook |-> FALSE, hookExited |-> FALSE, unbound |-> FALSE,
            alerted |-> FALSE]
NoTask  == [p |-> "none", amount |-> 0, sent |-> 0, builds |-> 0, after |-> "sleep"]

\* What the wallet keeps to stay rent-exempt and pay for the settle.
walletReserve == RENT + SETTLE_FEE

Deadline(p) == position[p].opened + DURATION
SettleTime(p, drawnAt) == MinOf(Deadline(p) - BUFFER_SECS, drawnAt + HOLD_SECS)
Has(status) == { p \in Positions : position[p].status = status }
Terminal == UNION { Has(s) : s \in {"settled", "defaulted", "cancelled"} }

Active == mem.state.active
Due == now >= MinOf(Active.settleAt, MAX_NOW) \/ (mem.hook /\ mem.hookExited)
-----------------------------------------------------------------------------
(* Frames *)

To(label) == pc' = label /\ UNCHANGED pace
Goto(from, to) == pc = from /\ To(to)
NoFault == UNCHANGED faults
Fault   == faults < MAX_FAULTS /\ faults' = faults + 1
Done == IF pace = "any" THEN "any" ELSE "done"

Quiet == UNCHANGED <<now, chain, hook>>

\* Every save keeps the previous file, if there is one, as the backup.
Save(m) ==
  /\ mem' = m
  /\ file' = [kind |-> "good", json |-> m.state,
              bak |-> IF file.kind = "good" THEN file.json ELSE file.bak]
Keep == UNCHANGED <<mem, file>>

EndTick == pc' = "sleep" /\ task' = NoTask /\ pace' = Done

\* A call to an RPC node fails, or the account is not found: the tick ends, and the
\* next one follows at once if the book is due (loopSleepMs).
CallFails(at) ==
  /\ pc = at /\ pc' = "sleep" /\ task' = NoTask
  /\ pace' = IF Active # NoBook /\ Due THEN pace ELSE Done
  /\ Fault /\ Keep /\ Quiet

\* What a node may say the wallet holds: one that has seen the last settle that was
\* confirmed to this runner, but perhaps not the transaction after it.
Reads(balance) ==
  \/ balance = wallet.lamports /\ NoFault
  \/ /\ wallet.last \in LaggingReads /\ mem.state.minSlot < wallet.slot
     /\ balance = wallet.before /\ Fault
-----------------------------------------------------------------------------
(* The tick *)

\* refreshClock and refreshAgent fail without consequence; the agent is read from
\* time to time.
StartTick ==
  /\ Goto("sleep", IF mem.state.hookPgid /\ ~mem.hook THEN "stop" ELSE "look")
  /\ pace # "done" \/ now = MAX_NOW
  /\ task' = IF pc' = "stop" THEN [NoTask EXCEPT !.after = "look", !.sent = now] ELSE NoTask
  /\ \E unbound \in {mem.unbound, ~bound} : mem' = [mem EXCEPT !.unbound = unbound]
  /\ UNCHANGED <<now, chain, hook, file, faults>>

ClearForgotten ==    \* mutant
  /\ Goto("stop", task.after)
  /\ Save([mem EXCEPT !.state.hookPgid = FALSE, !.hook = FALSE, !.hookExited = FALSE])
  /\ hook' = IF mem.hook THEN NoHook ELSE hook
  /\ UNCHANGED <<now, chain, task, faults>>

\* stopHook and reapOrphanHook: SIGTERM to the group, and SIGKILL after the grace
\* period (Tick).  Only a group whose id is known is stopped.
StopHook ==
  /\ Goto("stop", task.after)
  /\ hook' = IF mem.hook \/ mem.state.hookPgid THEN NoHook ELSE hook
  /\ LET m == [mem EXCEPT !.state.hookPgid = FALSE, !.hook = FALSE, !.hookExited = FALSE]
     IN  IF mem.state.hookPgid THEN Save(m) ELSE mem' = m /\ UNCHANGED file
  /\ UNCHANGED <<now, chain, task, faults>>

\* The one account of the active position, or a scan of all positions.
Look ==
  /\ pc = "look"
  /\ \/ /\ Active.p \in Terminal
        /\ To("stop") /\ task' = [NoTask EXCEPT !.after = "drop", !.sent = now]
     \/ /\ Active # NoBook /\ Active.p \notin Terminal
        /\ IF Due THEN To("stop") /\ task' = [NoTask EXCEPT !.after = "balance", !.sent = now]
                  ELSE EndTick
     \/ /\ Active = NoBook
        /\ To("scan") /\ task' = NoTask
  /\ Keep /\ Quiet /\ NoFault

DropBook ==
  /\ pc = "drop" /\ EndTick
  /\ Save([mem EXCEPT !.state.active = NoBook])
  /\ Quiet /\ NoFault

DrawSoonest == { p \in Has("open") : Deadline(p) - now > 0 }    \* mutant
\* The oldest open position with enough time left.
NextToDraw ==
  LET ready == { p \in Has("open") : Deadline(p) - now > BUFFER_SECS + DRAW_MARGIN_SECS }
  IN  { p \in ready : \A q \in ready : position[p].opened <= position[q].opened }

ScanOpen ==    \* mutant
  /\ pc = "scan"
  /\ \/ \E p \in NextToDraw : To("reserve") /\ task' = [NoTask EXCEPT !.p = p]
     \/ NextToDraw = {} /\ EndTick
  /\ Keep /\ Quiet /\ NoFault

Scan ==
  /\ pc = "scan"
  /\ \/ \E p \in Has("trading") : To("adopt") /\ task' = [NoTask EXCEPT !.p = p]
     \/ /\ Has("trading") = {} /\ ~mem.unbound
        /\ \E p \in NextToDraw : To("reserve") /\ task' = [NoTask EXCEPT !.p = p]
     \/ /\ Has("trading") = {} /\ (mem.unbound \/ NextToDraw = {})
        /\ EndTick
  /\ Keep /\ Quiet /\ NoFault

\* A position drawn before a restart, whose book was not saved.
Adopt ==
  \E balance \in {wallet.lamports, wallet.before} :
    /\ pc = "adopt" /\ EndTick
    /\ Reads(balance)
    /\ Save([mem EXCEPT !.state.active =
         [p |-> task.p, balanceAtDraw |-> balance,
          settleAt |-> MaxOf(SettleTime(task.p, position[task.p].drawn), now + ADOPT_DELAY_SECS)]])
    /\ Quiet
-----------------------------------------------------------------------------
(* Drawing *)

\* The wallet must already hold the reserve; its balance goes into the book.
ReadReserve ==
  /\ pc = "reserve"
  /\ \E balance \in {wallet.lamports, wallet.before} :
       /\ Reads(balance)
       /\ IF balance < walletReserve THEN EndTick
          ELSE To("draw") /\ task' = [task EXCEPT !.amount = balance]
  /\ Keep /\ Quiet

CanDraw(p) == position[p].status = "open" /\ now < Deadline(p) /\ bound
Tx(kind) == [kind |-> kind, p |-> task.p, amount |-> task.amount, at |-> task.sent]
InFlight(kind) == Tx(kind) \in txs

\* Sends are simulated first: one that would fail is not sent.
SendDraw ==
  /\ pc = "draw"
  /\ IF CanDraw(task.p)
     THEN /\ To("drawing")
          /\ task' = [task EXCEPT !.sent = now]
          /\ txs' = txs \cup {Tx("draw")'}
     ELSE EndTick /\ UNCHANGED txs
  /\ UNCHANGED <<now, position, wallet, bound, made, hook>> /\ Keep /\ NoFault

\* The balance right after the draw, without asking a node for it.
BalanceAtDraw(before) == before + PRINCIPAL - DRAW_TX_FEE

DrawReturns ==
  /\ Goto("drawing", "spawn")
  /\ ~InFlight("draw") /\ position[task.p].status \notin {"open", "cancelled"}
  /\ Save([mem EXCEPT !.state.active =
       [p |-> task.p, balanceAtDraw |-> BalanceAtDraw(task.amount),
        settleAt |-> SettleTime(task.p, now)]])
  /\ Quiet /\ UNCHANGED task /\ NoFault

\* It failed, was dropped, or cannot be confirmed and may still land.
DrawErrors ==
  /\ pc = "drawing" /\ EndTick
  /\ \/ ~InFlight("draw") /\ position[task.p].status \in {"open", "cancelled"} /\ NoFault
     \/ (LATE_DRAWS \/ ~InFlight("draw")) /\ Fault
  /\ Keep /\ Quiet

\* The hook starts, or fails to and counts as one that has exited.
StartHook ==
  /\ pc = "spawn"
  /\ \/ /\ To("spawned") /\ UNCHANGED task
        /\ hook' = [p |-> task.p, shell |-> TRUE]
        /\ mem' = [mem EXCEPT !.hook = TRUE, !.hookExited = FALSE]
        /\ NoFault
     \/ /\ EndTick /\ UNCHANGED hook
        /\ mem' = [mem EXCEPT !.hook = TRUE, !.hookExited = TRUE]
        /\ Fault
  /\ UNCHANGED <<now, chain, file>>

\* Its group id is saved, so that a runner that starts later can stop it.
SaveGroup ==
  /\ pc = "spawned" /\ EndTick
  /\ Save([mem EXCEPT !.state.hookPgid = TRUE])
  /\ Quiet /\ NoFault
-----------------------------------------------------------------------------
(* Settling: settle, sendUntilConfirmed *)

ReturnAll(balance) == MaxOf(0, PRINCIPAL + balance - Active.balanceAtDraw)    \* mutant
\* Principal plus what the wallet gained, less what it must keep.
Returned(balance) ==
  LET due == MaxOf(0, PRINCIPAL + balance - Active.balanceAtDraw)
  IN  IF balance - due < walletReserve THEN MaxOf(0, balance - walletReserve) ELSE due

ReadBalance ==
  /\ Goto("balance", "build")
  /\ \E balance \in {wallet.lamports, wallet.before} :
       /\ Reads(balance)
       /\ task' = [NoTask EXCEPT !.p = Active.p, !.amount = Returned(balance)]
  /\ Keep /\ Quiet

\* The wallet stays rent-exempt (or is emptied) by the transfer and its fee.
Pays(tx) ==
  LET left == wallet.lamports - tx.amount - SETTLE_FEE IN left = 0 \/ left >= RENT
CanSettle(tx) == position[tx.p].status = "trading" /\ bound /\ Pays(tx)

\* A fresh blockhash; the first send of each build is simulated and throws what the
\* program would say.
Build ==
  /\ pc = "build"
  /\ task' = [task EXCEPT !.sent = now, !.builds = @ + 1]
  /\ task.builds < MAX_BUILDS /\ CanSettle(Tx("settle"))
  /\ txs' = txs \cup {Tx("settle")'}
  /\ To("confirm")
  /\ UNCHANGED <<now, position, wallet, bound, made, hook>> /\ Keep /\ NoFault

SettleThrows ==
  /\ pc = "build" /\ EndTick
  /\ task.builds = MAX_BUILDS \/ ~CanSettle(Tx("settle"))
  /\ Keep /\ Quiet /\ NoFault

Landed(kind) == ~InFlight(kind) /\ position[task.p].status = "settled"

\* Resent until its status says it landed or its blockhash expired.  Rejected: it
\* landed with an error.  The polls may run out first.
Confirm ==
  /\ pc = "confirm"
  /\ \/ Landed("settle") /\ To("settled") /\ UNCHANGED task /\ NoFault
     \/ ~InFlight("settle") /\ ~CanSettle(Tx("settle")) /\ ~Landed("settle") /\ EndTick /\ NoFault
     \/ now >= MinOf(task.sent + TX_LIFE_SECS, MAX_NOW) /\ To("final") /\ UNCHANGED task /\ NoFault
     \/ To("final") /\ UNCHANGED task /\ Fault
  /\ Keep /\ Quiet

\* One more look, in the history; a call that fails counts as not landed.
FinalCheck ==
  /\ pc = "final"
  /\ \/ Landed("settle") /\ To("settled") /\ NoFault
     \/ ~Landed("settle") /\ To("build") /\ NoFault
     \/ To("build") /\ Fault
  /\ UNCHANGED task /\ Keep /\ Quiet

SettledForget ==    \* mutant
  /\ pc = "settled" /\ EndTick
  /\ Save([mem EXCEPT !.state.active = NoBook])
  /\ Quiet /\ NoFault

\* The slot of the settle is the least that later reads must have seen.
Settled ==
  /\ pc = "settled" /\ EndTick
  /\ Save([mem EXCEPT !.state.active = NoBook, !.state.minSlot = MaxOf(@, wallet.slot)])
  /\ Quiet /\ NoFault
-----------------------------------------------------------------------------
(* The process: start, stop, loadRunnerState *)

\* The process is stopped or dies.  The hook is a group of its own and may live on.
Exit ==
  /\ pc # "down" /\ Fault
  /\ pc = "spawned" => SPAWN_INTERRUPTED
  /\ pc = "drawing" => LATE_DRAWS \/ ~InFlight("draw")
  /\ pc' = "down" /\ task' = NoTask
  /\ mem' = [Started EXCEPT !.alerted = mem.alerted]
  /\ hook' \in {hook, NoHook}
  /\ file' \in {file, [file EXCEPT !.kind = "torn", !.json = Empty]}
  /\ pace' = IF pace = "any" THEN "any" ELSE "due"
  /\ UNCHANGED <<now, chain>>

\* loadRunnerState: a file that does not parse is moved aside and its backup is used.
Loaded == CASE file.kind = "good" -> file.json
            [] file.kind = "torn" -> file.bak
            [] OTHER              -> Empty

\* start refuses a key that is not bound to the agent.
Restart ==
  /\ Goto("down", "sleep") /\ bound
  /\ mem' = [Started EXCEPT !.state = Loaded, !.alerted = mem.alerted \/ file.kind = "torn"]
  /\ file' = [file EXCEPT !.kind = IF @ = "torn" THEN "absent" ELSE @]
  /\ UNCHANGED <<now, chain, hook, task, faults>>
-----------------------------------------------------------------------------
(* The hook, the traders, the operator and the chain (external) *)

RunnerOnly == UNCHANGED <<mem, file, pc, task>>

HookTrades ==
  /\ hook # NoHook
  /\ \E gain \in {-1, 1} :
       /\ wallet.lamports + gain >= 0 /\ made[hook.p] + gain \in -MAX_TRADES..MAX_TRADES
       /\ wallet' = [wallet EXCEPT !.lamports = @ + gain]
       /\ made' = [made EXCEPT ![hook.p] = @ + gain]
  /\ UNCHANGED <<now, position, bound, txs, hook, pace, faults>> /\ RunnerOnly

\* The hook's shell exits, with the children it started or without; only the hook
\* of this process tells the runner.
HookExits ==
  /\ hook # NoHook /\ hook.shell
  /\ hook' \in {NoHook, [hook EXCEPT !.shell = FALSE]}
  /\ mem' = [mem EXCEPT !.hookExited = mem.hook]
  /\ UNCHANGED <<now, chain, file, pc, task, pace, faults>>

\* Whether the runner waits for the end of the hook's grace period.
InGrace ==
  /\ pc = "stop" /\ hook # NoHook
  /\ now < task.sent + GRACE_SECS
  /\ Active # NoBook => now < Deadline(Active.p) - SETTLE_TX_SECS

\* Time passes; in a "due" unit only after the tick, in the grace period, or while a
\* lost transaction has not yet expired.
Tick ==
  /\ now < MAX_NOW
  /\ pace # "any" =>
       /\ \/ pc = "sleep" /\ pace = "done"
          \/ InGrace
          \/ pc = "confirm" /\ ~InFlight("settle") /\ ~Landed("settle")
               /\ now < task.sent + TX_LIFE_SECS
       /\ \A tx \in txs : now + 1 < tx.at + TX_LIFE_SECS
  /\ now' = now + 1
  /\ pace' = IF pace = "any" THEN "any" ELSE "due"
  /\ txs' = { tx \in txs : now' < tx.at + TX_LIFE_SECS }
  /\ UNCHANGED <<position, wallet, bound, made, hook, faults>> /\ RunnerOnly

SetPosition(p, record) == position' = [position EXCEPT ![p] = record]

TraderMoves(p, from, record) ==
  /\ position[p].status = from
  /\ SetPosition(p, record)
  /\ UNCHANGED <<now, wallet, bound, txs, made, hook, pace, faults>> /\ RunnerOnly

\* No two positions are opened in the same unit of time, and none so late that the
\* bound on time ends before its deadline.
Open(p) ==
  /\ now < MAX_NOW - DURATION
  /\ \A q \in Positions \ Has("absent") : position[q].opened < now
  /\ TraderMoves(p, "absent", [position[p] EXCEPT !.status = "open", !.opened = now])
Cancel(p) == TraderMoves(p, "open", [position[p] EXCEPT !.status = "cancelled"])
Claim(p)  ==
  now >= Deadline(p) /\ TraderMoves(p, "trading", [position[p] EXCEPT !.status = "defaulted"])

\* The operator binds another key, and this one again after the runner's alert.
Unbind == bound /\ bound' = FALSE /\ Fault /\ pace' = "any"
            /\ UNCHANGED <<now, position, wallet, txs, made, hook>> /\ RunnerOnly
Bind   == ~bound /\ bound' = TRUE
            /\ UNCHANGED <<now, position, wallet, txs, made, hook, pace, faults>> /\ RunnerOnly

Moved(lamports, kind) ==
  [lamports |-> lamports, slot |-> wallet.slot + 1, before |-> wallet.lamports, last |-> kind]

DrawLands(tx) ==
  /\ tx \in txs /\ tx.kind = "draw" /\ CanDraw(tx.p)
  /\ txs' = txs \ {tx}
  /\ SetPosition(tx.p, [position[tx.p] EXCEPT !.status = "trading", !.drawn = now])
  /\ wallet' = Moved(wallet.lamports + PRINCIPAL - DRAW_TX_FEE, "draw")
  /\ UNCHANGED <<now, bound, made, hook, pace, faults>> /\ RunnerOnly

SettleLands(tx) ==
  /\ tx \in txs /\ tx.kind = "settle" /\ CanSettle(tx)
  /\ txs' = txs \ {tx}
  /\ SetPosition(tx.p, [position[tx.p] EXCEPT !.status = "settled"])
  /\ wallet' = Moved(wallet.lamports - tx.amount - SETTLE_FEE, "settle")
  /\ UNCHANGED <<now, bound, made, hook, pace, faults>> /\ RunnerOnly

\* A transaction is rejected because the chain has moved on, or is never seen again.
Gone(tx) ==
  /\ tx \in txs /\ txs' = txs \ {tx}
  /\ \/ tx.kind = "draw" /\ ~CanDraw(tx.p) /\ NoFault
     \/ tx.kind = "settle" /\ ~CanSettle(tx) /\ NoFault
     \/ Fault
  /\ UNCHANGED <<now, position, wallet, bound, made, hook, pace>> /\ RunnerOnly
-----------------------------------------------------------------------------
Init ==
  /\ now = 0
  /\ position = [p \in Positions |-> [status |-> "absent", opened |-> 0, drawn |-> 0]]
  /\ wallet = [lamports |-> OWN_SOL, slot |-> 0, before |-> OWN_SOL, last |-> "none"]
  /\ bound = TRUE /\ txs = {} /\ hook = NoHook
  /\ made = [p \in Positions |-> 0]
  /\ mem = Started /\ file = [kind |-> "absent", json |-> Empty, bak |-> Empty]
  /\ pc = "down" /\ task = NoTask
  /\ pace = "due"
  /\ faults = 0

Runner ==
  \/ Restart \/ StartTick \/ StopHook \/ Look \/ DropBook \/ Scan \/ Adopt
  \/ ReadReserve \/ SendDraw \/ DrawReturns \/ DrawErrors \/ StartHook \/ SaveGroup
  \/ ReadBalance \/ Build \/ SettleThrows \/ Confirm \/ FinalCheck \/ Settled

Calls == \E at \in {"look", "scan", "adopt", "reserve", "draw", "balance", "build"} : CallFails(at)

Lands == \E tx \in txs : DrawLands(tx) \/ SettleLands(tx) \/ Gone(tx)

\* The machine or the network stalls: from now on time does not wait for the runner.
Stall ==
  /\ pace # "any" /\ pace' = "any" /\ Fault
  /\ UNCHANGED <<now, chain, hook>> /\ RunnerOnly

Others == Stall \/ HookTrades \/ HookExits \/ Unbind \/ \E p \in Positions : Open(p) \/ Cancel(p) \/ Claim(p)

Next == Runner \/ Calls \/ Exit \/ Lands \/ Tick \/ Bind \/ Others

Spec == Init /\ [][Next]_vars

\* The supervisor restarts the process, calls return or fail, transactions land or
\* fail, the operator answers the alert of a key that is not bound, and time passes.
FairSpec == Spec /\ WF_vars(Runner) /\ WF_vars(Lands) /\ WF_vars(Bind) /\ WF_vars(Tick)
-----------------------------------------------------------------------------
(* Properties *)

\* Nothing that the hook started runs while the runner reads the wallet or moves its
\* money, through crashes and restarts as well (runner.ts:13-17); only a restart
\* from a backup, which is reported, may not know of the hook.
WalletReadAlone ==
  pc \in {"adopt", "reserve", "draw", "drawing", "balance", "build", "confirm", "final"}
    /\ ~mem.alerted => hook = NoHook

\* One position trades at a time (runner.ts:9).
OneAtATime == \A p, q \in Has("trading") : p = q

\* What a position gets back is its principal and what the hook gained or lost with
\* it, down to the reserve: nothing of another position's, and no trade, fee or
\* transfer counted twice or forgotten, whichever one failure happens (runner.ts:9-10).
Owed(p) ==
  MinOf(MaxOf(0, PRINCIPAL + made[p]), MaxOf(0, wallet.lamports - walletReserve))
SettlesItsOwn ==
  [][ \A tx \in txs : SettleLands(tx) /\ ~mem.alerted => tx.amount = Owed(tx.p) ]_vars

\* A runner that keeps up with the clock settles before the deadline, unless it was
\* restored from a backup and a hook it does not know of empties the wallet.
NeverLate == pace # "any" /\ ~mem.alerted => \A p \in Has("trading") : now < Deadline(p)

\* Every position that was drawn is closed, even if its trader never claims it, or
\* the operator was told to look after a restored runner.
EveryDrawIsClosed ==
  \A p \in Positions :
    position[p].status = "trading" ~> position[p].status # "trading" \/ mem.alerted
=============================================================================
