----------------------------- MODULE AgentRunner -----------------------------
(***************************************************************************)
(* The runner of one agent (agent/src): a loop that settles, trades and    *)
(* draws the agent's positions, keeping for each a book of the SOL and     *)
(* USDC that belong to it.  Between any two calls to the chain the chain   *)
(* moves on, and the process may die; swaps and transactions that were     *)
(* sent may land late or not at all.                                       *)
(***************************************************************************)
EXTENDS Integers, Sequences, FiniteSets

CONSTANTS
  Positions,            \* positions that traders may open on the agent
  Strategy,             \* "rotate", "momentum" or "arbitrage"
  PRINCIPAL,            \* lamports of a position
  OWN_SOL,              \* SOL of the agent's own in its wallet, above the reserve
  PRICE,                \* USDC per SOL
  SIZE_BPS, BPS_DENOMINATOR,   \* share of a book's SOL that a trade sells
  DEADLINE,             \* of every position
  HOLD_SECS, SETTLE_BUFFER_SECS, LAST_CALL_SECS, DRAW_MARGIN_SECS, ADOPT_DELAY_SECS,
  TX_LIFE_SECS,         \* how long after it was sent a transaction may land
  ClockErrors,          \* by how much the runner's clock may be off
  FailingLookups,       \* which lookups of a landed swap may fail: "swap", "resolve"
  STATE_MAY_BE_LOST,    \* whether a start may find no books (see StateFile)
  SCANS_LAG,            \* whether a scan may miss draws of the last unit of time
  Paces,                \* "due": one tick is completed in every unit of time; "any": more or less
  MAX_NOW, MAX_SWAPS, MAX_FAULTS   \* bounds

ASSUME RunnerAssumption ==
  /\ Strategy \in {"rotate", "momentum", "arbitrage"}
  /\ PRINCIPAL \in Nat /\ OWN_SOL \in Nat /\ PRICE \in Nat \ {0}
  /\ SIZE_BPS \in 0..BPS_DENOMINATOR /\ BPS_DENOMINATOR \in Nat \ {0}
  /\ {DEADLINE, HOLD_SECS, SETTLE_BUFFER_SECS, LAST_CALL_SECS, DRAW_MARGIN_SECS,
      ADOPT_DELAY_SECS, TX_LIFE_SECS, MAX_NOW, MAX_SWAPS, MAX_FAULTS} \subseteq Nat
  /\ LAST_CALL_SECS <= SETTLE_BUFFER_SECS
  /\ ClockErrors \subseteq Int /\ ClockErrors # {}
  /\ FailingLookups \subseteq {"swap", "resolve"}
  /\ STATE_MAY_BE_LOST \in BOOLEAN /\ SCANS_LAG \in BOOLEAN
  /\ Paces \subseteq {"any", "due"} /\ Paces # {}

VARIABLES
  now,          \* the cluster's clock
  position,     \* status of each position account
  drawn_at,     \* when it was drawn
  wallet,       \* SOL (above the reserve) and USDC of the trading key
  swaps,        \* every swap that was signed; its place is its signature
  draws,        \* draw transactions that were sent and may still land
  settles,      \* settle transactions that were sent and may still land
  books,        \* the books in memory
  disk,         \* the books in the state file
  pc,           \* what the runner is doing
  loop,         \* the tick: the pass, the positions left in it, the list it read
  task,         \* the position under work, what follows its swap, what it pays
  pace,         \* whether this unit of time needs a tick ("due"), had it ("done") or not ("any")
  faults,       \* failures so far
  held          \* history: what the chain really did for each position

chain == <<position, drawn_at, wallet, swaps, draws, settles, held>>
files == <<books, disk>>
vars  == <<now, chain, files, pc, loop, task, pace, faults>>

NoBook == [kept |-> FALSE, sol |-> 0, usdc |-> 0, cycles |-> 0, settle_at |-> 0, pending |-> 0]
NoBooks == [p \in Positions |-> NoBook]
NoLoop == [pass |-> "due", todo |-> {}, skew |-> 0, partial |-> FALSE,
           seen |-> [p \in Positions |-> "absent"]]
NoTask == [p |-> "none", after |-> "end", emergency |-> FALSE,
           paying |-> 0, sent |-> 0]
Kept == { p \in Positions : books[p].kept }

MinOf(a, b) == IF a <= b THEN a ELSE b
MaxOf(a, b) == IF a >= b THEN a ELSE b
-----------------------------------------------------------------------------
(* Schedule *)

\* now() in the code: the local clock, corrected by the skew read in this tick.
Clock == now + loop.skew

SettleTime(drawn) == MinOf(DEADLINE - SETTLE_BUFFER_SECS, drawn + HOLD_SECS)
DueToSettle(book) ==
  Clock >= book.settle_at \/ Clock >= DEADLINE - SETTLE_BUFFER_SECS
TooLateToDraw == Clock >= DEADLINE - SETTLE_BUFFER_SECS - DRAW_MARGIN_SECS
PastLastCall  == Clock >= DEADLINE - LAST_CALL_SECS
-----------------------------------------------------------------------------
(* Swaps *)

SolDelta(s)  == IF s.side = "SOL" THEN -s.in ELSE s.in \div PRICE
UsdcDelta(s) == IF s.side = "SOL" THEN s.in * PRICE ELSE -s.in

RecordKeepingPending(book, s) ==    \* mutant
  [book EXCEPT !.sol = MaxOf(0, @ + SolDelta(s)), !.usdc = MaxOf(0, @ + UsdcDelta(s))]

\* A book after a swap that landed: the sale of SOL counts a strategy cycle.
Record(book, s) ==
  [book EXCEPT !.sol = MaxOf(0, @ + SolDelta(s)),
               !.usdc = MaxOf(0, @ + UsdcDelta(s)),
               !.cycles = IF s.side = "SOL" THEN @ + 1 ELSE @,
               !.pending = 0]

Cleared(book) == [book EXCEPT !.pending = 0]

\* The swaps a strategy may ask for, depending on prices: side, amount and what
\* follows when it has landed.
Trades(book) ==
  LET size == (book.sol * SIZE_BPS) \div BPS_DENOMINATOR
      sell == [side |-> "SOL", in |-> size, after |-> "end"]
      buy  == [side |-> "USDC", in |-> book.usdc, after |-> "end"]
  IN  { t \in CASE Strategy = "rotate"   -> IF book.cycles = 0 THEN {sell} ELSE {}
                [] Strategy = "momentum" -> IF book.usdc = 0 THEN {sell} ELSE {buy}
                [] OTHER -> IF book.usdc > 0 THEN {buy}
                            ELSE IF book.cycles >= 3 THEN {}
                            ELSE {[sell EXCEPT !.after = "leg2"]} : t.in > 0 }
-----------------------------------------------------------------------------
(* Frames *)

Goto(from, to) == pc = from /\ pc' = to
NoFault == UNCHANGED faults
Fault   == faults < MAX_FAULTS /\ faults' = faults + 1

Done == IF pace = "any" THEN "any" ELSE "done"
Due  == IF pace = "any" THEN "any" ELSE "due"

\* Every change of the books is saved before the next call (StateFile).
Save(b) == books' = b /\ disk' = b
SaveBook(p, book) == Save([books EXCEPT ![p] = book])

\* The runner works on a task without touching the chain.
Quiet == UNCHANGED <<now, chain, loop, pace>>

Book == books[task.p]
DrawTx   == [p |-> task.p, at |-> task.sent]
SettleTx == [p |-> task.p, amount |-> task.paying, emergency |-> task.emergency,
             at |-> task.sent]
Pending == swaps[Book.pending]
-----------------------------------------------------------------------------
(* The tick: tickAll, settleDue, tick, runBooks *)

\* Positions that a node which lags still shows as open.
Missable == { p \in Positions : SCANS_LAG /\ position[p] = "trading" /\ drawn_at[p] = now }

\* Reads the clock and scans the agent's positions; if the scan fails, reads only
\* the positions in the books, and if that fails too the tick does not run.
StartTick ==
  /\ Goto("idle", "books") /\ pace # "done"
  /\ \E skew \in ClockErrors, partial \in BOOLEAN, missed \in SUBSET Missable :
       /\ IF partial \/ missed # {} THEN Fault ELSE NoFault
       /\ loop' = [pass |-> "due", todo |-> Kept, skew |-> skew, partial |-> partial,
                   seen |-> [p \in Positions |-> IF partial /\ ~books[p].kept THEN "absent"
                                                 ELSE IF p \in missed THEN "open"
                                                 ELSE position[p]]]
  /\ UNCHANGED <<now, chain, files, task, pace>>

SkipTick ==
  /\ pc = "idle" /\ pace # "done" /\ Fault
  /\ pace' = Done
  /\ UNCHANGED <<now, chain, files, pc, loop, task>>

Visit(p) == p \in loop.todo /\ loop' = [loop EXCEPT !.todo = @ \ {p}]

DropBook(p) ==
  /\ Goto("books", "books") /\ Visit(p)
  /\ loop.seen[p] # "trading"
  /\ SaveBook(p, NoBook)
  /\ UNCHANGED <<now, chain, task, pace, faults>>

NotDueYet(p) ==
  /\ Goto("books", "books") /\ Visit(p)
  /\ loop.seen[p] = "trading" /\ loop.pass = "due" /\ ~DueToSettle(books[p])
  /\ UNCHANGED <<now, chain, files, task, pace, faults>>

TakeBook(p) ==
  /\ Goto("books", IF books[p].pending # 0 THEN "status" ELSE "act") /\ Visit(p)
  /\ loop.seen[p] = "trading"
  /\ loop.pass = "trade" \/ DueToSettle(books[p])
  /\ task' = [p |-> p, after |-> "end", emergency |-> FALSE, paying |-> 0,
              sent |-> 0]
  /\ UNCHANGED <<now, chain, files, pace, faults>>

\* The settle pass is followed by the trade pass, and that by draws and orphans
\* unless the list is partial.
NextPass ==
  /\ pc = "books" /\ loop.todo = {}
  /\ \/ /\ loop.pass = "due"
        /\ loop' = [loop EXCEPT !.pass = "trade", !.todo = Kept]
        /\ UNCHANGED <<pc, pace>>
     \/ /\ loop.pass = "trade" /\ ~loop.partial
        /\ pc' = "draws"
        /\ loop' = [loop EXCEPT !.pass = "draw",
                                !.todo = {p \in Positions : loop.seen[p] # "absent"}]
        /\ UNCHANGED pace
     \/ /\ loop.pass = "trade" /\ loop.partial
        /\ pc' = "idle" /\ pace' = Done
        /\ loop' = NoLoop
  /\ task' = NoTask
  /\ UNCHANGED <<now, chain, files, faults>>
-----------------------------------------------------------------------------
(* Resolving a swap of an earlier tick: resolvePending, resolveSwap *)

UnresolvedWaits ==    \* mutant
  pc' = "books" /\ UNCHANGED <<files, task>> /\ Quiet /\ NoFault

\* The answer is not known: wait, or settle the book as it stands at the last call.
Unresolved ==
  /\ pc' = IF PastLastCall THEN "balance" ELSE "books"
  /\ task' = [task EXCEPT !.emergency = PastLastCall]
  /\ UNCHANGED files /\ Quiet /\ NoFault

BookSwap ==
  /\ pc' = "act" /\ SaveBook(task.p, Record(Book, Pending))
  /\ UNCHANGED task /\ Quiet /\ NoFault

ClearSwap ==
  /\ pc' = "act" /\ SaveBook(task.p, Cleared(Book))
  /\ UNCHANGED task /\ Quiet /\ NoFault

AskOn(to) == pc' = to /\ UNCHANGED <<files, task>> /\ Quiet /\ NoFault

\* The status may also be too fresh ("processed"), or the call may fail.
ReadStatus ==
  /\ pc = "status"
  /\ \/ Pending.status = "landed" /\ AskOn("lookup")
     \/ Pending.status = "failed" /\ ClearSwap
     \/ Pending.status \notin {"landed", "failed"} /\ AskOn("height")
     \/ Unresolved

ReadHeightOnce ==    \* mutant
  pc = "height" /\ AskOn("recheck")

\* A swap that was not seen may land until its blockhash expires, and may have
\* landed since the status was read.
ReadHeight ==
  /\ pc = "height"
  /\ \/ Pending.status \notin {"signed", "sent"} /\ AskOn("recheck")
     \/ Unresolved

ReadLanded == pc = "lookup" /\ (BookSwap \/ Unresolved)

Recheck ==
  /\ pc = "recheck"
  /\ \/ Pending.status = "landed" /\ BookSwap
     \/ (Pending.status # "landed" \/ "resolve" \in FailingLookups) /\ ClearSwap
\* A book without a pending swap settles when it is due and trades otherwise.
Act ==
  /\ pc = "act"
  /\ AskOn(CASE DueToSettle(Book) /\ Book.usdc > 0 -> "unwind"
             [] DueToSettle(Book) /\ Book.usdc = 0 -> "balance"
             [] OTHER -> IF loop.pass = "trade" THEN "trade" ELSE "books")
-----------------------------------------------------------------------------
(* Trading: trade, swap, swapExactIn *)

\* Signs a swap and saves it as pending before it is sent.
BeginSwap(side, amount, after) ==
  /\ amount > 0 /\ Book.pending = 0
  /\ Len(swaps) < MAX_SWAPS
  /\ pc' = "send"
  /\ swaps' = Append(swaps, [of |-> task.p, side |-> side, in |-> amount, status |-> "signed"])
  /\ SaveBook(task.p, [Book EXCEPT !.pending = Len(swaps) + 1])
  /\ task' = [task EXCEPT !.after = after]
  /\ UNCHANGED <<now, position, drawn_at, wallet, draws, settles, held, loop, pace, faults>>

Trade ==
  /\ pc = "trade"
  /\ \E t \in Trades(Book) : BeginSwap(t.side, t.in, t.after)

\* The second leg of a round trip.
SecondLeg == pc = "leg2" /\ BeginSwap("USDC", Book.usdc, "end")

\* No trade: prices, a failed quote, or a first leg below its quote.
NoTrade == pc \in {"trade", "leg2"} /\ AskOn("books")

\* An error that says that the swap cannot land clears it; a settlement goes on
\* without the USDC at the last call.
SwapFails ==
  /\ SaveBook(task.p, Cleared(Book))
  /\ pc' = IF task.after = "settle" /\ PastLastCall THEN "balance" ELSE "books"
  /\ UNCHANGED task /\ Quiet /\ NoFault

SwapInFlightClears ==    \* mutant
  /\ pc' = "books" /\ SaveBook(task.p, Cleared(Book))
  /\ UNCHANGED task /\ Quiet /\ NoFault

SwapInFlight == AskOn("books")

SetSwap(s, status) == swaps' = [swaps EXCEPT ![s].status = status]

\* The RPC node forwards the swap, rejects it, or the connection fails and nobody
\* knows.
Send ==
  /\ pc = "send"
  /\ \/ /\ Pending.status = "signed"
        /\ SetSwap(Book.pending, "sent")
        /\ pc' \in {"confirm", "books"}
        /\ UNCHANGED <<now, position, drawn_at, wallet, draws, settles, held, files, loop,
                       task, pace, faults>>
     \/ SwapInFlight
     \/ SwapFails

Confirm ==
  /\ pc = "confirm"
  /\ \/ Pending.status = "landed" /\ AskOn("meta")
     \/ Pending.status = "failed" /\ SwapFails
     \/ SwapInFlight

ReadMeta ==
  /\ pc = "meta"
  /\ \/ /\ pc' = CASE task.after = "settle" -> "balance"
                   [] task.after = "leg2"   -> "leg2"
                   [] OTHER                 -> "books"
        /\ SaveBook(task.p, Record(Book, Pending))
        /\ UNCHANGED task /\ Quiet /\ NoFault
     \/ SwapInFlight
     \/ "swap" \in FailingLookups /\ SwapFails
-----------------------------------------------------------------------------
(* Settling: settle *)

Unwind == pc = "unwind" /\ BeginSwap("USDC", Book.usdc, "settle")

\* Building the swap fails, before anything is signed.
UnwindFails ==
  /\ pc = "unwind"
  /\ AskOn(IF PastLastCall THEN "balance" ELSE "books")

ReadBalanceOfPrincipal ==    \* mutant
  LET returned == MinOf(PRINCIPAL, wallet.sol)
  IN  /\ pc = "balance"
      /\ pc' = "settle" /\ task' = [task EXCEPT !.paying = returned]
      /\ UNCHANGED files /\ Quiet /\ NoFault

ReadBalanceWaits ==    \* mutant
  /\ pc = "balance"
  /\ IF wallet.sol < Book.sol THEN pc' = "books" /\ UNCHANGED task
     ELSE pc' = "settle" /\ task' = [task EXCEPT !.paying = Book.sol]
  /\ UNCHANGED files /\ Quiet /\ NoFault

\* Reads the wallet: a short one delays the settlement until the last call.
ReadBalance ==
  LET returned == MinOf(Book.sol, wallet.sol)
  IN  /\ pc = "balance"
      /\ \/ returned < Book.sol /\ ~PastLastCall /\ AskOn("books")
         \/ /\ returned = Book.sol \/ PastLastCall
            /\ pc' = "settle" /\ task' = [task EXCEPT !.paying = returned]
            /\ UNCHANGED files /\ Quiet /\ NoFault
         \/ Fault /\ pc' = "books" /\ UNCHANGED <<files, task>> /\ Quiet

SendSettle ==
  /\ Goto("settle", "settling")
  /\ task' = [task EXCEPT !.sent = now]
  /\ settles' = settles \cup {SettleTx'}
  /\ UNCHANGED <<now, position, drawn_at, wallet, swaps, draws, held, files, loop, pace,
                 faults>>

SettleReturns ==
  /\ Goto("settling", "books")
  /\ position[task.p] = "settled"
  /\ SaveBook(task.p, NoBook)
  /\ loop' = [loop EXCEPT !.seen[task.p] = "settled"]
  /\ UNCHANGED <<now, chain, task, pace, faults>>

\* The transaction is lost or fails, or the RPC nodes do not answer while it is in
\* flight.
SettleErrors ==
  /\ Goto("settling", "books")
  /\ \/ /\ SettleTx \notin settles \/ position[task.p] # "trading" \/ wallet.sol < task.paying
        /\ settles' = settles \ {SettleTx} /\ NoFault
     \/ Fault /\ UNCHANGED settles
  /\ UNCHANGED <<now, position, drawn_at, wallet, swaps, draws, held, files, loop, task, pace>>
-----------------------------------------------------------------------------
(* Drawing: maybeDraw, adoptOrphan *)

NewBook(settleAt) ==
  [kept |-> TRUE, sol |-> PRINCIPAL, usdc |-> 0, cycles |-> 0, settle_at |-> settleAt,
   pending |-> 0]

SendDraw(p) ==
  /\ Goto("draws", "drawing") /\ Visit(p)
  /\ loop.seen[p] = "open" /\ ~TooLateToDraw
  /\ task' = [task EXCEPT !.p = p, !.sent = now]
  /\ draws' = draws \cup {DrawTx'}
  /\ UNCHANGED <<now, position, drawn_at, wallet, swaps, settles, held, files, pace, faults>>

DrawReturns ==
  /\ Goto("drawing", "draws")
  /\ position[task.p] \in {"trading", "defaulted"}
  /\ SaveBook(task.p, NewBook(SettleTime(Clock)))
  /\ loop' = [loop EXCEPT !.seen[task.p] = "trading"]
  /\ UNCHANGED <<now, chain, task, pace, faults>>

DrawErrors ==
  /\ Goto("drawing", "draws")
  /\ \/ /\ DrawTx \notin draws \/ position[task.p] # "open" \/ now >= DEADLINE
        /\ draws' = draws \ {DrawTx} /\ NoFault
     \/ Fault /\ UNCHANGED draws
  /\ UNCHANGED <<now, position, drawn_at, wallet, swaps, settles, held, files, loop, task, pace>>

\* A drawn position without a book keeps its schedule, or settles soon.
Adopt(p) ==
  /\ Goto("draws", "draws") /\ Visit(p)
  /\ loop.seen[p] = "trading" /\ ~books[p].kept
  /\ SaveBook(p, NewBook(
       MaxOf(Clock, MinOf(MaxOf(SettleTime(drawn_at[p]), Clock + ADOPT_DELAY_SECS),
                          DEADLINE - SETTLE_BUFFER_SECS))))
  /\ UNCHANGED <<now, chain, task, pace, faults>>

PassOver(p) ==
  /\ Goto("draws", "draws") /\ Visit(p)
  /\ ~(loop.seen[p] = "open" /\ ~TooLateToDraw)
  /\ ~(loop.seen[p] = "trading" /\ ~books[p].kept)
  /\ UNCHANGED <<now, chain, files, task, pace, faults>>

EndTick ==
  /\ Goto("draws", "idle") /\ loop.todo = {}
  /\ pace' = Done
  /\ loop' = NoLoop /\ task' = NoTask
  /\ UNCHANGED <<now, chain, files, faults>>
-----------------------------------------------------------------------------
(* The process: main, the watchdog, loadStateFrom *)

\* The process is killed at any point, or the watchdog saves and exits.
Exit ==
  /\ pc # "down" /\ Fault
  /\ pc' = "down"
  /\ disk' \in {disk, books} /\ books' = NoBooks
  /\ loop' = NoLoop /\ task' = NoTask
  /\ pace' = Due
  /\ UNCHANGED <<now, chain>>

Restart ==
  /\ Goto("down", "idle")
  /\ \/ books' = disk /\ UNCHANGED disk /\ NoFault
     \/ STATE_MAY_BE_LOST /\ books' = NoBooks /\ disk' = NoBooks /\ Fault
  /\ UNCHANGED <<now, chain, loop, task, pace>>
-----------------------------------------------------------------------------
(* The chain and the traders (external) *)

ChainOnly == UNCHANGED <<files, pc, loop, task>>

\* The transactions whose blockhash is still valid as time passes.
Alive(txs) == { tx \in txs : now < tx.at + TX_LIFE_SECS }

Tick ==
  /\ now < MAX_NOW
  /\ pace # "any" => pc = "idle" /\ pace = "done"
  /\ now' = now + 1
  /\ pace' = Due
  /\ draws' = Alive(draws) /\ settles' = Alive(settles)
  /\ UNCHANGED <<position, drawn_at, wallet, swaps, held, faults>> /\ ChainOnly

TraderMoves(p, from, to) ==
  /\ position[p] = from
  /\ position' = [position EXCEPT ![p] = to]
  /\ UNCHANGED <<now, drawn_at, wallet, swaps, draws, settles, held, pace, faults>>
  /\ ChainOnly

Open(p)   == now < DEADLINE /\ TraderMoves(p, "absent", "open")
Cancel(p) == TraderMoves(p, "open", "cancelled")
Claim(p)  == now >= DEADLINE /\ TraderMoves(p, "trading", "defaulted")

DrawLandsTwice(tx) ==    \* mutant
  /\ tx \in draws
  /\ draws' = draws \ {tx}
  /\ position' = [position EXCEPT ![tx.p] = "trading"]
  /\ UNCHANGED <<now, drawn_at, wallet, swaps, settles, held, pace, faults>> /\ ChainOnly

DrawLands(tx) ==
  /\ tx \in draws
  /\ draws' = draws \ {tx}
  /\ position[tx.p] = "open" /\ now < DEADLINE
  /\ position' = [position EXCEPT ![tx.p] = "trading"]
  /\ drawn_at' = [drawn_at EXCEPT ![tx.p] = now]
  /\ wallet' = [wallet EXCEPT !.sol = @ + PRINCIPAL]
  /\ held' = [held EXCEPT ![tx.p].sol = PRINCIPAL]
  /\ UNCHANGED <<now, swaps, settles, pace, faults>> /\ ChainOnly

SettleLands(tx) ==
  /\ tx \in settles
  /\ settles' = settles \ {tx}
  /\ position[tx.p] = "trading" /\ wallet.sol >= tx.amount
  /\ position' = [position EXCEPT ![tx.p] = "settled"]
  /\ wallet' = [wallet EXCEPT !.sol = @ - tx.amount]
  /\ held' = [held EXCEPT ![tx.p].sol = @ - tx.amount]
  /\ UNCHANGED <<now, drawn_at, swaps, draws, pace, faults>> /\ ChainOnly

\* A transaction in flight never lands.
Lost ==
  /\ \/ \E tx \in draws : draws' = draws \ {tx} /\ UNCHANGED settles
     \/ \E tx \in settles : settles' = settles \ {tx} /\ UNCHANGED draws
  /\ Fault
  /\ UNCHANGED <<now, position, drawn_at, wallet, swaps, held, pace>> /\ ChainOnly

SwapLands(s) ==
  /\ swaps[s].status = "sent"
  /\ wallet.sol + SolDelta(swaps[s]) >= 0 /\ wallet.usdc + UsdcDelta(swaps[s]) >= 0
  /\ SetSwap(s, "landed")
  /\ wallet' = [sol |-> wallet.sol + SolDelta(swaps[s]),
                usdc |-> wallet.usdc + UsdcDelta(swaps[s])]
  /\ held' = [held EXCEPT ![swaps[s].of] =
                [sol |-> @.sol + SolDelta(swaps[s]), usdc |-> @.usdc + UsdcDelta(swaps[s]),
                 cycles |-> IF swaps[s].side = "SOL" THEN @.cycles + 1 ELSE @.cycles]]
  /\ UNCHANGED <<now, position, drawn_at, draws, settles, pace, faults>> /\ ChainOnly

\* It fails on chain, or its blockhash expires.
SwapEnds(s) ==
  /\ \/ swaps[s].status = "sent" /\ SetSwap(s, "failed")
     \/ swaps[s].status \in {"signed", "sent"} /\ SetSwap(s, "expired")
  /\ UNCHANGED <<now, position, drawn_at, wallet, draws, settles, held, pace, faults>>
  /\ ChainOnly
-----------------------------------------------------------------------------
Init ==
  /\ now = 0
  /\ position = [p \in Positions |-> "absent"]
  /\ drawn_at = [p \in Positions |-> 0]
  /\ wallet = [sol |-> OWN_SOL, usdc |-> 0]
  /\ swaps = <<>> /\ draws = {} /\ settles = {}
  /\ held = [p \in Positions |-> [sol |-> 0, usdc |-> 0, cycles |-> 0]]
  /\ books = NoBooks /\ disk = NoBooks
  /\ pc = "down" /\ loop = NoLoop /\ task = NoTask
  /\ pace \in Paces
  /\ faults = 0

Runner ==
  \/ StartTick \/ NextPass \/ EndTick \/ Restart
  \/ \E p \in Positions : DropBook(p) \/ NotDueYet(p) \/ TakeBook(p)
  \/ ReadStatus \/ ReadHeight \/ ReadLanded \/ Recheck \/ Act
  \/ Trade \/ SecondLeg \/ NoTrade \/ Send \/ Confirm \/ ReadMeta
  \/ Unwind \/ UnwindFails \/ ReadBalance
  \/ SendSettle \/ SettleReturns \/ SettleErrors
  \/ \E p \in Positions : SendDraw(p) \/ Adopt(p) \/ PassOver(p)
  \/ DrawReturns \/ DrawErrors

Lands == (\E tx \in draws : DrawLands(tx)) \/ (\E tx \in settles : SettleLands(tx))

Swapped == \E s \in DOMAIN swaps : SwapLands(s) \/ SwapEnds(s)

Trader == \E p \in Positions : Open(p) \/ Cancel(p) \/ Claim(p)

Next == Runner \/ SkipTick \/ Exit \/ Tick \/ Trader \/ Lands \/ Lost \/ Swapped

Spec == Init /\ [][Next]_vars

\* The supervisor restarts the process, every call returns or fails, transactions
\* that are in flight and can land do, and time passes.
FairSpec == Spec /\ WF_vars(Runner) /\ WF_vars(Lands) /\ WF_vars(Tick)
=============================================================================
