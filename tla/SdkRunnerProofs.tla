--------------------------- MODULE SdkRunnerProofs ---------------------------
(***************************************************************************)
(* What the SDK's runner promises (SdkRunner), for any number of positions,*)
(* any amounts, schedule and failures: nothing that the hook started runs  *)
(* while the wallet is read, one position trades at a time, each gets back *)
(* what was made with it, and a runner that keeps up is never late.        *)
(***************************************************************************)
EXTENDS SdkRunner, TLAPS

Statuses == {"absent", "open", "trading", "settled", "defaulted", "cancelled"}
Labels == {"down", "sleep", "stop", "look", "drop", "scan", "adopt", "reserve", "draw", "drawing",
           "spawn", "spawned", "balance", "build", "confirm", "final", "settled"}

Books  == {NoBook} \cup [p : Positions, balanceAtDraw : Int, settleAt : Int]
State  == [active : Books, hookPgid : BOOLEAN, minSlot : Nat]
Memory == [state : State, hook : BOOLEAN, hookExited : BOOLEAN, unbound : BOOLEAN,
           alerted : BOOLEAN]
File   == [kind : {"absent", "torn", "good"}, json : State, bak : State]
Task   == [p : Positions \cup {"none"}, amount : Int, sent : Nat, builds : Nat,
           after : {"sleep", "look", "drop", "balance"}]
Tran   == [kind : {"draw", "settle"}, p : Positions, amount : Int, at : Nat]

MemoryOK == mem \in Memory /\ file \in File
TaskOK ==
  /\ pc \in Labels /\ task \in Task
  /\ pc \in {"adopt", "reserve", "draw", "drawing", "spawn"} => task.p \in Positions
  /\ pc \in {"build", "confirm", "final"} => task.p \in Positions
ChainOK ==
  /\ now \in Nat /\ bound \in BOOLEAN
  /\ position \in [Positions -> [status : Statuses, opened : Nat, drawn : Nat]]
  /\ wallet \in [lamports : Int, slot : Nat, before : Int, last : {"none", "draw", "settle"}]
  /\ txs \subseteq Tran
  /\ hook \in {NoHook} \cup [p : Positions, shell : BOOLEAN]
  /\ made \in [Positions -> Int]

\* Which book each step of a tick works with.
BookOK ==
  /\ pc \in {"scan", "adopt", "reserve", "draw", "drawing"} => Active = NoBook
  /\ pc \in {"spawn", "spawned"} => Active # NoBook
  /\ pc = "spawn" => Active.p = task.p
  /\ pc = "balance" \/ (pc = "stop" /\ task.after = "balance") => Active # NoBook
  /\ pc \in {"build", "confirm", "final"} => Active.p = task.p
  /\ pc \in {"drop", "settled"} \/ (pc = "stop" /\ task.after = "drop") => Active.p \in Terminal

StepsInv == MemoryOK /\ TaskOK /\ ChainOK /\ BookOK

LEMMA Constants ==
  /\ "none" \notin Positions
  /\ PRINCIPAL \in Nat /\ OWN_SOL \in Nat /\ DRAW_TX_FEE \in Nat /\ SETTLE_FEE \in Nat
  /\ RENT \in Nat /\ DURATION \in Nat /\ HOLD_SECS \in Nat /\ BUFFER_SECS \in Nat
  /\ ADOPT_DELAY_SECS \in Nat /\ TX_LIFE_SECS \in Nat
BY SdkRunnerAssumption

LEMMA MinMax ==
  \A a, b \in Int : /\ MinOf(a, b) \in Int /\ MaxOf(a, b) \in Int
                    /\ a \in Nat /\ b \in Nat => MaxOf(a, b) \in Nat
BY DEF MinOf, MaxOf

LEMMA TerminalIs ==
  \A p : p \in Terminal <=>
           p \in Positions /\ position[p].status \in {"settled", "defaulted", "cancelled"}
BY DEF Terminal, Has

LEMMA SettleTimes ==
  ASSUME ChainOK, NEW p \in Positions, NEW n \in Nat
  PROVE  SettleTime(p, n) \in Int /\ position[p].drawn \in Nat
<1>1. position[p].opened \in Nat /\ position[p].drawn \in Nat
  BY DEF ChainOK
<1>2. Deadline(p) - BUFFER_SECS \in Int /\ n + HOLD_SECS \in Int
  BY <1>1, Constants DEF Deadline
<1> QED BY <1>1, <1>2, MinMax DEF SettleTime

LEMMA BookIs ==
  ASSUME NEW b \in Books
  PROVE  /\ b = NoBook <=> b.p = "none"
         /\ b # NoBook <=> b.p \in Positions
         /\ b.balanceAtDraw \in Int /\ b.settleAt \in Int
BY Constants DEF Books, NoBook

LEMMA Beginnings ==
  /\ NoBook \in Books /\ Empty \in State /\ Started \in Memory /\ NoTask \in Task
  /\ NoBook.p = "none"
BY DEF NoBook, Empty, Started, NoTask, Books, State, Memory, Task
-----------------------------------------------------------------------------
(* What a save writes *)

SetBook(m, b) == [m EXCEPT !.state.active = b]

LEMMA WithBook ==
  ASSUME NEW m \in Memory, NEW b \in Books
  PROVE  /\ SetBook(m, b) \in Memory /\ SetBook(m, b).state.active = b
         /\ SetBook(m, b).state.hookPgid = m.state.hookPgid
         /\ SetBook(m, b).hook = m.hook /\ SetBook(m, b).alerted = m.alerted
<1> DEFINE s == [m.state EXCEPT !.active = b]
<1>1. s \in State /\ s.active = b /\ s.hookPgid = m.state.hookPgid
  BY DEF Memory, State
<1>2. SetBook(m, b) = [m EXCEPT !.state = s]
  BY DEF Memory, SetBook
<1> HIDE DEF s
<1> QED BY <1>1, <1>2 DEF Memory

SetSettled(m, k) == [m EXCEPT !.state.active = NoBook, !.state.minSlot = MaxOf(@, k)]

LEMMA WithSettle ==
  ASSUME NEW m \in Memory, NEW k \in Nat
  PROVE  /\ SetSettled(m, k) \in Memory /\ SetSettled(m, k).state.active = NoBook
         /\ SetSettled(m, k).state.hookPgid = m.state.hookPgid
         /\ SetSettled(m, k).hook = m.hook /\ SetSettled(m, k).alerted = m.alerted
<1> DEFINE k2 == MaxOf(m.state.minSlot, k)
           s == [m.state EXCEPT !.active = NoBook, !.minSlot = k2]
<1>1. k2 \in Nat
  BY DEF Memory, State, MaxOf
<1>2. SetSettled(m, k) = [m EXCEPT !.state = s]
  BY DEF Memory, State, SetSettled
<1> HIDE DEF k2
<1>3. s \in State /\ s.active = NoBook /\ s.hookPgid = m.state.hookPgid
  BY <1>1, Beginnings DEF Memory, State
<1> HIDE DEF s
<1> QED BY <1>2, <1>3 DEF Memory

LEMMA WithGroup ==
  ASSUME NEW m \in Memory, NEW n, n = [m EXCEPT !.state.hookPgid = TRUE]
  PROVE  /\ n \in Memory /\ n.state.active = m.state.active /\ n.state.hookPgid
         /\ n.hook = m.hook /\ n.alerted = m.alerted
<1> DEFINE s == [m.state EXCEPT !.hookPgid = TRUE]
<1>1. s \in State /\ s.active = m.state.active /\ s.hookPgid
  BY DEF Memory, State
<1>2. n = [m EXCEPT !.state = s]
  BY DEF Memory
<1> HIDE DEF s
<1> QED BY <1>1, <1>2 DEF Memory

ForgetHook(m) == [m EXCEPT !.state.hookPgid = FALSE, !.hook = FALSE, !.hookExited = FALSE]

LEMMA WithoutHook ==
  ASSUME NEW m \in Memory
  PROVE  /\ ForgetHook(m) \in Memory /\ ForgetHook(m).state.active = m.state.active
         /\ ForgetHook(m).alerted = m.alerted
         /\ ~m.state.hookPgid => ForgetHook(m).state = m.state
<1> DEFINE s == [m.state EXCEPT !.hookPgid = FALSE]
<1>1. /\ s \in State /\ s.active = m.state.active
      /\ ~m.state.hookPgid => s = m.state
  BY DEF Memory, State
<1>2. ForgetHook(m) = [m EXCEPT !.state = s, !.hook = FALSE, !.hookExited = FALSE]
  BY DEF Memory, ForgetHook
<1> HIDE DEF s
<1> QED BY <1>1, <1>2 DEF Memory

\* A save puts what is in memory into the file.
LEMMA Saved ==
  ASSUME file \in File, NEW m \in Memory, Save(m)
  PROVE  /\ mem' = m /\ MemoryOK'
         /\ file'.kind = "good" /\ file'.json = m.state
<1>1. m.state \in State /\ file.json \in State /\ file.bak \in State
  BY DEF Memory, File
<1> QED BY <1>1 DEF Save, File, MemoryOK
-----------------------------------------------------------------------------
(* The steps come in kinds *)

\* Only the step of the tick and what it carries change; a transaction may be signed.
Thinks == Keep /\ UNCHANGED <<now, position, wallet, bound, made, hook>> /\ txs \subseteq txs'

\* The chain, the hook or the traders move.
Happens ==
  \/ RunnerOnly /\ (Lands \/ Tick)
  \/ Stall \/ Bind \/ Unbind \/ HookTrades
  \/ \E p \in Positions : Open(p) \/ Cancel(p) \/ Claim(p)

Thinking == Look \/ Scan \/ ReadReserve \/ SendDraw \/ DrawErrors \/ ReadBalance \/ Build
              \/ SettleThrows \/ Confirm \/ FinalCheck \/ Calls
Writing  == DropBook \/ Adopt \/ DrawReturns \/ SaveGroup \/ Settled

LEMMA StepKinds ==
  ASSUME [Next]_vars
  PROVE  \/ UNCHANGED vars \/ Thinking \/ Writing \/ Happens
         \/ StopHook \/ StartTick \/ StartHook \/ HookExits \/ Exit \/ Restart
<1>1. CASE Runner \/ Calls
  BY <1>1 DEF Runner, Thinking, Writing
<1>2. CASE Lands
  <2>1. PICK tx \in txs : DrawLands(tx) \/ SettleLands(tx) \/ Gone(tx)
    BY <1>2 DEF Lands
  <2>2. RunnerOnly
    BY <2>1 DEF DrawLands, SettleLands, Gone
  <2> QED BY <1>2, <2>2 DEF Happens
<1>3. CASE Tick \/ Bind \/ Others
  BY <1>3 DEF Tick, Others, Happens
<1> QED BY <1>1, <1>2, <1>3 DEF Next

LEMMA ThinkingIs ==
  ASSUME Thinking
  PROVE  Thinks
<1> USE DEF Thinks, Quiet, chain, Keep
<1>1. CASE Look \/ Scan \/ ReadReserve
  BY <1>1 DEF Look, Scan, ReadReserve
<1>2. CASE SendDraw
  BY <1>2 DEF SendDraw
<1>3. CASE DrawErrors \/ ReadBalance \/ SettleThrows
  BY <1>3 DEF DrawErrors, ReadBalance, SettleThrows
<1>4. CASE Build
  BY <1>4 DEF Build
<1>5. CASE Confirm \/ FinalCheck
  BY <1>5 DEF Confirm, FinalCheck
<1>6. CASE Calls
  BY <1>6 DEF Calls, CallFails
<1> QED BY <1>1, <1>2, <1>3, <1>4, <1>5, <1>6 DEF Thinking

LEMMA HappensIs ==
  ASSUME Happens
  PROVE  UNCHANGED <<mem, file, pc, task>>
BY DEF Happens, RunnerOnly, Stall, Bind, Unbind, HookTrades, Open, Cancel, Claim, TraderMoves

\* What is left of a tick when it ends.
LEMMA Ended ==
  ASSUME EndTick
  PROVE  pc' = "sleep" /\ task' = NoTask
BY DEF EndTick

\* The books that are written.
LEMMA WritingIs ==
  ASSUME StepsInv, Writing
  PROVE  /\ MemoryOK' /\ file'.kind = "good" /\ file'.json = mem'.state
         /\ UNCHANGED chain /\ UNCHANGED <<now, hook>>
         /\ mem'.hook = mem.hook /\ mem'.alerted = mem.alerted
         /\ \/ pc \in {"drop", "settled"} /\ mem'.state.active = NoBook
            \/ /\ pc = "adopt" /\ mem'.state.active.p = task.p
               /\ mem'.state.active.balanceAtDraw \in {wallet.lamports, wallet.before}
               /\ LaggingReads = {} => mem'.state.active.balanceAtDraw = wallet.lamports
            \/ /\ pc = "drawing" /\ mem'.state.active.p = task.p /\ DrawReturns
               /\ mem'.state.active.balanceAtDraw = BalanceAtDraw(task.amount)
            \/ /\ pc = "spawned" /\ mem'.state.active = Active /\ mem'.state.hookPgid
         /\ pc # "spawned" => mem'.state.hookPgid = mem.state.hookPgid
         /\ \/ pc = "drawing" /\ pc' = "spawn" /\ task' = task
            \/ pc # "drawing" /\ pc' = "sleep" /\ task' = NoTask
<1>1. mem \in Memory /\ file \in File /\ NoBook \in Books /\ task.amount \in Int
      /\ wallet.lamports \in Int /\ wallet.before \in Int /\ wallet.slot \in Nat
      /\ position \in [Positions -> [status : Statuses, opened : Nat, drawn : Nat]] /\ now \in Nat
  BY Beginnings DEF StepsInv, MemoryOK, ChainOK, TaskOK, Task
<1>2. CASE DropBook
  <2> DEFINE m == SetBook(mem, NoBook)
  <2>1. Save(m) /\ pc = "drop" /\ EndTick /\ Quiet
    BY <1>2 DEF DropBook, SetBook
  <2>2. m \in Memory /\ m.state.active = NoBook /\ m.state.hookPgid = mem.state.hookPgid
        /\ m.hook = mem.hook /\ m.alerted = mem.alerted
    BY <1>1, WithBook
  <2> HIDE DEF m
  <2> QED BY <1>1, <2>1, <2>2, Saved, Ended DEF Quiet, chain
<1>3. CASE Settled
  <2> DEFINE m == SetSettled(mem, wallet.slot)
  <2>1. Save(m) /\ pc = "settled" /\ EndTick /\ Quiet
    BY <1>3 DEF Settled, SetSettled
  <2>2. m \in Memory /\ m.state.active = NoBook /\ m.state.hookPgid = mem.state.hookPgid
        /\ m.hook = mem.hook /\ m.alerted = mem.alerted
    BY <1>1, WithSettle
  <2> HIDE DEF m
  <2> QED BY <1>1, <2>1, <2>2, Saved, Ended DEF Quiet, chain
<1>4. CASE Adopt
  <2>1. PICK balance \in {wallet.lamports, wallet.before} :
          /\ pc = "adopt" /\ EndTick /\ Reads(balance) /\ Quiet
          /\ Save([mem EXCEPT !.state.active =
               [p |-> task.p, balanceAtDraw |-> balance,
                settleAt |-> MaxOf(SettleTime(task.p, position[task.p].drawn),
                                   now + ADOPT_DELAY_SECS)]])
    BY <1>4 DEF Adopt
  <2> DEFINE at == MaxOf(SettleTime(task.p, position[task.p].drawn), now + ADOPT_DELAY_SECS)
             b == [p |-> task.p, balanceAtDraw |-> balance, settleAt |-> at]
             m == SetBook(mem, b)
  <2>2. task.p \in Positions
    BY <2>1 DEF StepsInv, TaskOK
  <2>3. at \in Int
    <3>1. position[task.p].drawn \in Nat
      BY <2>2, <1>1, SettleTimes DEF StepsInv
    <3>2. SettleTime(task.p, position[task.p].drawn) \in Int /\ now + ADOPT_DELAY_SECS \in Int
      BY <1>1, <2>2, <3>1, SettleTimes, Constants DEF StepsInv
    <3> QED BY <3>2, MinMax
  <2>4. Save(m)
    BY <2>1 DEF SetBook
  <2> HIDE DEF at
  <2>5. b \in Books /\ b.p = task.p /\ b.balanceAtDraw = balance
    BY <1>1, <2>1, <2>2, <2>3 DEF Books
  <2>6. LaggingReads = {} => balance = wallet.lamports
    BY <2>1 DEF Reads
  <2> HIDE DEF b
  <2>7. m \in Memory /\ m.state.active = b /\ m.state.hookPgid = mem.state.hookPgid
        /\ m.hook = mem.hook /\ m.alerted = mem.alerted
    BY <1>1, <2>5, WithBook
  <2> HIDE DEF m
  <2> QED BY <1>1, <2>1, <2>4, <2>5, <2>6, <2>7, Saved, Ended DEF Quiet, chain
<1>5. CASE DrawReturns
  <2> DEFINE b == [p |-> task.p, balanceAtDraw |-> BalanceAtDraw(task.amount),
                   settleAt |-> SettleTime(task.p, now)]
             m == SetBook(mem, b)
  <2>1. Save(m) /\ pc = "drawing" /\ pc' = "spawn" /\ Quiet /\ UNCHANGED task
    BY <1>5 DEF DrawReturns, Goto, To, SetBook
  <2>2. task.p \in Positions
    BY <2>1 DEF StepsInv, TaskOK
  <2>3. SettleTime(task.p, now) \in Int /\ BalanceAtDraw(task.amount) \in Int
    BY <1>1, <2>2, SettleTimes, Constants DEF StepsInv, BalanceAtDraw
  <2>5. b \in Books /\ b.p = task.p /\ b.balanceAtDraw = BalanceAtDraw(task.amount)
    BY <2>2, <2>3 DEF Books
  <2> HIDE DEF b
  <2>7. m \in Memory /\ m.state.active = b /\ m.state.hookPgid = mem.state.hookPgid
        /\ m.hook = mem.hook /\ m.alerted = mem.alerted
    BY <1>1, <2>5, WithBook
  <2> HIDE DEF m
  <2> QED BY <1>1, <1>5, <2>1, <2>5, <2>7, Saved DEF Quiet, chain
<1>6. CASE SaveGroup
  <2> DEFINE m == [mem EXCEPT !.state.hookPgid = TRUE]
  <2>1. Save(m) /\ pc = "spawned" /\ EndTick /\ Quiet
    BY <1>6 DEF SaveGroup
  <2>m. m = [mem EXCEPT !.state.hookPgid = TRUE]
    OBVIOUS
  <2> HIDE DEF m
  <2>2. m \in Memory /\ m.state.active = mem.state.active /\ m.state.hookPgid
        /\ m.hook = mem.hook /\ m.alerted = mem.alerted
    BY <1>1, <2>m, WithGroup
  <2> QED BY <1>1, <2>1, <2>2, Saved, Ended DEF Quiet, chain, Active
<1> QED BY <1>2, <1>3, <1>4, <1>5, <1>6 DEF Writing

\* What the other steps of the runner and its hook leave in memory.
LEMMA OtherSteps ==
  ASSUME StepsInv
  PROVE  /\ StopHook =>
              /\ MemoryOK' /\ mem'.state.active = Active /\ mem'.alerted = mem.alerted
              /\ \/ file'.kind = "good" /\ file'.json = mem'.state
                 \/ file' = file /\ mem'.state = mem.state
         /\ StartTick => MemoryOK' /\ mem'.state = mem.state /\ mem'.hook = mem.hook
                           /\ mem'.alerted = mem.alerted
         /\ StartHook => MemoryOK' /\ mem'.state = mem.state /\ mem'.hook
                           /\ mem'.alerted = mem.alerted
         /\ HookExits => MemoryOK' /\ mem'.state = mem.state /\ mem'.hook = mem.hook
                           /\ mem'.alerted = mem.alerted
         /\ Exit => MemoryOK' /\ mem'.alerted = mem.alerted
                      /\ (file' = file \/ file'.kind = "torn")
         /\ Restart => MemoryOK' /\ mem'.state = Loaded /\ ~mem'.hook
                         /\ mem'.alerted = (mem.alerted \/ file.kind = "torn")
                         /\ (file.kind # "torn" => file' = file)
<1>1. mem \in Memory /\ file \in File /\ Started \in Memory /\ Empty \in State
      /\ file.json \in State /\ file.bak \in State /\ mem.state \in State
  BY Beginnings DEF StepsInv, MemoryOK, File, Memory
<1>2. ASSUME StopHook
      PROVE  /\ MemoryOK' /\ mem'.state.active = Active /\ mem'.alerted = mem.alerted
             /\ \/ file'.kind = "good" /\ file'.json = mem'.state
                \/ file' = file /\ mem'.state = mem.state
  <2> DEFINE m == ForgetHook(mem)
  <2>1. IF mem.state.hookPgid THEN Save(m) ELSE mem' = m /\ UNCHANGED file
    BY <1>2 DEF StopHook, ForgetHook
  <2>2. m \in Memory /\ m.state.active = mem.state.active /\ m.alerted = mem.alerted
        /\ (~mem.state.hookPgid => m.state = mem.state)
    BY <1>1, WithoutHook
  <2> HIDE DEF m
  <2>3. CASE mem.state.hookPgid
    BY <1>1, <2>1, <2>2, <2>3, Saved DEF Active
  <2>4. CASE ~mem.state.hookPgid
    BY <1>1, <2>1, <2>2, <2>4 DEF MemoryOK, Active
  <2> QED BY <2>3, <2>4
<1>3. ASSUME StartTick
      PROVE  MemoryOK' /\ mem'.state = mem.state /\ mem'.hook = mem.hook
               /\ mem'.alerted = mem.alerted
  <2>1. PICK unbound \in {mem.unbound, ~bound} : mem' = [mem EXCEPT !.unbound = unbound]
    BY <1>3 DEF StartTick
  <2>2. unbound \in BOOLEAN /\ file' = file
    BY <1>1, <1>3 DEF StartTick, StepsInv, ChainOK, Memory
  <2> QED BY <1>1, <2>1, <2>2 DEF MemoryOK, Memory
<1>4. ASSUME StartHook
      PROVE  MemoryOK' /\ mem'.state = mem.state /\ mem'.hook /\ mem'.alerted = mem.alerted
  <2>1. PICK exited \in BOOLEAN : mem' = [mem EXCEPT !.hook = TRUE, !.hookExited = exited]
    BY <1>4 DEF StartHook
  <2> QED BY <1>1, <1>4, <2>1 DEF StartHook, MemoryOK, Memory
<1>5. ASSUME HookExits
      PROVE  MemoryOK' /\ mem'.state = mem.state /\ mem'.hook = mem.hook
               /\ mem'.alerted = mem.alerted
  BY <1>1, <1>5 DEF HookExits, MemoryOK, Memory
<1>6. ASSUME Exit
      PROVE  MemoryOK' /\ mem'.alerted = mem.alerted /\ (file' = file \/ file'.kind = "torn")
  <2>1. mem' \in Memory /\ mem'.alerted = mem.alerted
    BY <1>1, <1>6 DEF Exit, Memory
  <2>2. file' \in File /\ (file' = file \/ file'.kind = "torn")
    BY <1>1, <1>6 DEF Exit, File
  <2> QED BY <2>1, <2>2 DEF MemoryOK
<1>7. ASSUME Restart
      PROVE  /\ MemoryOK' /\ mem'.state = Loaded /\ ~mem'.hook
             /\ mem'.alerted = (mem.alerted \/ file.kind = "torn")
             /\ (file.kind # "torn" => file' = file)
  <2>1. Loaded \in State
    BY <1>1 DEF Loaded
  <2>2. file' \in File /\ (file.kind # "torn" => file' = file)
    BY <1>1, <1>7 DEF Restart, File
  <2>3. (mem.alerted \/ file.kind = "torn") \in BOOLEAN
    OBVIOUS
  <2>4. mem' = [Started EXCEPT !.state = Loaded, !.alerted = mem.alerted \/ file.kind = "torn"]
    BY <1>7 DEF Restart
  <2>5. ~Started.hook
    BY DEF Started
  <2> QED BY <1>1, <2>1, <2>2, <2>3, <2>4, <2>5 DEF MemoryOK, Memory
<1> QED BY <1>2, <1>3, <1>4, <1>5, <1>6, <1>7
-----------------------------------------------------------------------------
(* What happens on the chain *)

\* A position takes one step of its life, or keeps its record.
LEMMA PositionMoves ==
  ASSUME StepsInv, [Next]_vars
  PROVE  /\ position' \in [Positions -> [status : Statuses, opened : Nat, drawn : Nat]]
         /\ \A p \in Positions :
              \/ position'[p] = position[p]
              \/ position[p].status = "absent" /\ position'[p].status = "open"
              \/ position[p].status = "open" /\ position'[p].status = "cancelled"
              \/ /\ position[p].status = "open" /\ position'[p].status = "trading"
                 /\ \E tx \in txs : DrawLands(tx) /\ tx.p = p
              \/ position[p].status = "trading" /\ position'[p].status = "defaulted"
              \/ /\ position[p].status = "trading" /\ position'[p].status = "settled"
                 /\ \E tx \in txs : SettleLands(tx) /\ tx.p = p
<1> DEFINE Goal ==
      /\ position' \in [Positions -> [status : Statuses, opened : Nat, drawn : Nat]]
      /\ \A p \in Positions :
              \/ position'[p] = position[p]
              \/ position[p].status = "absent" /\ position'[p].status = "open"
              \/ position[p].status = "open" /\ position'[p].status = "cancelled"
              \/ /\ position[p].status = "open" /\ position'[p].status = "trading"
                 /\ \E tx \in txs : DrawLands(tx) /\ tx.p = p
              \/ position[p].status = "trading" /\ position'[p].status = "defaulted"
              \/ /\ position[p].status = "trading" /\ position'[p].status = "settled"
                 /\ \E tx \in txs : SettleLands(tx) /\ tx.p = p
<1>1. position \in [Positions -> [status : Statuses, opened : Nat, drawn : Nat]] /\ now \in Nat
      /\ txs \subseteq Tran
  BY DEF StepsInv, ChainOK
<1>2. CASE UNCHANGED position
  BY <1>1, <1>2
<1>3. ASSUME NEW p \in Positions, Open(p)
      PROVE  Goal
  BY <1>1, <1>3 DEF Open, TraderMoves, SetPosition, Statuses
<1>4. ASSUME NEW p \in Positions, Cancel(p) \/ Claim(p)
      PROVE  Goal
  BY <1>1, <1>4 DEF Cancel, Claim, TraderMoves, SetPosition, Statuses
<1>5. ASSUME NEW tx \in txs, DrawLands(tx)
      PROVE  Goal
  <2>1. tx.p \in Positions /\ position[tx.p].status = "open"
        /\ position' = [position EXCEPT ![tx.p] =
                          [position[tx.p] EXCEPT !.status = "trading", !.drawn = now]]
    BY <1>1, <1>5 DEF DrawLands, CanDraw, SetPosition, Tran
  <2> QED BY <1>1, <1>5, <2>1 DEF Statuses
<1>6. ASSUME NEW tx \in txs, SettleLands(tx)
      PROVE  Goal
  <2>1. tx.p \in Positions /\ position[tx.p].status = "trading"
        /\ position' = [position EXCEPT ![tx.p] = [position[tx.p] EXCEPT !.status = "settled"]]
    BY <1>1, <1>6 DEF SettleLands, CanSettle, SetPosition, Tran
  <2> QED BY <1>1, <1>6, <2>1 DEF Statuses
<1>7. CASE Thinking \/ Writing
  BY <1>2, <1>7, ThinkingIs, WritingIs DEF Thinks, chain
<1>8. CASE Happens
  <2>1. CASE \E p \in Positions : Open(p) \/ Cancel(p) \/ Claim(p)
    BY <1>3, <1>4, <2>1
  <2>2. CASE Lands
    <3>1. PICK tx \in txs : DrawLands(tx) \/ SettleLands(tx) \/ Gone(tx)
      BY <2>2 DEF Lands
    <3>2. Gone(tx) => UNCHANGED position
      BY DEF Gone
    <3> QED BY <1>2, <1>5, <1>6, <3>1, <3>2
  <2>3. CASE Tick \/ Stall \/ Bind \/ Unbind \/ HookTrades
    BY <1>2, <2>3 DEF Tick, Stall, Bind, Unbind, HookTrades, chain
  <2> QED BY <1>8, <2>1, <2>2, <2>3 DEF Happens
<1>9. CASE StopHook \/ StartTick \/ StartHook \/ HookExits \/ Exit \/ Restart
  BY <1>2, <1>9 DEF StopHook, StartTick, StartHook, HookExits, Exit, Restart, chain
<1>10. CASE UNCHANGED vars
  BY <1>2, <1>10 DEF vars, chain
<1> QED BY <1>7, <1>8, <1>9, <1>10, StepKinds

LEMMA TerminalStays ==
  ASSUME StepsInv, [Next]_vars
  PROVE  \A p : p \in Terminal => p \in Terminal'
<1>1. \A p : p \in Terminal' <=>
           p \in Positions /\ position'[p].status \in {"settled", "defaulted", "cancelled"}
  BY DEF Terminal, Has
<1> QED BY <1>1, TerminalIs, PositionMoves

\* Only the runner's two sends put a transaction in flight, and nothing but a hook that
\* was just spawned starts to run.
LEMMA SendsAndHooks ==
  ASSUME [Next]_vars
  PROVE  /\ \/ txs' \subseteq txs
            \/ SendDraw /\ pc = "draw" /\ pc' = "drawing" /\ txs' = txs \cup {Tx("draw")'}
                 /\ CanDraw(task.p) /\ task' = [task EXCEPT !.sent = now]
            \/ Build /\ pc = "build" /\ pc' = "confirm" /\ txs' = txs \cup {Tx("settle")'}
                 /\ CanSettle(Tx("settle")) /\ task' = [task EXCEPT !.sent = now, !.builds = @ + 1]
         /\ \/ hook' = hook
            \/ hook' = NoHook
            \/ HookExits /\ hook' = [hook EXCEPT !.shell = FALSE] /\ hook # NoHook
            \/ StartHook /\ pc = "spawn" /\ pc' = "spawned" /\ hook' = [p |-> task.p, shell |-> TRUE]
<1>1. CASE Thinking
  <2>1. hook' = hook
    BY <1>1, ThinkingIs DEF Thinks
  <2>2. CASE SendDraw
    BY <2>1, <2>2 DEF SendDraw, To, EndTick
  <2>3. CASE Build
    BY <2>1, <2>3 DEF Build, To
  <2>4. CASE Look \/ Scan \/ ReadReserve \/ DrawErrors \/ ReadBalance \/ SettleThrows \/ Confirm
             \/ FinalCheck \/ Calls
    BY <2>1, <2>4 DEF Look, Scan, ReadReserve, DrawErrors, ReadBalance, SettleThrows, Confirm,
                      FinalCheck, Calls, CallFails, Quiet, chain
  <2> QED BY <1>1, <2>2, <2>3, <2>4 DEF Thinking
<1>2. CASE Writing
  BY <1>2 DEF Writing, DropBook, Adopt, DrawReturns, SaveGroup, Settled, Quiet, chain
<1>3. CASE Happens
  <2>1. CASE Lands
    <3>1. PICK tx \in txs : DrawLands(tx) \/ SettleLands(tx) \/ Gone(tx)
      BY <2>1 DEF Lands
    <3> QED BY <3>1 DEF DrawLands, SettleLands, Gone
  <2>2. CASE Tick \/ Stall \/ Bind \/ Unbind \/ HookTrades
    BY <2>2 DEF Tick, Stall, Bind, Unbind, HookTrades, chain
  <2>3. CASE \E p \in Positions : Open(p) \/ Cancel(p) \/ Claim(p)
    BY <2>3 DEF Open, Cancel, Claim, TraderMoves
  <2> QED BY <1>3, <2>1, <2>2, <2>3 DEF Happens
<1>4. CASE StopHook \/ StartTick \/ Exit \/ Restart
  BY <1>4 DEF StopHook, StartTick, Exit, Restart, chain
<1>5. CASE StartHook
  BY <1>5 DEF StartHook, chain, To, EndTick
<1>6. CASE HookExits
  BY <1>6 DEF HookExits, chain
<1>7. CASE UNCHANGED vars
  BY <1>7 DEF vars, chain
<1> QED BY <1>1, <1>2, <1>3, <1>4, <1>5, <1>6, <1>7, StepKinds

LEMMA ChainTypes ==
  ASSUME StepsInv, [Next]_vars
  PROVE  ChainOK'
<1>1. ChainOK /\ task \in Task
  BY DEF StepsInv, TaskOK
<1>2. txs' \subseteq Tran
  <2>1. ASSUME task.p \in Positions, task' \in {[task EXCEPT !.sent = now],
                                                [task EXCEPT !.sent = now, !.builds = @ + 1]},
               NEW kind \in {"draw", "settle"}
        PROVE  Tx(kind)' \in Tran
    BY <1>1, <2>1 DEF ChainOK, Tx, Task, Tran
  <2>2. pc \in {"draw", "build"} => task.p \in Positions
    BY DEF StepsInv, TaskOK
  <2> QED BY <1>1, <2>1, <2>2, SendsAndHooks DEF ChainOK
<1>3. hook' \in {NoHook} \cup [p : Positions, shell : BOOLEAN]
  <2>1. pc = "spawn" => task.p \in Positions
    BY DEF StepsInv, TaskOK
  <2>2. hook \in {NoHook} \cup [p : Positions, shell : BOOLEAN]
    BY <1>1 DEF ChainOK
  <2>3. hook # NoHook => [hook EXCEPT !.shell = FALSE] \in [p : Positions, shell : BOOLEAN]
    BY <2>2
  <2>4. pc = "spawn" => [p |-> task.p, shell |-> TRUE] \in [p : Positions, shell : BOOLEAN]
    BY <2>1
  <2> QED BY <2>2, <2>3, <2>4, SendsAndHooks
<1>4. wallet' \in [lamports : Int, slot : Nat, before : Int, last : {"none", "draw", "settle"}]
      /\ made' \in [Positions -> Int] /\ now' \in Nat /\ bound' \in BOOLEAN
  <2> DEFINE W == [lamports : Int, slot : Nat, before : Int, last : {"none", "draw", "settle"}]
  <2>0. wallet \in W /\ made \in [Positions -> Int] /\ now \in Nat /\ bound \in BOOLEAN
        /\ wallet.lamports \in Int /\ wallet.slot \in Nat
    BY <1>1 DEF ChainOK
  <2>1. ASSUME NEW n \in Int, NEW kind \in {"draw", "settle"}
        PROVE  Moved(n, kind) \in W
    BY <2>0 DEF Moved
  <2>2. CASE UNCHANGED <<now, wallet, bound, made>>
    BY <2>0, <2>2
  <2>3. CASE Thinking \/ Writing
    BY <2>2, <2>3, ThinkingIs, WritingIs DEF Thinks, chain
  <2>4. CASE Happens
    <3>1. CASE Lands
      <4>1. PICK tx \in txs : DrawLands(tx) \/ SettleLands(tx) \/ Gone(tx)
        BY <3>1 DEF Lands
      <4>2. tx.amount \in Int
        BY <1>1 DEF ChainOK, Tran
      <4>3. CASE DrawLands(tx)
        <5>1. wallet.lamports + PRINCIPAL - DRAW_TX_FEE \in Int
          BY <2>0, Constants
        <5> QED BY <2>0, <2>1, <4>3, <5>1 DEF DrawLands
      <4>4. CASE SettleLands(tx)
        <5>1. wallet.lamports - tx.amount - SETTLE_FEE \in Int
          BY <2>0, <4>2, Constants
        <5> QED BY <2>0, <2>1, <4>4, <5>1 DEF SettleLands
      <4>5. CASE Gone(tx)
        BY <2>2, <4>5 DEF Gone
      <4> QED BY <4>1, <4>3, <4>4, <4>5
    <3>2. CASE Tick \/ Stall \/ Bind \/ Unbind
      <4>1. wallet' = wallet /\ made' = made
        BY <3>2 DEF Tick, Stall, Bind, Unbind, chain
      <4>2. now' \in Nat
        BY <2>0, <3>2 DEF Tick, Stall, Bind, Unbind, chain
      <4>3. bound' \in BOOLEAN
        BY <2>0, <3>2 DEF Tick, Stall, Bind, Unbind, chain
      <4> QED BY <2>0, <4>1, <4>2, <4>3
    <3>3. CASE HookTrades
      <4>1. PICK gain \in {-1, 1} :
              /\ wallet' = [wallet EXCEPT !.lamports = @ + gain]
              /\ made' = [made EXCEPT ![hook.p] = @ + gain]
        BY <3>3 DEF HookTrades
      <4>2. hook.p \in Positions
        BY <1>1, <3>3 DEF ChainOK, HookTrades
      <4>3. wallet' \in W
        BY <2>0, <4>1
      <4>4. made' \in [Positions -> Int]
        BY <2>0, <4>1, <4>2
      <4> QED BY <2>0, <3>3, <4>3, <4>4 DEF HookTrades
    <3>4. CASE \E p \in Positions : Open(p) \/ Cancel(p) \/ Claim(p)
      BY <2>2, <3>4 DEF Open, Cancel, Claim, TraderMoves
    <3> QED BY <2>4, <3>1, <3>2, <3>3, <3>4 DEF Happens
  <2>5. CASE StopHook \/ StartTick \/ StartHook \/ HookExits \/ Exit \/ Restart
    BY <2>2, <2>5 DEF StopHook, StartTick, StartHook, HookExits, Exit, Restart, chain
  <2>6. CASE UNCHANGED vars
    BY <2>2, <2>6 DEF vars, chain
  <2> QED BY <2>3, <2>4, <2>5, <2>6, StepKinds
<1> QED BY <1>2, <1>3, <1>4, PositionMoves DEF ChainOK

\* Reading a balance or settling with it leaves a task of numbers.
LEMMA TaskTypes ==
  ASSUME StepsInv, [Next]_vars
  PROVE  TaskOK'
<1>1. TaskOK /\ task \in Task /\ pc \in Labels /\ now \in Nat /\ wallet.lamports \in Int
      /\ wallet.before \in Int /\ NoTask \in Task
  BY Beginnings DEF StepsInv, TaskOK, ChainOK
<1>2. Active \in Books
  BY DEF StepsInv, MemoryOK, Memory, State, Active
<1>3. CASE UNCHANGED <<pc, task>>
  BY <1>1, <1>3 DEF TaskOK
<1>4. CASE EndTick
  BY <1>1, <1>4 DEF EndTick, TaskOK, Labels
<1>5. CASE Thinking
  <2>1. CASE Look
    BY <1>1, <1>4, <2>1 DEF Look, To, TaskOK, Labels, NoTask, Task
  <2>2. CASE Scan
    <3>1. Has("trading") \subseteq Positions /\ NextToDraw \subseteq Positions
      BY DEF Has, NextToDraw
    <3> QED BY <1>1, <1>4, <2>2, <3>1 DEF Scan, To, TaskOK, Labels, NoTask, Task
  <2>3. CASE ReadReserve
    <3>1. PICK balance \in Int : \/ EndTick
                                 \/ To("draw") /\ task' = [task EXCEPT !.amount = balance]
      BY <1>1, <2>3 DEF ReadReserve
    <3> QED BY <1>1, <1>4, <2>3, <3>1 DEF ReadReserve, To, TaskOK, Labels, Task
  <2>4. CASE SendDraw
    BY <1>1, <1>4, <2>4 DEF SendDraw, To, TaskOK, Labels, Task
  <2>5. CASE DrawErrors \/ SettleThrows
    BY <1>4, <2>5 DEF DrawErrors, SettleThrows
  <2>6. CASE ReadBalance
    <3>1. PICK balance \in Int : task' = [NoTask EXCEPT !.p = Active.p, !.amount = Returned(balance)]
      BY <1>1, <2>6 DEF ReadBalance
    <3>2. Returned(balance) \in Int
      BY <1>2, <3>1, BookIs, Constants DEF Returned, MaxOf, walletReserve
    <3>3. Active.p \in Positions
      BY <1>2, <2>6, BookIs DEF StepsInv, BookOK, ReadBalance, Goto
    <3> QED BY <1>1, <2>6, <3>1, <3>2, <3>3 DEF ReadBalance, Goto, To, TaskOK, Labels, Task
  <2>7. CASE Build
    <3> DEFINE t == [task EXCEPT !.sent = now, !.builds = @ + 1]
    <3>0. task.builds + 1 \in Nat
      BY <1>1 DEF Task
    <3>1. t \in Task /\ t.p = task.p
      BY <1>1, <3>0 DEF Task
    <3>2. pc = "build" /\ pc' = "confirm" /\ task' = t
      BY <2>7 DEF Build, To
    <3> HIDE DEF t
    <3> QED BY <1>1, <3>1, <3>2 DEF TaskOK, Labels
  <2>8. CASE Confirm
    BY <1>1, <1>4, <2>8 DEF Confirm, To, TaskOK, Labels
  <2>9. CASE FinalCheck
    BY <1>1, <2>9 DEF FinalCheck, To, TaskOK, Labels
  <2>10. CASE Calls
    BY <1>1, <2>10 DEF Calls, CallFails, TaskOK, Labels
  <2> QED
    BY <1>5, <2>1, <2>2, <2>3, <2>4, <2>5, <2>6, <2>7, <2>8, <2>9, <2>10 DEF Thinking
<1>6. CASE Writing
  BY <1>1, <1>6, WritingIs DEF TaskOK, Labels
<1>7. CASE Happens
  BY <1>3, <1>7, HappensIs
<1>8. CASE StopHook
  BY <1>1, <1>8 DEF StopHook, Goto, To, TaskOK, Labels, Task
<1>9. CASE StartTick
  <2>1. pc' \in {"stop", "look"}
    BY <1>9 DEF StartTick, Goto, To
  <2>2. task' \in {[NoTask EXCEPT !.after = "look", !.sent = now], NoTask}
    BY <1>9 DEF StartTick
  <2> QED BY <1>1, <2>1, <2>2 DEF TaskOK, Labels, Task
<1>10. CASE StartHook
  BY <1>1, <1>4, <1>10 DEF StartHook, To, TaskOK, Labels
<1>11. CASE HookExits
  BY <1>3, <1>11 DEF HookExits
<1>12. CASE Exit
  BY <1>1, <1>12 DEF Exit, TaskOK, Labels
<1>13. CASE Restart
  BY <1>1, <1>13 DEF Restart, Goto, To, TaskOK, Labels
<1>14. CASE UNCHANGED vars
  BY <1>3, <1>14 DEF vars
<1> QED
  BY <1>5, <1>6, <1>7, <1>8, <1>9, <1>10, <1>11, <1>12, <1>13, <1>14, StepKinds

LEMMA MemoryTypes ==
  ASSUME StepsInv, [Next]_vars
  PROVE  MemoryOK'
<1>1. CASE Thinking \/ Happens \/ UNCHANGED vars
  BY <1>1, ThinkingIs, HappensIs DEF Thinks, Keep, vars, StepsInv, MemoryOK
<1> QED BY <1>1, StepKinds, WritingIs, OtherSteps

LEMMA BookSteps ==
  ASSUME StepsInv, [Next]_vars
  PROVE  BookOK'
<1>1. BookOK /\ TaskOK /\ (\A p : p \in Terminal => p \in Terminal') /\ Active \in Books
  BY TerminalStays DEF StepsInv, MemoryOK, Memory, State, Active
<1>2. CASE pc' \in {"down", "sleep", "look"}
  BY <1>2 DEF BookOK
<1>3. CASE UNCHANGED <<mem, pc, task>>
  BY <1>1, <1>3 DEF BookOK, Active
<1>4. CASE Thinking
  <2>1. Active' = Active
    BY <1>4, ThinkingIs DEF Thinks, Keep, Active
  <2>2. CASE EndTick
    BY <1>2, <2>2 DEF EndTick
  <2>3. CASE Look
    BY <1>1, <2>1, <2>2, <2>3 DEF Look, To, BookOK, NoTask
  <2>4. CASE Scan
    <3>1. pc = "scan" /\ (EndTick \/ pc' \in {"adopt", "reserve"})
      BY <2>4 DEF Scan, To
    <3> QED BY <1>1, <2>1, <2>2, <3>1 DEF BookOK
  <2>5. CASE ReadReserve
    <3>1. pc = "reserve" /\ (EndTick \/ pc' = "draw")
      BY <2>5 DEF ReadReserve, To
    <3> QED BY <1>1, <2>1, <2>2, <3>1 DEF BookOK
  <2>6. CASE SendDraw
    <3>1. pc = "draw" /\ (EndTick \/ pc' = "drawing")
      BY <2>6 DEF SendDraw, To
    <3> QED BY <1>1, <2>1, <2>2, <3>1 DEF BookOK
  <2>7. CASE DrawErrors \/ SettleThrows
    BY <2>2, <2>7 DEF DrawErrors, SettleThrows
  <2>8. CASE ReadBalance
    <3>1. pc' = "build" /\ task'.p = Active.p
      BY <2>8 DEF ReadBalance, Goto, To, NoTask
    <3> QED BY <1>1, <2>1, <3>1 DEF BookOK
  <2>9. CASE Build
    <3>1. pc = "build" /\ pc' = "confirm" /\ task'.p = task.p
      BY <1>1, <2>9 DEF Build, To, TaskOK, Task
    <3> QED BY <1>1, <2>1, <3>1 DEF BookOK
  <2>10. CASE Confirm \/ FinalCheck
    <3>1. Landed("settle") /\ task.p \in Positions => task.p \in Terminal
      BY TerminalIs DEF Landed
    <3>2. /\ pc \in {"confirm", "final"} /\ (EndTick \/ task' = task)
          /\ EndTick \/ pc' \in {"final", "build"} \/ (pc' = "settled" /\ Landed("settle"))
      BY <2>10 DEF Confirm, FinalCheck, To
    <3> QED BY <1>1, <2>1, <2>2, <3>1, <3>2 DEF BookOK, TaskOK
  <2>11. CASE Calls
    BY <1>2, <2>11 DEF Calls, CallFails
  <2> QED
    BY <1>4, <2>3, <2>4, <2>5, <2>6, <2>7, <2>8, <2>9, <2>10, <2>11 DEF Thinking
<1>5. CASE Writing
  <2>1. CASE pc # "drawing"
    BY <1>2, <1>5, <2>1, WritingIs
  <2>2. CASE pc = "drawing"
    <3>1. pc' = "spawn" /\ task' = task /\ mem'.state.active.p = task.p /\ task.p \in Positions
      BY <1>1, <1>5, <2>2, WritingIs DEF TaskOK
    <3>2. task.p # "none" /\ NoBook.p = "none"
      BY <3>1, Constants, Beginnings
    <3> QED BY <3>1, <3>2 DEF BookOK, Active
  <2> QED BY <2>1, <2>2
<1>6. CASE Happens
  BY <1>3, <1>6, HappensIs
<1>7. CASE StopHook
  <2>1. pc = "stop" /\ pc' = task.after /\ task' = task /\ Active' = Active
    BY <1>7, OtherSteps DEF StopHook, Goto, To, Active
  <2>2. task.after \in {"sleep", "look", "drop", "balance"}
    BY <1>1 DEF TaskOK, Task
  <2> QED BY <1>1, <2>1, <2>2 DEF BookOK
<1>8. CASE StartTick
  <2>1. pc' = "look" \/ (pc' = "stop" /\ task'.after = "look")
    BY <1>8 DEF StartTick, Goto, To, NoTask
  <2> QED BY <2>1 DEF BookOK
<1>9. CASE StartHook
  <2>1. pc = "spawn" /\ (pc' = "sleep" \/ pc' = "spawned") /\ Active' = Active
    BY <1>9, OtherSteps DEF StartHook, EndTick, To, Active
  <2> QED BY <1>1, <2>1 DEF BookOK
<1>10. CASE HookExits
  <2>1. Active' = Active /\ UNCHANGED <<pc, task>>
    BY <1>10, OtherSteps DEF HookExits, Active
  <2> QED BY <1>1, <2>1 DEF BookOK
<1>11. CASE Exit \/ Restart
  BY <1>2, <1>11 DEF Exit, Restart, Goto, To
<1>12. CASE UNCHANGED vars
  BY <1>3, <1>12 DEF vars
<1> QED BY <1>4, <1>5, <1>6, <1>7, <1>8, <1>9, <1>10, <1>11, <1>12, StepKinds

LEMMA StepsAreOrdered == Spec => []StepsInv
<1>1. Init => StepsInv
  <2> SUFFICES ASSUME Init
               PROVE  StepsInv
    OBVIOUS
  <2>1. MemoryOK
    BY Beginnings DEF Init, MemoryOK, File
  <2>2. TaskOK
    BY Beginnings DEF Init, TaskOK, Labels
  <2>3. ChainOK
    BY Constants DEF Init, ChainOK, Statuses
  <2>4. BookOK
    BY DEF Init, BookOK
  <2> QED BY <2>1, <2>2, <2>3, <2>4 DEF StepsInv
<1>2. StepsInv /\ [Next]_vars => StepsInv'
  BY MemoryTypes, TaskTypes, ChainTypes, BookSteps DEF StepsInv
<1> QED BY <1>1, <1>2, PTL DEF Spec
-----------------------------------------------------------------------------
(* Nothing that the hook started runs while the wallet is read *)

\* Unless the operator was told, what the runner would resume from is what it remembers.
FileOK == pc # "down" /\ ~mem.alerted => file.kind # "torn" /\ Loaded = mem.state

\* A hook that runs is one that the runner, or one that starts later, knows of.
HookOK ==
  hook # NoHook /\ ~mem.alerted /\ (pc = "down" => file.kind # "torn") =>
    /\ pc \in {"down", "sleep", "look", "stop", "spawned"}
    /\ pc # "spawned" => Loaded.hookPgid
    /\ pc \in {"look", "spawned"} => mem.hook
    /\ pc # "down" /\ mem.hook => Active # NoBook

HookInv == StepsInv /\ FileOK /\ HookOK

LEMMA FileSteps ==
  ASSUME StepsInv, FileOK, [Next]_vars
  PROVE  FileOK'
<1>1. CASE Thinking \/ Happens \/ UNCHANGED vars
  <2>1. UNCHANGED <<mem, file>>
    BY <1>1, ThinkingIs, HappensIs DEF Thinks, Keep, vars
  <2>2. pc' # "down" => pc # "down"
    <3>1. TaskOK
      BY DEF StepsInv
    <3> QED BY <1>1, <3>1, HappensIs DEF Thinking, Look, Scan, ReadReserve, SendDraw, DrawErrors,
               ReadBalance, Build, SettleThrows, Confirm, FinalCheck, Calls, CallFails, Goto, vars
  <2> QED BY <2>1, <2>2 DEF FileOK, Loaded
<1>2. CASE Writing
  BY <1>2, WritingIs DEF FileOK, Loaded
<1>3. CASE StopHook
  BY <1>3, OtherSteps DEF FileOK, Loaded, StopHook, Goto
<1>4. CASE StartTick
  BY <1>4, OtherSteps DEF FileOK, Loaded, StartTick, Goto
<1>5. CASE StartHook
  BY <1>5, OtherSteps DEF FileOK, Loaded, StartHook
<1>6. CASE HookExits
  BY <1>6, OtherSteps DEF FileOK, Loaded, HookExits
<1>7. CASE Exit
  BY <1>7 DEF FileOK, Exit
<1>8. CASE Restart
  BY <1>8, OtherSteps DEF FileOK, Loaded
<1> QED BY <1>1, <1>2, <1>3, <1>4, <1>5, <1>6, <1>7, <1>8, StepKinds

LEMMA HookSteps ==
  ASSUME ~SPAWN_INTERRUPTED, HookInv, [Next]_vars
  PROVE  HookOK'
<1>1. StepsInv /\ FileOK /\ HookOK /\ StepsInv' /\ FileOK'
  BY FileSteps, MemoryTypes, TaskTypes, ChainTypes, BookSteps DEF HookInv, StepsInv
<1>2. CASE hook' = NoHook
  BY <1>2 DEF HookOK
<1>3. CASE Thinking
  <2>1. UNCHANGED <<mem, file, hook>>
    BY <1>3, ThinkingIs DEF Thinks, Keep
  <2>2. CASE hook = NoHook
    BY <1>2, <2>1, <2>2
  <2>3. CASE pc \notin {"down", "sleep", "look", "stop", "spawned"}
    BY <1>1, <1>2, <2>1, <2>3 DEF HookOK, StepsInv, TaskOK
  <2>4. CASE pc \in {"down", "sleep", "look", "stop", "spawned"} /\ hook # NoHook
    <3>1. pc = "look" /\ (Look \/ CallFails("look"))
      BY <1>3, <2>4 DEF Thinking, Look, Scan, ReadReserve, SendDraw, DrawErrors,
               ReadBalance, Build, SettleThrows, Confirm, FinalCheck, Calls, CallFails, Goto
    <3>2. mem.alerted \/ (Active # NoBook /\ Loaded.hookPgid /\ mem.hook)
      BY <1>1, <2>4, <3>1 DEF HookOK
    <3>3. pc' = "sleep" \/ pc' = "stop" \/ Active = NoBook
      BY <3>1 DEF Look, CallFails, EndTick, To
    <3> QED BY <2>1, <3>2, <3>3 DEF HookOK, Active, Loaded
  <2> QED BY <2>2, <2>3, <2>4
<1>4. CASE Writing
  <2>1. CASE pc = "spawned"
    <3>1. pc' = "sleep" /\ mem'.state.hookPgid /\ mem'.state.active = Active
          /\ file'.kind = "good" /\ file'.json = mem'.state
      BY <1>1, <1>4, <2>1, WritingIs
    <3>2. Active # NoBook
      BY <1>1, <2>1 DEF StepsInv, BookOK
    <3> QED BY <3>1, <3>2 DEF HookOK, Loaded, Active
  <2>2. CASE pc # "spawned"
    <3>1. pc \in {"drop", "settled", "adopt", "drawing"} /\ hook' = hook
          /\ mem'.alerted = mem.alerted
      BY <1>1, <1>4, <2>2, WritingIs
    <3> QED BY <1>1, <1>2, <3>1 DEF HookOK
  <2> QED BY <2>1, <2>2
<1>5. CASE Happens
  <2>1. UNCHANGED <<mem, file, pc>>
    BY <1>5, HappensIs
  <2>2. hook' = hook \/ hook' = NoHook
    BY <1>1, <1>5, SendsAndHooks DEF Happens, HookExits, Stall, Bind, Unbind, HookTrades,
       Lands, Tick, DrawLands, SettleLands, Gone, Open, Cancel, Claim, TraderMoves
  <2> QED BY <1>1, <1>2, <2>1, <2>2 DEF HookOK, Loaded, Active
<1>6. CASE StopHook
  <2>1. pc = "stop" /\ mem'.alerted = mem.alerted /\ hook' \in {hook, NoHook}
        /\ (mem.state.hookPgid => hook' = NoHook)
    BY <1>1, <1>6, OtherSteps DEF StopHook, Goto
  <2>2. hook # NoHook /\ ~mem.alerted => mem.state.hookPgid
    BY <1>1, <2>1 DEF HookOK, FileOK
  <2>3. mem'.alerted => HookOK'
    BY DEF HookOK
  <2> QED BY <1>2, <2>1, <2>2, <2>3
<1>7. CASE StartTick
  <2>1. pc = "sleep" /\ mem'.state = mem.state /\ mem'.hook = mem.hook
        /\ mem'.alerted = mem.alerted /\ hook' = hook /\ file' = file
        /\ pc' = IF mem.state.hookPgid /\ ~mem.hook THEN "stop" ELSE "look"
    BY <1>1, <1>7, OtherSteps DEF StartTick, Goto, To
  <2> QED BY <1>1, <2>1 DEF HookOK, FileOK, Loaded, Active
<1>8. CASE StartHook
  <2>1. pc = "spawn" /\ mem'.hook /\ mem'.state = mem.state /\ mem'.alerted = mem.alerted
        /\ (pc' = "spawned" \/ hook' = hook)
    BY <1>1, <1>8, OtherSteps DEF StartHook, To
  <2>2. Active # NoBook /\ (hook = NoHook \/ mem.alerted)
    BY <1>1, <2>1 DEF HookOK, StepsInv, BookOK
  <2>3. mem'.alerted => HookOK'
    BY DEF HookOK
  <2>4. CASE pc' = "spawned"
    BY <2>1, <2>2, <2>4 DEF HookOK, Active
  <2> QED BY <1>2, <2>1, <2>2, <2>3, <2>4
<1>9. CASE HookExits
  <2>1. UNCHANGED <<file, pc>> /\ mem'.state = mem.state /\ mem'.hook = mem.hook
        /\ mem'.alerted = mem.alerted /\ hook # NoHook
    BY <1>1, <1>9, OtherSteps DEF HookExits
  <2> QED BY <1>1, <2>1 DEF HookOK, Loaded, Active
<1>10. CASE Exit
  <2>1. pc' = "down" /\ mem'.alerted = mem.alerted /\ hook' \in {hook, NoHook}
        /\ pc \notin {"down", "spawned"} /\ (file' = file \/ file'.kind = "torn")
    BY <1>1, <1>10, OtherSteps DEF Exit
  <2> QED BY <1>1, <2>1 DEF HookOK, FileOK, Loaded
<1>11. CASE Restart
  <2>1. pc = "down" /\ pc' = "sleep" /\ hook' = hook /\ ~mem'.hook
        /\ mem'.alerted = (mem.alerted \/ file.kind = "torn")
        /\ (file.kind # "torn" => file' = file)
    BY <1>1, <1>11, OtherSteps DEF Restart, Goto, To
  <2> QED BY <1>1, <2>1 DEF HookOK, Loaded
<1>12. CASE UNCHANGED vars
  BY <1>1, <1>12 DEF vars, HookOK, Loaded, Active
<1> QED BY <1>3, <1>4, <1>5, <1>6, <1>7, <1>8, <1>9, <1>10, <1>11, <1>12, StepKinds

LEMMA HookInvHolds ==
  ASSUME ~SPAWN_INTERRUPTED
  PROVE  Spec => []HookInv
<1>1. Init => FileOK /\ HookOK
  BY DEF Init, FileOK, HookOK
<1>2. HookInv /\ StepsInv' /\ [Next]_vars => HookInv'
  BY FileSteps, HookSteps DEF HookInv
<1>3. StepsInv /\ FileOK /\ HookOK => HookInv
  BY DEF HookInv
<1> QED BY <1>1, <1>2, <1>3, StepsAreOrdered, PTL DEF Spec

\* Whatever fails, in any order and any number, nothing that the hook started runs while
\* the runner reads the wallet or moves its money, unless the operator was told that the
\* books came from a backup (reapOrphanHook, stopHook, loadRunnerState).
THEOREM WalletIsReadAlone ==
  ASSUME ~SPAWN_INTERRUPTED
  PROVE  Spec => []WalletReadAlone
<1>1. HookInv => WalletReadAlone
  BY DEF HookInv, HookOK, WalletReadAlone
<1> QED BY <1>1, HookInvHolds, PTL
-----------------------------------------------------------------------------
(* One position trades at a time *)

NoneTrading == \A p \in Positions : position[p].status # "trading"

\* A draw is in flight only while the runner waits for it, and nothing trades until it
\* lands.
DrawsOK ==
  /\ \A tx \in txs : tx.kind = "draw" => pc = "drawing" /\ tx = Tx("draw")
  /\ pc \in {"reserve", "draw"} \/ (pc = "drawing" /\ InFlight("draw")) => NoneTrading
  /\ \A p, q \in Positions : position[p].status = "trading" /\ position[q].status = "trading"
                               => p = q

DrawInv == StepsInv /\ DrawsOK

\* How a tick gets to a draw, and that it waits for it.
LEMMA DrawPath ==
  ASSUME ~LATE_DRAWS, StepsInv, [Next]_vars
  PROVE  /\ pc' = "reserve" /\ pc # "reserve" => NoneTrading /\ UNCHANGED position
         /\ pc' = "draw" /\ pc # "draw" => pc = "reserve" /\ UNCHANGED position
         /\ pc' = "drawing" /\ pc # "drawing" => pc = "draw" /\ UNCHANGED position
         /\ pc = "drawing" /\ ~(pc' = "drawing" /\ task' = task) => ~InFlight("draw")
         /\ pc = pc' /\ pc \in {"reserve", "draw", "drawing"} => task' = task
<1> DEFINE Goal ==
         /\ pc' = "reserve" /\ pc # "reserve" => NoneTrading /\ UNCHANGED position
         /\ pc' = "draw" /\ pc # "draw" => pc = "reserve" /\ UNCHANGED position
         /\ pc' = "drawing" /\ pc # "drawing" => pc = "draw" /\ UNCHANGED position
         /\ pc = "drawing" /\ ~(pc' = "drawing" /\ task' = task) => ~InFlight("draw")
         /\ pc = pc' /\ pc \in {"reserve", "draw", "drawing"} => task' = task
<1>1. CASE UNCHANGED <<pc, task>>
  BY <1>1
<1>2. CASE Thinking
  <2>1. UNCHANGED position
    BY <1>2, ThinkingIs DEF Thinks
  <2>2. CASE Scan
    <3>1. pc = "scan" /\ (pc' = "reserve" => Has("trading") = {}) /\ pc' \in {"sleep", "adopt", "reserve"}
      BY <2>2 DEF Scan, EndTick, To
    <3> QED BY <2>1, <3>1 DEF NoneTrading, Has
  <2>3. CASE ReadReserve \/ SendDraw
    <3>1. \/ pc = "reserve" /\ pc' \in {"sleep", "draw"}
          \/ pc = "draw" /\ pc' \in {"sleep", "drawing"}
      BY <2>3 DEF ReadReserve, SendDraw, EndTick, To
    <3> QED BY <2>1, <3>1
  <2>4. CASE DrawErrors
    <3>1. pc = "drawing" /\ pc' = "sleep" /\ ~InFlight("draw")
      BY <2>4 DEF DrawErrors, EndTick
    <3> QED BY <3>1
  <2>5. CASE Look \/ ReadBalance \/ Build \/ SettleThrows \/ Confirm \/ FinalCheck
    <3>1. pc \in {"look", "balance", "build", "confirm", "final"}
          /\ pc' \notin {"reserve", "draw", "drawing"}
      BY <2>5 DEF Look, ReadBalance, Build, SettleThrows, Confirm, FinalCheck, EndTick, To, Goto
    <3> QED BY <3>1
  <2>6. CASE Calls
    <3>1. pc # "drawing" /\ pc' = "sleep"
      BY <2>6 DEF Calls, CallFails
    <3> QED BY <3>1
  <2> QED BY <1>2, <2>2, <2>3, <2>4, <2>5, <2>6 DEF Thinking
<1>3. CASE Writing
  <2>1. pc' \in {"sleep", "spawn"} /\ (pc = "drawing" => DrawReturns)
    BY <1>3, WritingIs
  <2>2. DrawReturns => ~InFlight("draw")
    BY DEF DrawReturns
  <2> QED BY <2>1, <2>2
<1>4. CASE Happens \/ HookExits \/ UNCHANGED vars
  BY <1>1, <1>4, HappensIs DEF HookExits, vars
<1>5. CASE StopHook
  <2>1. pc = "stop" /\ pc' \in {"sleep", "look", "drop", "balance"}
    BY <1>5 DEF StopHook, Goto, To, StepsInv, TaskOK, Task
  <2> QED BY <2>1
<1>6. CASE StartTick \/ StartHook \/ Restart
  <2>1. pc \in {"sleep", "spawn", "down"} /\ pc' \in {"stop", "look", "sleep", "spawned"}
    BY <1>6 DEF StartTick, StartHook, Restart, Goto, To, EndTick
  <2> QED BY <2>1
<1>7. CASE Exit
  BY <1>7 DEF Exit
<1> QED BY <1>2, <1>3, <1>4, <1>5, <1>6, <1>7, StepKinds

LEMMA DrawSteps ==
  ASSUME ~LATE_DRAWS, DrawInv, [Next]_vars
  PROVE  DrawsOK'
<1>1. StepsInv /\ DrawsOK
  BY DEF DrawInv
<1>2. (\E tx \in txs : tx.kind = "draw") => pc = "drawing" /\ InFlight("draw")
  BY <1>1 DEF DrawsOK, InFlight
<1>3. ASSUME NEW tx \in txs', tx.kind = "draw"
      PROVE  pc' = "drawing" /\ tx = Tx("draw")'
  <2>1. CASE tx \in txs
    <3>1. pc = "drawing" /\ tx = Tx("draw") /\ InFlight("draw")
      BY <1>1, <1>2, <1>3, <2>1 DEF DrawsOK
    <3>2. pc' = "drawing" /\ task' = task
      BY <1>1, <3>1, DrawPath
    <3> QED BY <3>1, <3>2 DEF Tx
  <2>2. CASE tx \notin txs
    <3>1. Tx("settle")'.kind # "draw"
      BY DEF Tx
    <3> QED BY <1>3, <2>2, <3>1, SendsAndHooks
  <2> QED BY <2>1, <2>2
<1>4. ASSUME NEW tx \in txs, DrawLands(tx)
      PROVE  /\ NoneTrading /\ pc = "drawing" /\ UNCHANGED <<pc, task>> /\ ~InFlight("draw")'
             /\ \A p \in Positions : position'[p].status = "trading" => p = tx.p
  <2>1. tx.kind = "draw" /\ txs' = txs \ {tx} /\ UNCHANGED <<pc, task>>
        /\ position' = [position EXCEPT ![tx.p] =
                          [position[tx.p] EXCEPT !.status = "trading", !.drawn = now]]
    BY <1>4 DEF DrawLands, RunnerOnly, SetPosition
  <2>2. pc = "drawing" /\ tx = Tx("draw") /\ NoneTrading
    BY <1>1, <1>2, <2>1 DEF DrawsOK
  <2>3. Tx("draw")' = Tx("draw") /\ Tx("draw") \notin txs'
    BY <2>1, <2>2 DEF Tx
  <2>4. ~InFlight("draw")'
    BY <2>3 DEF InFlight
  <2>5. \A p \in Positions : position'[p].status = "trading" => p = tx.p
    BY <1>1, <2>1, <2>2 DEF NoneTrading, StepsInv, ChainOK
  <2> QED BY <2>1, <2>2, <2>4, <2>5
<1>5. CASE \E tx \in txs : DrawLands(tx)
  <2>1. PICK tx \in txs : DrawLands(tx)
    BY <1>5
  <2> QED BY <1>3, <1>4, <2>1 DEF DrawsOK
<1>6. CASE ~\E tx \in txs : DrawLands(tx)
  <2>1. \A p \in Positions : position'[p].status = "trading" => position[p].status = "trading"
    BY <1>1, <1>6, PositionMoves
  <2>2. NoneTrading => NoneTrading'
    BY <2>1 DEF NoneTrading
  <2>3. pc' = "drawing" /\ InFlight("draw")' => NoneTrading'
    <3>1. CASE pc # "drawing"
      BY <1>1, <2>2, <3>1, DrawPath DEF DrawsOK
    <3>2. CASE pc = "drawing" /\ pc' = "drawing"
      <4>1. txs' \subseteq txs /\ task' = task
        BY <1>1, <3>2, DrawPath, SendsAndHooks
      <4>2. InFlight("draw")' => InFlight("draw")
        BY <4>1 DEF InFlight, Tx
      <4> QED BY <1>1, <2>2, <3>2, <4>2 DEF DrawsOK
    <3> QED BY <3>1, <3>2
  <2>4. pc' \in {"reserve", "draw"} => NoneTrading'
    BY <1>1, <2>2, DrawPath DEF DrawsOK
  <2> QED BY <1>1, <1>3, <2>1, <2>3, <2>4 DEF DrawsOK
<1> QED BY <1>5, <1>6

LEMMA DrawInvHolds ==
  ASSUME ~LATE_DRAWS
  PROVE  Spec => []DrawInv
<1>1. Init => DrawsOK
  BY DEF Init, DrawsOK
<1>2. DrawInv /\ StepsInv' /\ [Next]_vars => DrawInv'
  BY DrawSteps DEF DrawInv
<1>3. StepsInv /\ DrawsOK => DrawInv
  BY DEF DrawInv
<1> QED BY <1>1, <1>2, <1>3, StepsAreOrdered, PTL DEF Spec

\* Whatever fails, restarts included, the runner has one position in its wallet at a time,
\* as long as no draw lands after the runner gave up on it (Runner.tick, drawFunds).
THEOREM OneTradesAtATime ==
  ASSUME ~LATE_DRAWS
  PROVE  Spec => []OneAtATime
<1>1. DrawInv => OneAtATime
  BY DEF DrawInv, DrawsOK, OneAtATime, Has
<1> QED BY <1>1, DrawInvHolds, PTL
-----------------------------------------------------------------------------
(* Each position gets back what was made with it *)

\* The book that the runner has, or would resume with.
Book == IF pc = "down" THEN Loaded.active ELSE Active
Told == mem.alerted \/ (pc = "down" /\ file.kind = "torn")

Status(p) == position[p].status

\* Nothing was made with a position before it was drawn and booked.
Unmade ==
  ~Told => \A p \in Positions :
             Status(p) \in {"absent", "open"} \/ (Status(p) = "trading" /\ Book.p # p)
               => made[p] = 0

\* While a position trades the wallet holds what it held at the draw and what was made.
BookTrue ==
  ~Told /\ Book.p \in Positions /\ Status(Book.p) = "trading" =>
    wallet.lamports = Book.balanceAtDraw + made[Book.p]

\* Books, hooks and settlements are of positions that were drawn.
Begun ==
  /\ ~Told /\ Book.p \in Positions => Status(Book.p) \notin {"absent", "open"}
  /\ pc = "adopt" => Status(task.p) \notin {"absent", "open"}
  /\ pc \in {"reserve", "draw", "drawing"} => Status(task.p) # "absent"
  /\ \A tx \in txs : tx.kind = "settle" => Status(tx.p) \notin {"absent", "open"}

\* Around a draw the wallet holds what was read before it.
DrawTrue ==
  ~Told =>
    /\ pc = "draw" \/ (pc = "drawing" /\ InFlight("draw")) => wallet.lamports = task.amount
    /\ pc = "drawing" /\ Status(task.p) = "trading" => wallet.lamports = BalanceAtDraw(task.amount)

\* A settlement in flight pays what is owed, and nothing changes that until it lands.
SettlesTrue ==
  ~mem.alerted => \A tx \in txs : tx.kind = "settle" /\ Status(tx.p) = "trading" =>
    /\ tx.amount = Owed(tx.p) /\ hook = NoHook
    /\ pc \notin {"reserve", "draw", "drawing", "spawn", "spawned"}

TaskTrue ==
  ~Told /\ pc \in {"build", "confirm", "final"} /\ Status(task.p) = "trading" =>
    task.amount = Owed(task.p)

HookTrue == ~Told /\ hook # NoHook => hook.p = Book.p

MoneyOK == Unmade /\ BookTrue /\ Begun /\ DrawTrue /\ SettlesTrue /\ TaskTrue /\ HookTrue

MoneyInv == HookInv /\ DrawInv /\ MoneyOK

\* What settle computes from the balance is the gain or loss, down to the reserve.
LEMMA ReturnedIsOwed ==
  ASSUME StepsInv, Active.p \in Positions,
         wallet.lamports = Active.balanceAtDraw + made[Active.p]
  PROVE  Returned(wallet.lamports) = Owed(Active.p)
<1>1. /\ wallet.lamports \in Int /\ made[Active.p] \in Int /\ Active.balanceAtDraw \in Int
      /\ walletReserve \in Int /\ PRINCIPAL \in Int
  BY Constants, BookIs
     DEF StepsInv, ChainOK, MemoryOK, Memory, State, Active, walletReserve
<1>2. PRINCIPAL + wallet.lamports - Active.balanceAtDraw = PRINCIPAL + made[Active.p]
  BY <1>1
<1> QED BY <1>1, <1>2 DEF Returned, Owed, MinOf, MaxOf

\* The lamports move in three ways only.
LEMMA WalletMoves ==
  ASSUME [Next]_vars
  PROVE  \/ UNCHANGED <<wallet, made>> /\ ~\E tx \in txs : DrawLands(tx) \/ SettleLands(tx)
         \/ HookTrades
         \/ \E tx \in txs : DrawLands(tx) \/ SettleLands(tx)
<1>1. CASE \E tx \in txs : DrawLands(tx) \/ SettleLands(tx)
  BY <1>1
<1>2. CASE Lands /\ ~\E tx \in txs : DrawLands(tx) \/ SettleLands(tx)
  BY <1>2 DEF Lands, Gone
<1>3. CASE Thinking \/ Writing
  <2>1. Writing => UNCHANGED <<wallet, made>>
    BY DEF Writing, DropBook, Adopt, DrawReturns, SaveGroup, Settled, Quiet, chain
  <2> QED BY <1>1, <1>3, <2>1, ThinkingIs DEF Thinks
<1>4. CASE Happens /\ ~Lands
  BY <1>1, <1>4 DEF Happens, Tick, Stall, Bind, Unbind, Open, Cancel, Claim, TraderMoves, chain
<1>5. CASE StopHook \/ StartTick \/ StartHook \/ HookExits \/ Exit \/ Restart \/ UNCHANGED vars
  BY <1>1, <1>5 DEF StopHook, StartTick, StartHook, HookExits, Exit, Restart, vars, chain
<1> QED BY <1>1, <1>2, <1>3, <1>4, <1>5, StepKinds

\* A runner that was not told knows the book that it had, or writes another.
LEMMA BookMoves ==
  ASSUME HookInv, [Next]_vars
  PROVE  /\ ~mem'.alerted => ~mem.alerted
         /\ ~Told' => ~Told /\ (Book' = Book \/ Writing)
<1>1. StepsInv /\ FileOK
  BY DEF HookInv
<1>2. CASE UNCHANGED <<mem, file>> /\ (pc = "down" <=> pc' = "down")
  BY <1>2 DEF Told, Book, Active, Loaded
<1>3. CASE Thinking
  <2>1. pc # "down" /\ pc' # "down"
    <3>1. pc # "down"
      BY <1>3 DEF Thinking, Look, Scan, ReadReserve, SendDraw, DrawErrors, ReadBalance, Build,
              SettleThrows, Confirm, FinalCheck, Calls, CallFails, Goto
    <3>2. pc' # "down"
      BY <1>3 DEF Thinking, Look, Scan, ReadReserve, SendDraw, DrawErrors, ReadBalance, Build,
              SettleThrows, Confirm, FinalCheck, Calls, CallFails, Goto, To, EndTick
    <3> QED BY <3>1, <3>2
  <2> QED BY <1>2, <1>3, <2>1, ThinkingIs DEF Thinks, Keep
<1>4. CASE Happens \/ UNCHANGED vars
  BY <1>2, <1>4, HappensIs DEF vars
<1>5. CASE Writing
  <2>1. pc # "down" /\ mem'.alerted = mem.alerted
    BY <1>1, <1>5, WritingIs
  <2> QED BY <1>5, <2>1 DEF Told
<1>6. CASE StopHook \/ StartTick \/ StartHook
  <2>1. pc # "down" /\ pc' # "down"
    BY <1>1, <1>6 DEF StopHook, StartTick, StartHook, Goto, To, EndTick, StepsInv, TaskOK, Task
  <2>2. mem'.state.active = mem.state.active /\ mem'.alerted = mem.alerted
    BY <1>1, <1>6, OtherSteps DEF Active
  <2> QED BY <2>1, <2>2 DEF Told, Book, Active
<1>7. CASE HookExits
  <2>1. mem'.state = mem.state /\ mem'.alerted = mem.alerted /\ file' = file /\ pc' = pc
    BY <1>1, <1>7, OtherSteps DEF HookExits
  <2> QED BY <2>1 DEF Told, Book, Active, Loaded
<1>8. CASE Exit
  <2>1. pc # "down" /\ pc' = "down" /\ mem'.alerted = mem.alerted
        /\ (file' = file \/ file'.kind = "torn")
    BY <1>1, <1>8, OtherSteps DEF Exit
  <2> QED BY <1>1, <2>1 DEF Told, Book, Active, Loaded, FileOK
<1>9. CASE Restart
  <2>1. pc = "down" /\ pc' # "down" /\ mem'.state = Loaded
        /\ mem'.alerted = (mem.alerted \/ file.kind = "torn")
    BY <1>1, <1>9, OtherSteps DEF Restart, Goto, To
  <2> QED BY <2>1 DEF Told, Book, Active
<1> QED BY <1>3, <1>4, <1>5, <1>6, <1>7, <1>8, <1>9, StepKinds

LEMMA StatusMoves ==
  ASSUME StepsInv, [Next]_vars, NEW p \in Positions
  PROVE  /\ Status(p) \notin {"absent", "open"} => Status(p)' \notin {"absent", "open"}
         /\ Status(p) # "absent" => Status(p)' # "absent"
         /\ Status(p)' = "trading" /\ (~\E tx \in txs : DrawLands(tx)) => Status(p) = "trading"
BY PositionMoves DEF Status

\* A hook trades while the wallet is not in use, for the position of the book.
LEMMA TradeKeepsMoney ==
  ASSUME MoneyInv, HookTrades
  PROVE  MoneyOK'
<1>1. MoneyOK /\ HookOK /\ StepsInv
  BY DEF MoneyInv, HookInv
<1>2. UNCHANGED <<now, position, txs, hook, mem, file, pc, task>> /\ hook # NoHook
  BY DEF HookTrades, RunnerOnly
<1>3. Book' = Book /\ (Told' <=> Told) /\ (\A p : Status(p)' = Status(p))
  BY <1>2 DEF Book, Told, Active, Loaded, Status
<1>4. ~Told => hook.p = Book.p /\ pc \in {"down", "sleep", "look", "stop", "spawned"}
  BY <1>1, <1>2 DEF MoneyOK, HookTrue, HookOK, Told
<1>5. PICK gain \in {-1, 1} : /\ wallet' = [wallet EXCEPT !.lamports = @ + gain]
                               /\ made' = [made EXCEPT ![hook.p] = @ + gain]
  BY DEF HookTrades
<1>6. /\ hook.p \in Positions /\ made \in [Positions -> Int] /\ wallet.lamports \in Int
      /\ wallet'.lamports = wallet.lamports + gain
      /\ made'[hook.p] = made[hook.p] + gain
      /\ \A p \in Positions : p # hook.p => made'[p] = made[p]
  <2>1. gain \in Int
    OBVIOUS
  <2> QED BY <1>1, <1>2, <1>5, <2>1 DEF StepsInv, ChainOK
<1>7. Begun'
  BY <1>1, <1>2, <1>3 DEF MoneyOK, Begun
<1>8. Unmade'
  <2> SUFFICES ASSUME ~Told, NEW p \in Positions,
                      Status(p) \in {"absent", "open"} \/ (Status(p) = "trading" /\ Book.p # p)
               PROVE  made'[p] = 0
    BY <1>3 DEF Unmade
  <2>1. p # hook.p
    BY <1>1, <1>4, <1>6 DEF MoneyOK, Begun
  <2> QED BY <1>1, <1>6, <2>1 DEF MoneyOK, Unmade
<1>9. BookTrue'
  <2> SUFFICES ASSUME ~Told, Book.p \in Positions, Status(Book.p) = "trading"
               PROVE  wallet'.lamports = Book.balanceAtDraw + made'[Book.p]
    BY <1>3 DEF BookTrue
  <2>1. wallet.lamports = Book.balanceAtDraw + made[Book.p]
    BY <1>1 DEF MoneyOK, BookTrue
  <2>2. Book \in Books
    BY <1>1 DEF Book, Loaded, Active, StepsInv, MemoryOK, Memory, File, State, Empty, Books
  <2>3. Book.balanceAtDraw \in Int /\ made[Book.p] \in Int
    BY <1>6, <2>2, BookIs
  <2> QED BY <1>4, <1>6, <2>1, <2>3
<1>10. DrawTrue' /\ TaskTrue'
  BY <1>2, <1>3, <1>4 DEF DrawTrue, TaskTrue
<1>11. SettlesTrue'
  BY <1>1, <1>2, <1>3 DEF SettlesTrue, MoneyOK
<1>12. HookTrue'
  BY <1>1, <1>2, <1>3 DEF HookTrue, MoneyOK
<1> QED BY <1>7, <1>8, <1>9, <1>10, <1>11, <1>12 DEF MoneyOK

\* A draw lands while the runner waits for it and has no book.
LEMMA DrawKeepsMoney ==
  ASSUME MoneyInv, NEW tx \in txs, DrawLands(tx)
  PROVE  MoneyOK'
<1>1. MoneyOK /\ HookOK /\ StepsInv /\ DrawsOK
  BY DEF MoneyInv, HookInv, DrawInv
<1>2. /\ UNCHANGED <<made, hook, mem, file, pc, task>> /\ txs' = txs \ {tx} /\ tx.kind = "draw"
      /\ position[tx.p].status = "open"
      /\ position' = [position EXCEPT ![tx.p] =
                        [position[tx.p] EXCEPT !.status = "trading", !.drawn = now]]
      /\ wallet' = Moved(wallet.lamports + PRINCIPAL - DRAW_TX_FEE, "draw")
  BY DEF DrawLands, RunnerOnly, SetPosition, CanDraw
<1>3. Book' = Book /\ (Told' <=> Told)
  BY <1>2 DEF Book, Told, Active, Loaded
<1>4. pc = "drawing" /\ tx = Tx("draw") /\ tx.p = task.p /\ NoneTrading /\ InFlight("draw")
  BY <1>1, <1>2 DEF DrawsOK, InFlight, Tx
<1>5. Book = NoBook /\ Book.p = "none" /\ task.p \in Positions
  BY <1>1, <1>4, Beginnings DEF Book, StepsInv, BookOK, TaskOK
<1>6. /\ Status(task.p)' = "trading"
      /\ \A p \in Positions : p # task.p => Status(p)' = Status(p)
  BY <1>1, <1>2, <1>4, <1>5 DEF StepsInv, ChainOK, Status
<1>7. \A tx2 \in txs : tx2.kind = "settle" => tx2.p # task.p /\ tx2.p \in Positions
  BY <1>1, <1>2, <1>4 DEF MoneyOK, Begun, Status, StepsInv, ChainOK, Tran
<1>8. Unmade'
  <2>1. \A p \in Positions : ~Told /\ p # task.p /\ Status(p)' \in {"absent", "open", "trading"}
          => made[p] = 0
    BY <1>1, <1>4, <1>6 DEF MoneyOK, Unmade, NoneTrading, Status
  <2>2. ~Told => made[task.p] = 0
    BY <1>1, <1>2, <1>4, <1>5 DEF MoneyOK, Unmade, Status
  <2> QED BY <1>2, <1>3, <2>1, <2>2 DEF Unmade
<1>9. BookTrue' /\ HookTrue' /\ TaskTrue'
  <2>1. BookTrue'
    BY <1>3, <1>5, Constants DEF BookTrue
  <2>2. HookTrue'
    BY <1>1, <1>2, <1>3 DEF MoneyOK, HookTrue
  <2>3. TaskTrue'
    BY <1>2, <1>4 DEF TaskTrue
  <2> QED BY <2>1, <2>2, <2>3
<1>10. Begun'
  <2>1. Book'.p \notin Positions
    BY <1>3, <1>5, Constants
  <2>2. \A tx2 \in txs' : tx2.kind = "settle" => Status(tx2.p)' \notin {"absent", "open"}
    BY <1>1, <1>2, <1>6, <1>7 DEF MoneyOK, Begun
  <2> QED BY <1>2, <1>4, <1>6, <2>1, <2>2 DEF Begun
<1>11. DrawTrue'
  <2>1. ~InFlight("draw")'
    BY <1>2, <1>4 DEF InFlight, Tx
  <2>2. wallet'.lamports = wallet.lamports + PRINCIPAL - DRAW_TX_FEE
    BY <1>2 DEF Moved
  <2>3. ~Told => wallet'.lamports = BalanceAtDraw(task.amount)
    BY <1>1, <1>4, <2>2 DEF MoneyOK, DrawTrue, BalanceAtDraw
  <2> QED BY <1>2, <1>3, <1>4, <2>1, <2>3 DEF DrawTrue, BalanceAtDraw
<1>12. SettlesTrue'
  BY <1>2, <1>4, <1>6, <1>7 DEF SettlesTrue, NoneTrading, Status
<1> QED BY <1>8, <1>9, <1>10, <1>11, <1>12 DEF MoneyOK

\* A settlement lands for the one position that trades.
LEMMA SettleKeepsMoney ==
  ASSUME MoneyInv, NEW tx \in txs, SettleLands(tx)
  PROVE  MoneyOK'
<1>1. MoneyOK /\ HookOK /\ StepsInv /\ DrawsOK
  BY DEF MoneyInv, HookInv, DrawInv
<1>2. /\ UNCHANGED <<made, hook, mem, file, pc, task>> /\ txs' = txs \ {tx}
      /\ position[tx.p].status = "trading" /\ tx.p \in Positions
      /\ position' = [position EXCEPT ![tx.p] = [position[tx.p] EXCEPT !.status = "settled"]]
  BY <1>1 DEF SettleLands, RunnerOnly, SetPosition, CanSettle, StepsInv, ChainOK, Tran
<1>3. Book' = Book /\ (Told' <=> Told)
  BY <1>2 DEF Book, Told, Active, Loaded
<1>4. /\ Status(tx.p)' = "settled" /\ Status(tx.p) = "trading"
      /\ \A p \in Positions : p # tx.p => Status(p)' = Status(p) /\ Status(p) # "trading"
  BY <1>1, <1>2 DEF StepsInv, ChainOK, Status, DrawsOK
<1>5. \A p \in Positions : Status(p)' # "trading"
  BY <1>4
<1>6. \A tx2 \in txs : tx2.p \in Positions
  BY <1>1 DEF StepsInv, ChainOK, Tran
<1>7. Unmade'
  BY <1>1, <1>2, <1>3, <1>4 DEF MoneyOK, Unmade
<1>8. BookTrue' /\ TaskTrue' /\ HookTrue' /\ SettlesTrue'
  <2>1. BookTrue'
    BY <1>5 DEF BookTrue
  <2>2. pc' \in {"build", "confirm", "final"} => task'.p \in Positions
    BY <1>1, <1>2 DEF StepsInv, TaskOK
  <2>3. TaskTrue'
    BY <1>2, <1>5, <2>2 DEF TaskTrue
  <2>4. HookTrue'
    BY <1>1, <1>2, <1>3 DEF MoneyOK, HookTrue
  <2>5. SettlesTrue'
    BY <1>2, <1>5, <1>6 DEF SettlesTrue
  <2> QED BY <2>1, <2>3, <2>4, <2>5
<1>9. Begun'
  <2>1. \A p \in Positions : /\ Status(p) \notin {"absent", "open"} => Status(p)' \notin {"absent", "open"}
                             /\ Status(p) # "absent" => Status(p)' # "absent"
    BY <1>4
  <2>2. pc \in {"adopt", "reserve", "draw", "drawing"} => task.p \in Positions
    BY <1>1 DEF StepsInv, TaskOK
  <2> QED BY <1>1, <1>2, <1>3, <1>6, <2>1, <2>2 DEF MoneyOK, Begun
<1>10. DrawTrue'
  <2>1. ~NoneTrading
    BY <1>2 DEF NoneTrading
  <2>2. pc # "draw" /\ ~(pc = "drawing" /\ InFlight("draw"))
    BY <1>1, <2>1 DEF DrawsOK
  <2>3. InFlight("draw")' => InFlight("draw")
    BY <1>2 DEF InFlight, Tx
  <2>4. pc = "drawing" => task.p \in Positions
    BY <1>1 DEF StepsInv, TaskOK
  <2> QED BY <1>2, <1>5, <2>2, <2>3, <2>4 DEF DrawTrue
<1> QED BY <1>7, <1>8, <1>9, <1>10 DEF MoneyOK

\* The step that a tick is at, once more: what it leaves for the next one.
LEMMA TaskPath ==
  ASSUME StepsInv, LaggingReads = {}, [Next]_vars
  PROVE  /\ pc' = "adopt" => /\ task'.p \in Positions
                             /\ \/ pc = "adopt" /\ task' = task
                                \/ Status(task'.p) = "trading"
         /\ pc' = "reserve" => \/ pc = "reserve" /\ task' = task
                               \/ Status(task'.p) = "open"
         /\ pc' = "draw" => \/ pc = "draw" /\ task' = task
                            \/ /\ pc = "reserve" /\ task' = [task EXCEPT !.amount = wallet.lamports]
         /\ pc' = "drawing" => \/ pc = "drawing" /\ task' = task
                               \/ pc = "draw" /\ SendDraw
         /\ pc' \in {"build", "confirm", "final"} =>
              \/ pc = "balance" /\ task'.p = Active.p /\ task'.amount = Returned(wallet.lamports)
              \/ /\ pc \in {"build", "confirm", "final"}
                 /\ task'.p = task.p /\ task'.amount = task.amount
<1> DEFINE Goal ==
         /\ pc' = "adopt" => /\ task'.p \in Positions
                             /\ \/ pc = "adopt" /\ task' = task
                                \/ Status(task'.p) = "trading"
         /\ pc' = "reserve" => \/ pc = "reserve" /\ task' = task
                               \/ Status(task'.p) = "open"
         /\ pc' = "draw" => \/ pc = "draw" /\ task' = task
                            \/ /\ pc = "reserve" /\ task' = [task EXCEPT !.amount = wallet.lamports]
         /\ pc' = "drawing" => \/ pc = "drawing" /\ task' = task
                               \/ pc = "draw" /\ SendDraw
         /\ pc' \in {"build", "confirm", "final"} =>
              \/ pc = "balance" /\ task'.p = Active.p /\ task'.amount = Returned(wallet.lamports)
              \/ /\ pc \in {"build", "confirm", "final"}
                 /\ task'.p = task.p /\ task'.amount = task.amount
<1>1. CASE UNCHANGED <<pc, task>>
  BY <1>1 DEF StepsInv, TaskOK
<1>2. task \in Task
  BY DEF StepsInv, TaskOK
<1>3. CASE pc' \in {"down", "sleep", "stop", "look", "drop", "scan", "balance", "spawn", "spawned",
                    "settled"}
  BY <1>3
<1>4. CASE Thinking
  <2>1. CASE EndTick
    BY <1>3, <2>1 DEF EndTick
  <2>2. CASE Look \/ DrawErrors \/ SettleThrows \/ Calls
    BY <1>3, <2>2 DEF Look, DrawErrors, SettleThrows, Calls, CallFails, EndTick, To
  <2>3. CASE Scan
    <3>1. \/ EndTick
          \/ \E p \in Has("trading") : pc' = "adopt" /\ task' = [NoTask EXCEPT !.p = p]
          \/ \E p \in NextToDraw : pc' = "reserve" /\ task' = [NoTask EXCEPT !.p = p]
      BY <2>3 DEF Scan, To
    <3>2. CASE \E p \in Has("trading") : pc' = "adopt" /\ task' = [NoTask EXCEPT !.p = p]
      <4>1. PICK p \in Has("trading") : pc' = "adopt" /\ task' = [NoTask EXCEPT !.p = p]
        BY <3>2
      <4>2. task'.p = p /\ p \in Positions /\ Status(p) = "trading"
        BY <4>1 DEF NoTask, Has, Status
      <4> QED BY <4>1, <4>2
    <3>3. CASE \E p \in NextToDraw : pc' = "reserve" /\ task' = [NoTask EXCEPT !.p = p]
      <4>1. PICK p \in NextToDraw : pc' = "reserve" /\ task' = [NoTask EXCEPT !.p = p]
        BY <3>3
      <4>2. task'.p = p /\ Status(p) = "open"
        BY <4>1 DEF NoTask, NextToDraw, Has, Status
      <4> QED BY <4>1, <4>2
    <3> QED BY <2>1, <3>1, <3>2, <3>3
  <2>4. CASE ReadReserve
    <3>1. pc = "reserve" /\ (EndTick \/ (pc' = "draw" /\ task' = [task EXCEPT !.amount = wallet.lamports]))
      BY <2>4 DEF ReadReserve, Reads, To
    <3> QED BY <2>1, <3>1
  <2>5. CASE SendDraw
    <3>1. pc = "draw" /\ (EndTick \/ pc' = "drawing")
      BY <2>5 DEF SendDraw, To
    <3> QED BY <2>1, <2>5, <3>1
  <2>6. CASE ReadBalance
    <3>1. pc = "balance" /\ pc' = "build"
          /\ task' = [NoTask EXCEPT !.p = Active.p, !.amount = Returned(wallet.lamports)]
      BY <2>6 DEF ReadBalance, Reads, Goto, To
    <3> QED BY <3>1 DEF NoTask
  <2>7. CASE Build
    <3>1. pc = "build" /\ pc' = "confirm" /\ task'.p = task.p /\ task'.amount = task.amount
      BY <1>2, <2>7 DEF Build, To, Task
    <3> QED BY <3>1
  <2>8. CASE Confirm \/ FinalCheck
    <3>1. pc \in {"confirm", "final"} /\ (EndTick \/ task' = task)
          /\ (EndTick \/ pc' \in {"final", "build", "settled"})
      BY <2>8 DEF Confirm, FinalCheck, To
    <3> QED BY <2>1, <3>1
  <2> QED BY <1>4, <2>2, <2>3, <2>4, <2>5, <2>6, <2>7, <2>8 DEF Thinking
<1>5. CASE Writing
  BY <1>3, <1>5, WritingIs
<1>6. CASE Happens \/ HookExits \/ UNCHANGED vars
  BY <1>1, <1>6, HappensIs DEF HookExits, vars
<1>7. CASE StopHook \/ StartTick \/ StartHook \/ Exit \/ Restart
  BY <1>2, <1>3, <1>7 DEF StopHook, StartTick, StartHook, Exit, Restart, Goto, To, EndTick, Task
<1> QED BY <1>4, <1>5, <1>6, <1>7, StepKinds

\* How a tick gets to the hook.
LEMMA SpawnPath ==
  ASSUME StepsInv, [Next]_vars
  PROVE  /\ pc' = "spawn" => pc \in {"spawn", "drawing"}
         /\ pc' = "spawned" => pc \in {"spawned", "spawn"}
<1>1. CASE UNCHANGED pc
  BY <1>1
<1>2. CASE Thinking
  <2>1. pc' \notin {"spawn", "spawned"}
    BY <1>2 DEF Thinking, Look, Scan, ReadReserve, SendDraw, DrawErrors, ReadBalance, Build,
            SettleThrows, Confirm, FinalCheck, Calls, CallFails, Goto, To, EndTick
  <2> QED BY <2>1
<1>3. CASE Writing
  BY <1>3, WritingIs
<1>4. CASE Happens \/ HookExits \/ UNCHANGED vars
  BY <1>1, <1>4, HappensIs DEF HookExits, vars
<1>5. CASE StopHook \/ StartTick \/ StartHook \/ Exit \/ Restart
  BY <1>5 DEF StopHook, StartTick, StartHook, Exit, Restart, Goto, To, EndTick, StepsInv, TaskOK,
              Task
<1> QED BY <1>2, <1>3, <1>4, <1>5, StepKinds

\* The other steps move no lamports, and what they learn or write is true.
LEMMA RestKeepsMoney ==
  ASSUME ~LATE_DRAWS, LaggingReads = {}, MoneyInv, [Next]_vars,
         UNCHANGED <<wallet, made>>, ~\E tx \in txs : DrawLands(tx) \/ SettleLands(tx)
  PROVE  MoneyOK'
<1>1. MoneyOK /\ HookOK /\ StepsInv /\ DrawsOK /\ FileOK /\ HookInv
  BY DEF MoneyInv, HookInv, DrawInv
<1>2. /\ ~mem'.alerted => ~mem.alerted
      /\ ~Told' => ~Told /\ (Book' = Book \/ Writing)
  BY <1>1, BookMoves
<1>3. \A p \in Positions :
        /\ Status(p) \notin {"absent", "open"} => Status(p)' \notin {"absent", "open"}
        /\ Status(p) # "absent" => Status(p)' # "absent"
        /\ Status(p)' = "trading" => Status(p) = "trading"
  BY <1>1, StatusMoves
\* What a write does to the book.
<1>4. ASSUME Writing, ~Told'
      PROVE  /\ pc # "down" /\ pc \in {"drop", "settled", "adopt", "drawing", "spawned"}
             /\ hook' = hook /\ UNCHANGED position
             /\ pc # "spawned" => hook = NoHook
             /\ pc \in {"drop", "settled"} => Book' = NoBook /\ Book.p \in Terminal
             /\ pc \in {"adopt", "drawing"} => Book'.p = task.p /\ task.p \in Positions /\ Book = NoBook
             /\ pc = "adopt" => Book'.balanceAtDraw = wallet.lamports
             /\ pc = "drawing" => Book'.balanceAtDraw = BalanceAtDraw(task.amount) /\ DrawReturns
             /\ pc = "spawned" => Book' = Book
  <2>1. pc \in {"drop", "settled", "adopt", "drawing", "spawned"} /\ pc' \in {"sleep", "spawn"}
        /\ mem'.alerted = mem.alerted /\ hook' = hook /\ UNCHANGED position
    BY <1>1, <1>4, WritingIs DEF chain
  <2>2. Book = Active /\ Book' = Active' /\ ~mem.alerted
    BY <1>4, <2>1 DEF Book, Told
  <2>3. pc # "spawned" => hook = NoHook
    BY <1>1, <2>1, <2>2 DEF HookOK
  <2>4. /\ pc \in {"drop", "settled"} => Active' = NoBook
        /\ pc \in {"adopt", "drawing"} => Active'.p = task.p
        /\ pc = "adopt" => Active'.balanceAtDraw = wallet.lamports
        /\ pc = "drawing" => Active'.balanceAtDraw = BalanceAtDraw(task.amount) /\ DrawReturns
        /\ pc = "spawned" => Active' = Active
    BY <1>1, <1>4, WritingIs DEF Active
  <2>5. /\ pc \in {"drop", "settled"} => Active.p \in Terminal
        /\ pc \in {"adopt", "drawing"} => Active = NoBook /\ task.p \in Positions
    BY <1>1 DEF StepsInv, BookOK, TaskOK
  <2> QED BY <2>1, <2>2, <2>3, <2>4, <2>5
<1>5. NoBook.p = "none" /\ "none" \notin Positions
  BY Beginnings, Constants
<1>6. Unmade'
  <2> SUFFICES ASSUME ~Told', NEW p \in Positions,
                      Status(p)' \in {"absent", "open"} \/ (Status(p)' = "trading" /\ Book'.p # p)
               PROVE  made[p] = 0
    BY DEF Unmade
  <2>1. ~Told
    BY <1>2
  <2>2. Status(p)' \in {"absent", "open"} => Status(p) \in {"absent", "open"}
    BY <1>3
  <2>3. CASE Status(p) \in {"absent", "open"}
    BY <1>1, <2>1, <2>3 DEF MoneyOK, Unmade
  <2>4. CASE Status(p) = "trading" /\ Book'.p # p
    <3>1. Book.p # p
      <4>1. CASE Book' = Book
        BY <2>4, <4>1
      <4>2. CASE Writing
        <5>1. p \notin Terminal
          BY <2>4, TerminalIs DEF Status
        <5> QED BY <1>4, <1>5, <2>4, <4>2, <5>1
      <4> QED BY <1>2, <4>1, <4>2
    <3> QED BY <1>1, <2>1, <2>4, <3>1 DEF MoneyOK, Unmade
  <2> QED BY <1>3, <2>2, <2>3, <2>4
<1>7. BookTrue'
  <2> SUFFICES ASSUME ~Told', Book'.p \in Positions, Status(Book.p)' = "trading"
               PROVE  wallet.lamports = Book'.balanceAtDraw + made[Book'.p]
    BY DEF BookTrue
  <2>1. ~Told /\ position'[Book'.p].status = "trading" /\ position[Book'.p].status = "trading"
    BY <1>2, <1>3 DEF Status
  <2>2. CASE Book' = Book
    BY <1>1, <2>1, <2>2 DEF MoneyOK, BookTrue, Status
  <2>3. CASE Writing /\ pc \in {"drop", "settled"}
    BY <1>4, <1>5, <2>3
  <2>4. CASE Writing /\ pc \in {"adopt", "drawing"}
    <3>1. Book'.p = task.p /\ Book.p # task.p /\ Status(task.p) = "trading"
      BY <1>4, <1>5, <2>1, <2>4 DEF Status
    <3>2. made[task.p] = 0
      BY <1>1, <1>4, <2>1, <2>4, <3>1 DEF MoneyOK, Unmade
    <3>3. Book'.balanceAtDraw = wallet.lamports
      BY <1>1, <1>4, <2>1, <2>4, <3>1 DEF MoneyOK, DrawTrue
    <3>4. wallet.lamports \in Int
      BY <1>1 DEF StepsInv, ChainOK
    <3> QED BY <3>1, <3>2, <3>3, <3>4
  <2>5. CASE Writing /\ pc = "spawned"
    BY <1>4, <2>2, <2>5
  <2> QED BY <1>2, <1>4, <2>2, <2>3, <2>4, <2>5
<1>8. Begun'
  <2>1. ~Told' /\ Book'.p \in Positions => Status(Book.p)' \notin {"absent", "open"}
    <3> SUFFICES ASSUME ~Told', Book'.p \in Positions
                 PROVE  position'[Book'.p].status \notin {"absent", "open"}
      BY DEF Status
    <3>1. CASE Book' = Book
      BY <1>1, <1>2, <1>3, <3>1 DEF MoneyOK, Begun, Status
    <3>2. CASE Writing /\ pc = "adopt"
      BY <1>1, <1>3, <1>4, <3>2 DEF MoneyOK, Begun, Status
    <3>3. CASE Writing /\ pc = "drawing"
      <4>1. position[task.p].status \notin {"open", "cancelled", "absent"}
        BY <1>1, <1>4, <3>3 DEF MoneyOK, Begun, Status, DrawReturns
      <4> QED BY <1>3, <1>4, <3>3, <4>1 DEF Status
    <3> QED BY <1>2, <1>4, <1>5, <3>1, <3>2, <3>3
  <2>2. pc' = "adopt" => Status(task.p)' \notin {"absent", "open"}
    <3> SUFFICES ASSUME pc' = "adopt"
                 PROVE  position'[task'.p].status \notin {"absent", "open"}
      BY DEF Status
    <3>1. task'.p \in Positions /\ position[task'.p].status \notin {"absent", "open"}
      BY <1>1, TaskPath DEF MoneyOK, Begun, Status
    <3> QED BY <1>3, <3>1 DEF Status
  <2>3. pc' \in {"reserve", "draw", "drawing"} => Status(task.p)' # "absent"
    <3> SUFFICES ASSUME pc' \in {"reserve", "draw", "drawing"}
                 PROVE  position'[task'.p].status # "absent"
      BY DEF Status
    <3>1. task'.p \in Positions
      BY <1>1, TaskTypes DEF TaskOK
    <3>2. position[task'.p].status # "absent"
      <4>1. task \in Task
        BY <1>1 DEF StepsInv, TaskOK
      <4>2. [task EXCEPT !.amount = wallet.lamports].p = task.p /\ [task EXCEPT !.sent = now].p = task.p
        BY <4>1 DEF Task
      <4>3. pc = "draw" /\ SendDraw /\ pc' = "drawing" => task' = [task EXCEPT !.sent = now]
        BY DEF SendDraw, EndTick
      <4> QED BY <1>1, <4>2, <4>3, TaskPath DEF MoneyOK, Begun, Status
    <3> QED BY <1>3, <3>1, <3>2 DEF Status
  <2>4. ASSUME NEW tx \in txs', tx.kind = "settle"
        PROVE  Status(tx.p)' \notin {"absent", "open"}
    <3>1. CASE tx \in txs
      <4>1. tx.p \in Positions
        BY <1>1, <3>1 DEF StepsInv, ChainOK, Tran
      <4> QED BY <1>1, <1>3, <2>4, <3>1, <4>1 DEF MoneyOK, Begun
    <3>2. CASE tx \notin txs
      <4>1. Tx("draw")'.kind = "draw" /\ Tx("settle").p = task.p
            /\ (task'.p = task.p => Tx("settle")'.p = task.p)
        BY DEF Tx
      <4>2. Build /\ tx.p = task.p /\ Status(task.p) = "trading" /\ task.p \in Positions
        <5>1. /\ Build /\ pc = "build" /\ tx = Tx("settle")' /\ CanSettle(Tx("settle"))
              /\ task' = [task EXCEPT !.sent = now, !.builds = @ + 1]
          BY <2>4, <3>2, <4>1, SendsAndHooks
        <5>2. task'.p = task.p /\ task.p \in Positions
          BY <1>1, <5>1 DEF StepsInv, TaskOK, Task
        <5> QED BY <4>1, <5>1, <5>2 DEF CanSettle, Status
      <4> QED BY <1>3, <4>2
    <3> QED BY <3>1, <3>2
  <2> QED BY <2>1, <2>2, <2>3, <2>4 DEF Begun
<1>9. DrawTrue'
  <2>0. task \in Task
    BY <1>1 DEF StepsInv, TaskOK
  <2>1. ASSUME ~Told', pc' = "draw"
        PROVE  wallet.lamports = task'.amount
    <3>1. [task EXCEPT !.amount = wallet.lamports].amount = wallet.lamports
      BY <2>0 DEF Task
    <3> QED BY <1>1, <1>2, <2>1, <3>1, TaskPath DEF MoneyOK, DrawTrue
  <2>2. ASSUME ~Told', pc' = "drawing", pc = "drawing"
        PROVE  /\ InFlight("draw")' => wallet.lamports = task'.amount
               /\ Status(task.p)' = "trading" => wallet.lamports = BalanceAtDraw(task'.amount)
    <3>1. task' = task /\ txs' \subseteq txs /\ task.p \in Positions
      BY <1>1, <2>2, TaskPath, SendsAndHooks DEF StepsInv, TaskOK
    <3>2. InFlight("draw")' => InFlight("draw")
      BY <3>1 DEF InFlight, Tx
    <3>3. Status(task.p)' = "trading" => Status(task.p) = "trading"
      BY <1>3, <3>1 DEF Status
    <3> QED BY <1>1, <1>2, <2>2, <3>1, <3>2, <3>3 DEF MoneyOK, DrawTrue
  <2>3. ASSUME ~Told', pc' = "drawing", pc # "drawing"
        PROVE  wallet.lamports = task'.amount /\ Status(task.p)' # "trading"
    <3>1. pc = "draw" /\ SendDraw
      BY <1>1, <2>3, TaskPath
    <3>2. task' = [task EXCEPT !.sent = now] /\ position[task.p].status = "open"
          /\ position' = position
      BY <2>3, <3>1 DEF SendDraw, EndTick, CanDraw
    <3>3. task'.amount = task.amount /\ task'.p = task.p
      BY <2>0, <3>2 DEF Task
    <3>4. Status(task.p)' # "trading"
      BY <3>2, <3>3 DEF Status
    <3>5. wallet.lamports = task.amount
      BY <1>1, <1>2, <2>3, <3>1 DEF MoneyOK, DrawTrue
    <3> QED BY <3>3, <3>4, <3>5
  <2>4. BalanceAtDraw(task.amount)' = BalanceAtDraw(task'.amount)
    BY DEF BalanceAtDraw
  <2> QED BY <2>1, <2>2, <2>3, <2>4 DEF DrawTrue
<1>10. SettlesTrue'
  <2> SUFFICES ASSUME ~mem'.alerted, NEW tx \in txs', tx.kind = "settle",
                      Status(tx.p)' = "trading"
               PROVE  /\ tx.amount = Owed(tx.p)' /\ hook' = NoHook
                      /\ pc' \notin {"reserve", "draw", "drawing", "spawn", "spawned"}
    BY DEF SettlesTrue
  <2>1. Owed(tx.p)' = Owed(tx.p)
    BY DEF Owed
  <2>2. ~mem.alerted
    BY <1>2
  <2>3. CASE tx \in txs
    <3>1. tx.p \in Positions /\ Status(tx.p) = "trading"
      BY <1>1, <1>3, <2>3 DEF StepsInv, ChainOK, Tran
    <3>2. tx.amount = Owed(tx.p) /\ hook = NoHook
          /\ pc \notin {"reserve", "draw", "drawing", "spawn", "spawned"}
      BY <1>1, <2>2, <2>3, <3>1 DEF MoneyOK, SettlesTrue
    <3>3. hook' = NoHook
      BY <3>2, SendsAndHooks
    <3>4. ~NoneTrading
      BY <3>1 DEF NoneTrading, Status
    <3>5. pc' \notin {"reserve", "draw", "drawing"}
      BY <1>1, <3>2, <3>4, DrawPath
    <3>6. pc' \notin {"spawn", "spawned"}
      BY <1>1, <3>2, SpawnPath
    <3> QED BY <2>1, <3>2, <3>3, <3>5, <3>6
  <2>4. CASE tx \notin txs
    <3>1. Tx("draw")'.kind = "draw"
      BY DEF Tx
    <3>2. /\ pc = "build" /\ pc' = "confirm" /\ tx = Tx("settle")' /\ CanSettle(Tx("settle"))
          /\ task' = [task EXCEPT !.sent = now, !.builds = @ + 1]
          /\ hook' = hook \/ hook' = NoHook \/ hook # NoHook
      BY <2>4, <3>1, SendsAndHooks
    <3>3. task'.p = task.p /\ task'.amount = task.amount
      BY <1>1, <3>2 DEF StepsInv, TaskOK, Task
    <3>4. tx.p = task.p /\ tx.amount = task.amount /\ Status(task.p) = "trading"
      BY <3>2, <3>3 DEF Tx, CanSettle, Status
    <3>5. ~Told
      BY <2>2, <3>2 DEF Told
    <3>6. task.amount = Owed(task.p)
      BY <1>1, <3>2, <3>4, <3>5 DEF MoneyOK, TaskTrue
    <3>7. hook = NoHook
      BY <1>1, <2>2, <3>2 DEF HookOK
    <3> QED BY <2>1, <3>2, <3>4, <3>6, <3>7
  <2> QED BY <2>3, <2>4
<1>11. TaskTrue'
  <2> SUFFICES ASSUME ~Told', pc' \in {"build", "confirm", "final"}, Status(task.p)' = "trading"
               PROVE  task'.amount = Owed(task.p)'
    BY DEF TaskTrue
  <2>1. Owed(task.p)' = Owed(task'.p)
    BY DEF Owed
  <2>2. task'.p \in Positions
    BY <1>1, TaskTypes DEF TaskOK
  <2>3. ~Told /\ Status(task'.p) = "trading"
    BY <1>2, <1>3, <2>2 DEF Status
  <2>4. CASE pc = "balance" /\ task'.p = Active.p /\ task'.amount = Returned(wallet.lamports)
    <3>1. Book = Active
      BY <2>4 DEF Book
    <3>2. wallet.lamports = Active.balanceAtDraw + made[Active.p]
      BY <1>1, <2>2, <2>3, <2>4, <3>1 DEF MoneyOK, BookTrue
    <3>3. Returned(wallet.lamports) = Owed(Active.p)
      BY <1>1, <2>2, <2>4, <3>2, ReturnedIsOwed
    <3> QED BY <2>1, <2>4, <3>3
  <2>5. CASE /\ pc \in {"build", "confirm", "final"}
             /\ task'.p = task.p /\ task'.amount = task.amount
    BY <1>1, <2>1, <2>3, <2>5 DEF MoneyOK, TaskTrue
  <2> QED BY <1>1, <2>4, <2>5, TaskPath
<1>12. HookTrue'
  <2> SUFFICES ASSUME ~Told', hook' # NoHook
               PROVE  hook'.p = Book'.p
    BY DEF HookTrue
  <2>1. CASE StartHook /\ pc = "spawn" /\ hook' = [p |-> task.p, shell |-> TRUE]
    <3>1. Book' = Book /\ Book = Active /\ Active.p = task.p
      BY <1>1, <1>2, <1>4, <2>1 DEF Book, StepsInv, BookOK
    <3> QED BY <2>1, <3>1
  <2>2. CASE hook # NoHook /\ (hook' = hook \/ hook' = [hook EXCEPT !.shell = FALSE])
    <3>1. hook'.p = hook.p
      BY <1>1, <2>2 DEF StepsInv, ChainOK
    <3>2. Book' = Book
      BY <1>2, <1>4, <2>2
    <3> QED BY <1>1, <1>2, <2>2, <3>1, <3>2 DEF MoneyOK, HookTrue
  <2> QED BY <2>1, <2>2, SendsAndHooks
<1> QED BY <1>6, <1>7, <1>8, <1>9, <1>10, <1>11, <1>12 DEF MoneyOK

LEMMA MoneyInvHolds ==
  ASSUME ~SPAWN_INTERRUPTED, ~LATE_DRAWS, LaggingReads = {}
  PROVE  Spec => []MoneyInv
<1>1. Init => MoneyOK
  <2> SUFFICES ASSUME Init
               PROVE  MoneyOK
    OBVIOUS
  <2>1. Book = NoBook /\ NoBook.p = "none" /\ "none" \notin Positions /\ ~mem.alerted
    BY Beginnings, Constants DEF Init, Book, Loaded, Empty, Started
  <2>2. Unmade /\ BookTrue /\ Begun
    BY <2>1 DEF Init, Unmade, BookTrue, Begun
  <2>3. DrawTrue /\ SettlesTrue /\ TaskTrue /\ HookTrue
    BY <2>1 DEF Init, DrawTrue, SettlesTrue, TaskTrue, HookTrue
  <2> QED BY <2>2, <2>3 DEF MoneyOK
<1>2. MoneyInv /\ [Next]_vars => MoneyOK'
  BY WalletMoves, TradeKeepsMoney, DrawKeepsMoney, SettleKeepsMoney, RestKeepsMoney
<1>3. HookInv /\ DrawInv /\ MoneyOK => MoneyInv
  BY DEF MoneyInv
<1> QED BY <1>1, <1>2, <1>3, HookInvHolds, DrawInvHolds, PTL DEF Spec

\* Whatever fails, any number of times, a position gets back its principal and what the
\* hook made with it, down to the reserve, as long as nodes do not lag (draw, adopt,
\* settle, stopHook).
THEOREM SettlementsAreExact ==
  ASSUME ~SPAWN_INTERRUPTED, ~LATE_DRAWS, LaggingReads = {}
  PROVE  Spec => SettlesItsOwn
<1>1. ASSUME MoneyInv, [Next]_vars
      PROVE  [\A tx \in txs : SettleLands(tx) /\ ~mem.alerted => tx.amount = Owed(tx.p)]_vars
  <2> SUFFICES ASSUME NEW tx \in txs, SettleLands(tx), ~mem.alerted
               PROVE  tx.amount = Owed(tx.p)
    OBVIOUS
  <2>1. tx.kind = "settle" /\ Status(tx.p) = "trading"
    BY DEF SettleLands, CanSettle, Status
  <2> QED BY <1>1, <2>1 DEF MoneyInv, MoneyOK, SettlesTrue
<1>2. MoneyInv /\ [Next]_vars =>
        [\A tx \in txs : SettleLands(tx) /\ ~mem.alerted => tx.amount = Owed(tx.p)]_vars
  BY <1>1
<1> QED BY <1>2, MoneyInvHolds, PTL DEF Spec, SettlesItsOwn
-----------------------------------------------------------------------------
(* A runner that keeps up settles in time *)

\* What one failure may cost: the rest of a hook's grace period again, or a transaction
\* that has to expire, and a tick if no blockhash is left to sign it with again.
Throw   == IF MAX_BUILDS > MAX_FAULTS THEN 0 ELSE 1
Setback == MaxOf(GRACE_SECS, TX_LIFE_SECS + Throw)

\* What the failures that are left may still cost.
Spare == (MAX_FAULTS - faults) * Setback

Waited == IF pace = "done" THEN 1 ELSE 0
Enough(p, t) == t + Spare < Deadline(p)

Trading(p) == p \in Positions /\ Status(p) = "trading"
Keeping == pace # "any" /\ ~Told

\* How the runner keeps up with the clock.
PaceOK ==
  /\ faults \in Nat /\ faults <= MAX_FAULTS
  /\ pace \in {"any", "due", "done"}
  /\ pace = "done" => pc = "sleep" \/ now >= MAX_NOW
  /\ pace # "any" => bound
  /\ \A p \in Positions : Status(p) # "absent" => Deadline(p) < MAX_NOW

\* The position that trades is the one that the runner is at.
BookIsOfIt ==
  ~Told => \A p \in Positions : Trading(p) =>
    /\ Book = NoBook \/ Book.p = p
    /\ pc \in {"adopt", "drawing"} => task.p = p

\* The hook loses no more than it was given, so that the wallet can pay for the settle.
Solvent ==
  /\ \A p \in Positions : made[p] >= -MAX_TRADES
  /\ ~Told =>
       /\ pc \in {"draw", "drawing"} => task.amount >= walletReserve
       /\ \A p \in Positions : Trading(p) =>
            wallet.lamports >= walletReserve + PRINCIPAL - DRAW_TX_FEE + made[p]

\* A settle of which nothing is in flight any more was lost in a failure.
Lost == pc = "confirm" /\ ~InFlight("settle")

\* A position is drawn long before its deadline.
DrawnEarly ==
  Keeping /\ pc \in {"reserve", "draw", "drawing"} => now + BUFFER_SECS < Deadline(task.p)

\* While a position has no book, there is time to adopt it.
Adopts(p) == Book.p # p => Enough(p, now + Waited + MaxOf(1, ADOPT_DELAY_SECS))

InStop == pc = "stop" /\ hook # NoHook
Grace  == IF hook # NoHook \/ pc = "spawn" THEN GRACE_SECS ELSE 0

\* While it has one, there is time for what is left to do: to stop the hook, and to send
\* the settle again.
Settles(p) == Book.p = p =>
  /\ Enough(p, Book.settleAt + Grace)
  /\ ~InStop => Enough(p, now + Waited + Grace)
  /\ InStop => task.sent <= now /\ now <= task.sent + GRACE_SECS
                 /\ Enough(p, task.sent + GRACE_SECS)
  /\ Lost => now <= task.sent + TX_LIFE_SECS /\ Enough(p, task.sent + TX_LIFE_SECS + Throw)
  /\ pc = "confirm" /\ ~Lost => now = task.sent
  /\ pc = "final" \/ (pc = "build" /\ task.builds > 0) => Enough(p, now + Throw)
  /\ pc \in {"build", "final"} \/ Lost => task.builds <= faults
  /\ pc = "confirm" => task.builds <= faults + 1
  /\ pc \in {"spawn", "spawned"} => now + BUFFER_SECS < Deadline(p)

OnTime == Keeping => \A p \in Positions : Trading(p) => Adopts(p) /\ Settles(p)

TimeOK == PaceOK /\ BookIsOfIt /\ Solvent /\ DrawnEarly /\ OnTime /\ NeverLate

TimeInv == MoneyInv /\ TimeOK

\* The schedule leaves room for the grace period of the hook, or the delay of an adopted
\* position, and for every failure; the hook cannot lose what the settle has to pay.
RoomForFailures ==
  /\ TX_LIFE_SECS > 0 /\ MAX_BUILDS > 0
  /\ PRINCIPAL >= DRAW_TX_FEE + MAX_TRADES
  /\ BUFFER_SECS > MaxOf(GRACE_SECS, ADOPT_DELAY_SECS) + MAX_FAULTS * Setback

\* The constants that time and failures are bounded by.
LEMMA MoreConstants ==
  /\ GRACE_SECS \in Nat /\ SETTLE_TX_SECS \in Nat /\ MAX_BUILDS \in Nat /\ MAX_NOW \in Nat
  /\ MAX_TRADES \in Nat /\ MAX_FAULTS \in Nat /\ DRAW_MARGIN_SECS \in Nat
BY SdkRunnerAssumption

\* The schedule leaves room for every setback.
LEMMA Setbacks ==
  ASSUME RoomForFailures
  PROVE  /\ Throw \in {0, 1} /\ Setback \in Nat /\ Setback >= GRACE_SECS
         /\ Setback >= TX_LIFE_SECS + Throw /\ Setback >= 1
         /\ MAX_FAULTS * Setback \in Nat
         /\ BUFFER_SECS > GRACE_SECS + MAX_FAULTS * Setback
         /\ BUFFER_SECS > ADOPT_DELAY_SECS + MAX_FAULTS * Setback
<1>1. Throw \in {0, 1}
  BY DEF Throw
<1>2. /\ Setback \in Nat /\ Setback >= GRACE_SECS
      /\ Setback >= TX_LIFE_SECS + Throw /\ Setback >= 1
  BY <1>1, Constants, MoreConstants DEF Setback, MaxOf, RoomForFailures
<1>3. MAX_FAULTS * Setback \in Nat
  BY <1>2, MoreConstants
<1> HIDE DEF Setback
<1>4. BUFFER_SECS > GRACE_SECS + MAX_FAULTS * Setback
      /\ BUFFER_SECS > ADOPT_DELAY_SECS + MAX_FAULTS * Setback
  BY <1>3, Constants, MoreConstants DEF RoomForFailures, MaxOf
<1> QED BY <1>1, <1>2, <1>3, <1>4

\* What the failures that are left may cost is at most what all of them may.
LEMMA SpareIs ==
  ASSUME RoomForFailures, faults \in Nat, faults <= MAX_FAULTS
  PROVE  Spare \in Nat /\ Spare <= MAX_FAULTS * Setback
<1> DEFINE s == Setback
<1>1. s \in Nat
  BY Setbacks
<1> HIDE DEF s
<1>2. (MAX_FAULTS - faults) \in Nat
  BY MoreConstants
<1>3. (MAX_FAULTS - faults) * s \in Nat
  BY <1>1, <1>2
<1>4. (MAX_FAULTS - faults) * s = MAX_FAULTS * s - faults * s /\ faults * s >= 0
  BY <1>1, MoreConstants
<1>5. MAX_FAULTS * s \in Nat /\ faults * s \in Nat
  BY <1>1, MoreConstants
<1>6. (MAX_FAULTS - faults) * s <= MAX_FAULTS * s
  BY <1>3, <1>4, <1>5
<1> QED BY <1>3, <1>6 DEF Spare, s

\* A step fails or it does not, and a failure pays for one setback.
LEMMA SpareMoves ==
  ASSUME RoomForFailures, faults \in Nat, faults <= MAX_FAULTS
  PROVE  /\ UNCHANGED faults => Spare' = Spare
         /\ Fault => Spare' \in Nat /\ Spare = Spare' + Setback
<1>1. UNCHANGED faults => Spare' = Spare
  BY DEF Spare, Setback, Throw
<1>2. ASSUME Fault
      PROVE  Spare' \in Nat /\ Spare = Spare' + Setback
  <2> DEFINE s == Setback
  <2>1. s \in Nat
    BY Setbacks
  <2>2. Spare' = (MAX_FAULTS - faults') * s
    BY DEF Spare, Setback, Throw
  <2> HIDE DEF s
  <2>3. faults' = faults + 1 /\ faults' \in Nat /\ faults' <= MAX_FAULTS
    BY <1>2, MoreConstants DEF Fault
  <2> DEFINE n == MAX_FAULTS - faults'
  <2>4. n \in Nat /\ MAX_FAULTS - faults = n + 1
    BY <2>3, MoreConstants
  <2> HIDE DEF n
  <2>5. n * s \in Nat /\ (n + 1) * s = n * s + s
    BY <2>1, <2>4
  <2>6. Spare' = n * s
    BY <2>2 DEF n
  <2>7. Spare = (n + 1) * s
    BY <2>4 DEF Spare, s
  <2> QED BY <2>5, <2>6, <2>7 DEF s
<1> QED BY <1>1, <1>2

\* A step is at most one failure.
LEMMA StepFaults ==
  ASSUME [Next]_vars
  PROVE  UNCHANGED faults \/ Fault
<1>1. CASE Runner
  <2>1. CASE Restart \/ StartTick \/ StopHook \/ Look \/ DropBook \/ Scan \/ SendDraw \/ DrawReturns
             \/ SaveGroup \/ Build \/ SettleThrows \/ Settled
    BY <2>1 DEF Restart, StartTick, StopHook, Look, DropBook, Scan, SendDraw, DrawReturns, SaveGroup,
                Build, SettleThrows, Settled, NoFault
  <2>2. CASE Adopt \/ ReadReserve \/ ReadBalance
    BY <2>2 DEF Adopt, ReadReserve, ReadBalance, Reads, NoFault
  <2>3. CASE DrawErrors \/ StartHook \/ Confirm \/ FinalCheck
    BY <2>3 DEF DrawErrors, StartHook, Confirm, FinalCheck, NoFault
  <2> QED BY <1>1, <2>1, <2>2, <2>3 DEF Runner
<1>2. CASE Calls \/ Exit \/ Stall \/ Unbind
  BY <1>2 DEF Calls, CallFails, Exit, Stall, Unbind
<1>3. CASE Lands
  BY <1>3 DEF Lands, DrawLands, SettleLands, Gone, NoFault
<1>4. CASE Tick \/ Bind \/ HookTrades \/ HookExits
  BY <1>4 DEF Tick, Bind, HookTrades, HookExits
<1>5. CASE \E p \in Positions : Open(p) \/ Cancel(p) \/ Claim(p)
  BY <1>5 DEF Open, Cancel, Claim, TraderMoves
<1>6. CASE UNCHANGED vars
  BY <1>6 DEF vars
<1> QED BY <1>1, <1>2, <1>3, <1>4, <1>5, <1>6 DEF Next, Others

\* Time passes in one way only.
LEMMA StepClock ==
  ASSUME [Next]_vars
  PROVE  UNCHANGED now \/ Tick
<1>1. CASE Thinking \/ Writing
  BY <1>1, ThinkingIs DEF Thinks, Writing, DropBook, Adopt, DrawReturns, SaveGroup, Settled, Quiet
<1>2. CASE Happens
  BY <1>2 DEF Happens, Lands, DrawLands, SettleLands, Gone, Stall, Bind, Unbind, HookTrades, Open,
              Cancel, Claim, TraderMoves
<1>3. CASE StopHook \/ StartTick \/ StartHook \/ HookExits \/ Exit \/ Restart \/ UNCHANGED vars
  BY <1>3 DEF StopHook, StartTick, StartHook, HookExits, Exit, Restart, vars
<1> QED BY <1>1, <1>2, <1>3, StepKinds

\* A position is opened once, in time for its deadline.
LEMMA OpenedMoves ==
  ASSUME StepsInv, [Next]_vars, NEW p \in Positions
  PROVE  /\ position[p].status # "absent" => position'[p].opened = position[p].opened
         /\ position[p].status = "absent" /\ position'[p].status # "absent" =>
              position'[p].opened + DURATION < MAX_NOW
<1>1. position \in [Positions -> [status : Statuses, opened : Nat, drawn : Nat]]
      /\ txs \subseteq Tran /\ now \in Nat
  BY DEF StepsInv, ChainOK
<1>3. CASE UNCHANGED position
  BY <1>3
<1>4. CASE \E q \in Positions : Open(q)
  <2>0. PICK q \in Positions : Open(q)
    BY <1>4
  <2>1. /\ position[q].status = "absent" /\ now < MAX_NOW - DURATION
        /\ position' = [position EXCEPT ![q] = [position[q] EXCEPT !.status = "open", !.opened = now]]
    BY <2>0 DEF Open, TraderMoves, SetPosition
  <2>2. CASE p = q
    BY <1>1, <2>1, <2>2, Constants, MoreConstants
  <2>3. CASE p # q
    BY <1>1, <2>1, <2>3
  <2> QED BY <2>2, <2>3
<1>5. CASE \E q \in Positions : Cancel(q) \/ Claim(q)
  BY <1>1, <1>5 DEF Cancel, Claim, TraderMoves, SetPosition
<1>6. CASE \E tx \in txs : DrawLands(tx) \/ SettleLands(tx)
  <2>0. PICK tx \in txs : DrawLands(tx) \/ SettleLands(tx)
    BY <1>6
  <2>1. /\ tx.p \in Positions /\ position[tx.p].status # "absent"
        /\ \/ position' = [position EXCEPT ![tx.p] =
                             [position[tx.p] EXCEPT !.status = "trading", !.drawn = now]]
           \/ position' = [position EXCEPT ![tx.p] = [position[tx.p] EXCEPT !.status = "settled"]]
    BY <1>1, <2>0 DEF DrawLands, SettleLands, CanDraw, CanSettle, SetPosition, Tran
  <2> DEFINE r == position[tx.p]
  <2>r. r \in [status : Statuses, opened : Nat, drawn : Nat]
    BY <1>1, <2>1
  <2>2. position'[p].opened = position[p].opened
    <3>1. p # tx.p => position'[p] = position[p]
      BY <1>1, <2>1
    <3>2. position'[tx.p] \in {[r EXCEPT !.status = "trading", !.drawn = now],
                               [r EXCEPT !.status = "settled"]}
      BY <1>1, <2>1
    <3>3. [r EXCEPT !.status = "trading", !.drawn = now].opened = r.opened
          /\ [r EXCEPT !.status = "settled"].opened = r.opened
      BY <2>r
    <3> QED BY <3>1, <3>2, <3>3
  <2>3. position[p].status = "absent" => p # tx.p
    BY <2>1
  <2>4. position[p].status = "absent" => position'[p].status = "absent"
    BY <1>1, <2>1, <2>3
  <2> QED BY <2>2, <2>4
<1>7. CASE Happens
  <2>1. CASE Lands
    <3>2. \A tx : Gone(tx) => UNCHANGED position
      BY DEF Gone
    <3> QED BY <1>3, <1>6, <2>1, <3>2 DEF Lands
  <2>2. CASE Tick \/ Stall \/ Bind \/ Unbind \/ HookTrades
    BY <1>3, <2>2 DEF Tick, Stall, Bind, Unbind, HookTrades, chain
  <2> QED BY <1>4, <1>5, <1>7, <2>1, <2>2 DEF Happens
<1>8. CASE Thinking \/ Writing
  BY <1>3, <1>8, ThinkingIs DEF Thinks, Writing, DropBook, Adopt, DrawReturns, SaveGroup, Settled,
     Quiet, chain
<1>9. CASE StopHook \/ StartTick \/ StartHook \/ HookExits \/ Exit \/ Restart \/ UNCHANGED vars
  BY <1>3, <1>9 DEF StopHook, StartTick, StartHook, HookExits, Exit, Restart, vars, chain
<1> QED BY <1>7, <1>8, <1>9, StepKinds

\* A deadline is set once.
LEMMA DeadlineMoves ==
  ASSUME StepsInv, [Next]_vars, NEW p \in Positions
  PROVE  /\ Deadline(p) \in Nat /\ Deadline(p)' \in Nat
         /\ Status(p) # "absent" => Deadline(p)' = Deadline(p)
         /\ Status(p) = "absent" /\ Status(p)' # "absent" => Deadline(p)' < MAX_NOW
<1>1. position \in [Positions -> [status : Statuses, opened : Nat, drawn : Nat]]
      /\ position' \in [Positions -> [status : Statuses, opened : Nat, drawn : Nat]]
  BY PositionMoves DEF StepsInv, ChainOK
<1>2. Deadline(p) = position[p].opened + DURATION /\ Deadline(p)' = position'[p].opened + DURATION
      /\ Status(p) = position[p].status /\ Status(p)' = position'[p].status
  BY DEF Deadline, Status
<1>3. position[p].opened \in Nat /\ position'[p].opened \in Nat
  BY <1>1
<1> QED BY <1>2, <1>3, OpenedMoves, Constants

\* How a tick and a unit of time go on.
LEMMA PaceMoves ==
  ASSUME PaceOK, StepsInv, [Next]_vars
  PROVE  /\ pace' \in {"any", "due", "done"}
         /\ pace' = "done" => pc' = "sleep" \/ now' >= MAX_NOW
         /\ pace' # "any" => pace # "any" /\ ~Unbind
<1> DEFINE Goal ==
         /\ pace' \in {"any", "due", "done"}
         /\ pace' = "done" => pc' = "sleep" \/ now' >= MAX_NOW
         /\ pace' # "any" => pace # "any" /\ ~Unbind
<1>0. /\ pace \in {"any", "due", "done"} /\ (pace = "done" => pc = "sleep" \/ now >= MAX_NOW)
      /\ (Unbind => pace' = "any")
  BY DEF PaceOK, Unbind
<1>1. CASE EndTick
  BY <1>0, <1>1 DEF EndTick, Done
<1>2. CASE UNCHANGED pace /\ UNCHANGED now /\ (pc = "sleep" => pc' = "sleep" \/ StartTick)
  BY <1>0, <1>2, MoreConstants DEF StartTick, StepsInv, ChainOK
<1>3. CASE Thinking
  <2>1. UNCHANGED now
    BY <1>3, ThinkingIs DEF Thinks
  <2>2. CASE Calls
    BY <1>0, <2>2 DEF Calls, CallFails, Done
  <2>3. CASE Look \/ Scan \/ ReadReserve \/ SendDraw \/ DrawErrors \/ ReadBalance \/ Build
             \/ SettleThrows \/ Confirm \/ FinalCheck
    <3>1. pc # "sleep" /\ (EndTick \/ UNCHANGED pace)
      BY <2>3 DEF Look, Scan, ReadReserve, SendDraw, DrawErrors, ReadBalance, Build,
              SettleThrows, Confirm, FinalCheck, Goto, To
    <3> QED BY <1>1, <1>2, <2>1, <3>1
  <2> QED BY <1>3, <2>2, <2>3 DEF Thinking
<1>4. CASE Writing
  <2>1. UNCHANGED now /\ pc # "sleep" /\ (EndTick \/ UNCHANGED pace)
    BY <1>4 DEF Writing, DropBook, Adopt, DrawReturns, SaveGroup, Settled, Quiet, Goto, To
  <2> QED BY <1>1, <1>2, <2>1
<1>5. CASE StopHook \/ StartHook \/ Restart
  <2>1. UNCHANGED now /\ pc # "sleep" /\ (EndTick \/ UNCHANGED pace)
    BY <1>5 DEF StopHook, StartHook, Restart, Goto, To
  <2> QED BY <1>1, <1>2, <2>1
<1>6. CASE StartTick
  <2>1. UNCHANGED now /\ UNCHANGED pace
    BY <1>6 DEF StartTick, Goto, To
  <2> QED BY <1>2, <1>6, <2>1
<1>7. CASE HookExits \/ UNCHANGED vars
  <2>1. UNCHANGED <<now, pc, pace>>
    BY <1>7 DEF HookExits, vars
  <2> QED BY <1>2, <2>1
<1>8. CASE Exit \/ Stall \/ Unbind
  <2>1. pace' = "any" \/ (pace # "any" /\ pace' = "due" /\ ~Unbind)
    BY <1>8 DEF Exit, Stall, Unbind
  <2> QED BY <2>1
<1>9. CASE Tick
  <2>1. pace' = IF pace = "any" THEN "any" ELSE "due"
    BY <1>9 DEF Tick
  <2> QED BY <1>0, <2>1
<1>10. CASE Bind \/ HookTrades
  <2>1. UNCHANGED <<now, pc, pace>>
    BY <1>10 DEF Bind, HookTrades, RunnerOnly
  <2> QED BY <1>2, <2>1
<1>11. CASE Lands
  <2>1. UNCHANGED <<now, pc, pace>>
    BY <1>11 DEF Lands, DrawLands, SettleLands, Gone, RunnerOnly
  <2> QED BY <1>2, <2>1
<1>12. CASE \E p \in Positions : Open(p) \/ Cancel(p) \/ Claim(p)
  <2>1. UNCHANGED <<now, pc, pace>>
    BY <1>12 DEF Open, Cancel, Claim, TraderMoves, RunnerOnly
  <2> QED BY <1>2, <2>1
<1> QED BY <1>3, <1>4, <1>5, <1>6, <1>7, <1>8, <1>9, <1>10, <1>11, <1>12, StepKinds DEF Happens

\* The pace stays what it is, and no deadline is beyond the bound on time.
LEMMA PaceSteps ==
  ASSUME PaceOK, StepsInv, [Next]_vars
  PROVE  PaceOK'
<1>1. faults' \in Nat /\ faults' <= MAX_FAULTS
  BY StepFaults, MoreConstants DEF PaceOK, Fault
<1>2. pace' # "any" => bound'
  <2>1. pace' # "any" => bound /\ ~Unbind
    BY PaceMoves DEF PaceOK
  <2>2. bound /\ ~Unbind => bound'
    <3>1. CASE Thinking \/ Writing
      BY <3>1, ThinkingIs DEF Thinks, Writing, DropBook, Adopt, DrawReturns, SaveGroup, Settled,
         Quiet, chain
    <3>2. CASE Happens
      BY <3>2 DEF Happens, Lands, DrawLands, SettleLands, Gone, Tick, Stall, Bind, HookTrades, Open,
                  Cancel, Claim, TraderMoves, chain
    <3>3. CASE StopHook \/ StartTick \/ StartHook \/ HookExits \/ Exit \/ Restart \/ UNCHANGED vars
      BY <3>3 DEF StopHook, StartTick, StartHook, HookExits, Exit, Restart, vars, chain
    <3> QED BY <3>1, <3>2, <3>3, StepKinds
  <2> QED BY <2>1, <2>2
<1>3. ASSUME NEW p \in Positions, Status(p)' # "absent"
      PROVE  Deadline(p)' < MAX_NOW
  BY <1>3, DeadlineMoves DEF PaceOK
<1> QED BY <1>1, <1>2, <1>3, PaceMoves DEF PaceOK

\* What a draw that lands finds: a runner that waits for it, with no book, and nothing
\* that trades.
LEMMA DrawLanding ==
  ASSUME MoneyInv, NEW tx \in txs, DrawLands(tx)
  PROVE  /\ pc = "drawing" /\ tx = Tx("draw") /\ tx.p = task.p /\ task.p \in Positions
         /\ NoneTrading /\ InFlight("draw") /\ Book = NoBook /\ Book.p # task.p /\ hook' = hook
         /\ Book' = Book /\ (Told' <=> Told) /\ (Keeping' <=> Keeping)
         /\ UNCHANGED <<now, mem, file, pc, task, pace, faults, made>>
         /\ Status(task.p) = "open" /\ Status(task.p)' = "trading"
         /\ wallet'.lamports = wallet.lamports + PRINCIPAL - DRAW_TX_FEE
         /\ \A p : Trading(p)' => p = task.p
<1>1. StepsInv /\ DrawsOK
  BY DEF MoneyInv, HookInv, DrawInv
<1>2. /\ UNCHANGED <<now, made, mem, file, pc, task, pace, faults, hook>> /\ tx.kind = "draw"
      /\ position[tx.p].status = "open"
      /\ position' = [position EXCEPT ![tx.p] =
                        [position[tx.p] EXCEPT !.status = "trading", !.drawn = now]]
      /\ wallet'.lamports = wallet.lamports + PRINCIPAL - DRAW_TX_FEE
  BY DEF DrawLands, RunnerOnly, SetPosition, CanDraw, Moved
<1>3. Book' = Book /\ (Told' <=> Told)
  BY <1>2 DEF Book, Told, Active, Loaded
<1>4. pc = "drawing" /\ tx = Tx("draw") /\ tx.p = task.p /\ InFlight("draw")
  BY <1>1, <1>2 DEF DrawsOK, InFlight, Tx
<1>5. Book = NoBook /\ Book.p = "none" /\ task.p \in Positions /\ NoneTrading
  BY <1>1, <1>4, Beginnings DEF Book, StepsInv, BookOK, TaskOK, DrawsOK
<1>6. /\ Status(task.p)' = "trading" /\ Status(task.p) = "open"
      /\ \A p \in Positions : p # task.p => Status(p)' = Status(p) /\ Status(p) # "trading"
  BY <1>1, <1>2, <1>4, <1>5 DEF StepsInv, ChainOK, Status, NoneTrading
<1>7. ASSUME NEW p, Trading(p)'
      PROVE  p = task.p
  <2>1. p \in Positions /\ position'[p].status = "trading"
    BY <1>7 DEF Trading, Status
  <2> QED BY <1>6, <2>1 DEF Status
<1> QED BY <1>2, <1>3, <1>4, <1>5, <1>6, <1>7, Constants DEF Keeping

\* Any other step leaves what trades as it was, or closes it.
LEMMA TradedBefore ==
  ASSUME StepsInv, [Next]_vars, ~\E tx \in txs : DrawLands(tx), NEW p, Trading(p)'
  PROVE  /\ p \in Positions /\ Trading(p) /\ Deadline(p)' = Deadline(p)
         /\ Deadline(p) \in Nat /\ p \notin Terminal /\ ~NoneTrading
<1>1. p \in Positions /\ Status(p)' = "trading"
  BY DEF Trading
<1>2. Status(p) = "trading"
  BY <1>1, StatusMoves
<1> QED BY <1>1, <1>2, DeadlineMoves, TerminalIs DEF Trading, Status, NoneTrading

\* The runner is at the book of the position that trades, or writes it.
LEMMA BookWrites ==
  ASSUME MoneyInv, [Next]_vars, Writing, ~Told'
  PROVE  /\ ~Told /\ pc \in {"drop", "settled", "adopt", "drawing", "spawned"}
         /\ UNCHANGED <<now, position, wallet, bound, txs, made, hook>>
         /\ pc # "spawned" => hook = NoHook
         /\ pc \in {"drop", "settled"} => Book' = NoBook /\ Book.p \in Terminal
         /\ pc \in {"adopt", "drawing"} => Book'.p = task.p /\ task.p \in Positions /\ Book = NoBook
         /\ pc = "spawned" => Book' = Book /\ Book # NoBook
         /\ \/ pc = "drawing" /\ pc' = "spawn" /\ task' = task
            \/ pc # "drawing" /\ pc' = "sleep" /\ task' = NoTask
<1>1. HookInv /\ StepsInv /\ HookOK
  BY DEF MoneyInv, HookInv
<1>2. /\ pc \in {"drop", "settled", "adopt", "drawing", "spawned"} /\ pc' \in {"sleep", "spawn"}
      /\ mem'.alerted = mem.alerted
      /\ UNCHANGED <<now, position, wallet, bound, txs, made, hook>>
      /\ \/ pc = "drawing" /\ pc' = "spawn" /\ task' = task
         \/ pc # "drawing" /\ pc' = "sleep" /\ task' = NoTask
  BY <1>1, WritingIs DEF chain
<1>3. Book = Active /\ Book' = Active' /\ ~mem.alerted /\ ~Told
  BY <1>2 DEF Book, Told
<1>4. pc # "spawned" => hook = NoHook
  BY <1>1, <1>2, <1>3 DEF HookOK
<1>5. /\ pc \in {"drop", "settled"} => Active' = NoBook
      /\ pc \in {"adopt", "drawing"} => Active'.p = task.p
      /\ pc = "spawned" => Active' = Active
  BY <1>1, WritingIs DEF Active
<1>6. /\ pc \in {"drop", "settled"} => Active.p \in Terminal
      /\ pc \in {"adopt", "drawing"} => Active = NoBook /\ task.p \in Positions
      /\ pc = "spawned" => Active # NoBook
  BY <1>1 DEF StepsInv, BookOK, TaskOK
<1> QED BY <1>2, <1>3, <1>4, <1>5, <1>6

\* The book is written for the position that trades, and forgotten after it.
LEMMA BookIsOfItSteps ==
  ASSUME LaggingReads = {}, ~LATE_DRAWS, MoneyInv, BookIsOfIt, [Next]_vars
  PROVE  BookIsOfIt'
<1>1. HookInv /\ StepsInv /\ DrawsOK
  BY DEF MoneyInv, HookInv, DrawInv
<1> SUFFICES ASSUME ~Told', NEW p \in Positions, Trading(p)'
             PROVE  /\ Book' = NoBook \/ Book'.p = p
                    /\ pc' \in {"adopt", "drawing"} => task'.p = p
  BY DEF BookIsOfIt, NoBook
<1>2. ~Told /\ (Book' = Book \/ Writing)
  BY <1>1, BookMoves
<1>3. CASE \E tx \in txs : DrawLands(tx)
  BY <1>3, DrawLanding
<1>4. CASE ~\E tx \in txs : DrawLands(tx)
  <2>1. Trading(p) /\ p \notin Terminal /\ ~NoneTrading
    BY <1>1, <1>4, TradedBefore
  <2>2. /\ Book = NoBook \/ Book.p = p
        /\ pc \in {"adopt", "drawing"} => task.p = p
    BY <1>2, <2>1 DEF BookIsOfIt
  <2>3. Book' = NoBook \/ Book'.p = p
    BY <1>2, <2>1, <2>2, BookWrites
  <2>4. pc' = "adopt" => task'.p = p
    <3>1. pc' = "adopt" => \/ pc = "adopt" /\ task' = task
                           \/ task'.p \in Positions /\ Status(task'.p) = "trading"
      BY <1>1, TaskPath
    <3> QED BY <1>1, <2>1, <2>2, <3>1 DEF DrawsOK, Trading, Status
  <2>5. pc' = "drawing" => task'.p = p
    <3>1. pc' = "drawing" => \/ pc = "drawing" /\ task' = task
                             \/ pc = "draw"
      BY <1>1, TaskPath
    <3>2. pc # "draw"
      BY <1>1, <2>1 DEF DrawsOK
    <3> QED BY <2>2, <3>1, <3>2
  <2> QED BY <2>3, <2>4, <2>5
<1> QED BY <1>3, <1>4

\* A draw is sent by a wallet that holds the reserve.
LEMMA ReserveIsRead ==
  ASSUME StepsInv, LaggingReads = {}, [Next]_vars, pc' \in {"draw", "drawing"}
  PROVE  \/ pc \in {"draw", "drawing"} /\ task'.amount = task.amount
         \/ task'.amount = wallet.lamports /\ wallet.lamports >= walletReserve
<1>1. task \in Task /\ wallet.lamports \in Int /\ walletReserve \in Int
  BY Constants DEF StepsInv, TaskOK, ChainOK, walletReserve
<1>2. CASE pc' = "draw" /\ ~(pc = "draw" /\ task' = task)
  <2>1. pc = "reserve" /\ task' = [task EXCEPT !.amount = wallet.lamports]
    BY <1>2, TaskPath
  <2>2. task'.amount = wallet.lamports
    BY <1>1, <2>1 DEF Task
  <2>3. ReadReserve
    <3>1. Thinking => ReadReserve
      BY <1>2, <2>1 DEF Thinking, Look, Scan, SendDraw, DrawErrors, ReadBalance, Build, SettleThrows,
                        Confirm, FinalCheck, Calls, CallFails, Goto, EndTick
    <3>2. ~Writing /\ ~Happens
      BY <1>2, <2>1, WritingIs, HappensIs
    <3>3. ~(StopHook \/ StartTick \/ StartHook \/ HookExits \/ Exit \/ Restart \/ UNCHANGED vars)
      BY <1>2, <2>1 DEF StopHook, StartTick, StartHook, HookExits, Exit, Restart, Goto, vars
    <3> QED BY <3>1, <3>2, <3>3, StepKinds
  <2>4. PICK balance \in {wallet.lamports, wallet.before} :
          Reads(balance) /\ (balance < walletReserve => EndTick)
    BY <2>3 DEF ReadReserve
  <2>5. balance = wallet.lamports
    BY <2>4 DEF Reads
  <2>6. ~EndTick
    BY <1>2 DEF EndTick
  <2> QED BY <1>1, <2>2, <2>4, <2>5, <2>6
<1>3. CASE pc' = "drawing" /\ ~(pc = "drawing" /\ task' = task)
  <2>1. pc = "draw" /\ SendDraw
    BY <1>3, TaskPath
  <2>2. task' = [task EXCEPT !.sent = now]
    BY <1>3, <2>1 DEF SendDraw, EndTick
  <2> QED BY <1>1, <2>1, <2>2 DEF Task
<1> QED BY <1>2, <1>3

\* The wallet keeps what the settle needs: a draw adds the principal, a trade takes
\* what the hook is allowed to lose.
LEMMA SolventSteps ==
  ASSUME LaggingReads = {}, ~LATE_DRAWS, MoneyInv, BookIsOfIt, Solvent, [Next]_vars
  PROVE  Solvent'
<1>1. HookInv /\ StepsInv /\ DrawsOK /\ MoneyOK
  BY DEF MoneyInv, HookInv, DrawInv
<1>2. /\ wallet.lamports \in Int /\ made \in [Positions -> Int] /\ walletReserve \in Int
      /\ walletReserve' = walletReserve /\ Book \in Books
  BY <1>1, Constants DEF StepsInv, ChainOK, walletReserve, Book, Loaded, Active, MemoryOK, Memory,
                         File, State, Empty, Books
<1>3. ~Told' => ~Told
  BY <1>1, BookMoves
<1>4. ASSUME NEW p \in Positions
      PROVE  made'[p] >= -MAX_TRADES
  <2>1. CASE UNCHANGED made
    BY <1>4, <2>1 DEF Solvent
  <2>2. CASE HookTrades
    <3>1. PICK gain \in {-1, 1} : /\ made[hook.p] + gain \in -MAX_TRADES..MAX_TRADES
                                  /\ made' = [made EXCEPT ![hook.p] = @ + gain]
      BY <2>2 DEF HookTrades
    <3>2. CASE p = hook.p
      BY <1>2, <3>1, <3>2, MoreConstants
    <3>3. CASE p # hook.p
      BY <1>2, <1>4, <3>1, <3>3 DEF Solvent
    <3> QED BY <3>2, <3>3
  <2>3. \A tx : DrawLands(tx) \/ SettleLands(tx) => UNCHANGED made
    BY DEF DrawLands, SettleLands
  <2> QED BY <2>1, <2>2, <2>3, WalletMoves
<1>5. ASSUME ~Told', pc' \in {"draw", "drawing"}
      PROVE  task'.amount >= walletReserve
  BY <1>1, <1>3, <1>5, ReserveIsRead DEF Solvent
<1>6. ASSUME ~Told', NEW p \in Positions, Trading(p)'
      PROVE  wallet'.lamports >= walletReserve + PRINCIPAL - DRAW_TX_FEE + made'[p]
  <2>1. CASE \E tx \in txs : DrawLands(tx)
    <3>1. PICK tx \in txs : DrawLands(tx)
      BY <2>1
    <3>2. /\ pc = "drawing" /\ InFlight("draw") /\ p = task.p /\ Status(p) = "open"
          /\ wallet'.lamports = wallet.lamports + PRINCIPAL - DRAW_TX_FEE /\ made' = made
      BY <1>6, <3>1, DrawLanding
    <3>3. wallet.lamports = task.amount /\ task.amount >= walletReserve /\ made[p] = 0
      BY <1>1, <1>3, <1>6, <3>2 DEF MoneyOK, DrawTrue, Unmade, Solvent
    <3> QED BY <1>2, <3>2, <3>3, Constants
  <2>2. CASE ~\E tx \in txs : DrawLands(tx)
    <3>1. Trading(p)
      BY <1>1, <1>6, <2>2, TradedBefore
    <3>2. wallet.lamports >= walletReserve + PRINCIPAL - DRAW_TX_FEE + made[p]
      BY <1>3, <1>6, <3>1 DEF Solvent
    <3>3. CASE UNCHANGED <<wallet, made>>
      BY <3>2, <3>3
    <3>4. CASE HookTrades
      <4>1. PICK gain \in {-1, 1} : /\ wallet' = [wallet EXCEPT !.lamports = @ + gain]
                                    /\ made' = [made EXCEPT ![hook.p] = @ + gain]
        BY <3>4 DEF HookTrades
      <4>2. hook # NoHook /\ hook.p \in Positions
        BY <1>1, <3>4 DEF HookTrades, StepsInv, ChainOK
      <4>3. hook.p = Book.p
        BY <1>1, <1>3, <1>6, <4>2 DEF MoneyOK, HookTrue
      <4>4. Book.p = p
        BY <1>2, <1>3, <1>6, <3>1, <4>2, <4>3, BookIs DEF BookIsOfIt
      <4>5. wallet'.lamports = wallet.lamports + gain /\ made'[p] = made[p] + gain
        BY <1>1, <1>2, <4>1, <4>3, <4>4 DEF StepsInv, ChainOK
      <4>6. gain \in Int /\ made[p] \in Int
        BY <1>2
      <4> QED BY <1>2, <3>2, <4>5, <4>6, Constants
    <3>5. CASE \E tx \in txs : SettleLands(tx)
      <4>1. PICK tx \in txs : SettleLands(tx)
        BY <3>5
      <4>2. tx.p \in Positions /\ position[tx.p].status = "trading"
            /\ position' = [position EXCEPT ![tx.p] = [position[tx.p] EXCEPT !.status = "settled"]]
        BY <1>1, <4>1 DEF SettleLands, SetPosition, CanSettle, StepsInv, ChainOK, Tran
      <4>3. tx.p = p
        BY <1>1, <3>1, <4>2 DEF DrawsOK, Trading, Status
      <4>4. position'[p].status = "settled"
        BY <1>1, <4>2, <4>3 DEF StepsInv, ChainOK
      <4> QED BY <1>6, <4>4 DEF Trading, Status
    <3> QED BY <2>2, <3>3, <3>4, <3>5, WalletMoves
  <2> QED BY <2>1, <2>2
<1> QED BY <1>2, <1>4, <1>5, <1>6 DEF Solvent

\* A settle that was computed from the wallet can be paid.
LEMMA SettleCanBePaid ==
  ASSUME RoomForFailures, MoneyInv, TimeOK, Keeping, pc \in {"build", "confirm"},
         Trading(task.p)
  PROVE  CanSettle(Tx("settle"))
<1>1. StepsInv /\ MoneyOK /\ bound /\ ~Told /\ task.p \in Positions
  BY DEF MoneyInv, HookInv, TimeOK, PaceOK, Keeping, Trading
<1>2. /\ wallet.lamports \in Int /\ made[task.p] \in Int
  BY <1>1 DEF StepsInv, ChainOK
<1>3. wallet.lamports >= walletReserve + PRINCIPAL - DRAW_TX_FEE + made[task.p]
      /\ made[task.p] >= -MAX_TRADES
  BY <1>1 DEF TimeOK, Solvent
<1>4. wallet.lamports >= walletReserve
  BY <1>2, <1>3, Constants, MoreConstants DEF RoomForFailures, walletReserve
<1>5. task.amount = Owed(task.p)
  BY <1>1 DEF MoneyOK, TaskTrue, Trading
<1>6. task.amount \in Int /\ task.amount <= wallet.lamports - walletReserve
  BY <1>2, <1>4, <1>5, Constants DEF Owed, MinOf, MaxOf, walletReserve
<1>7. wallet.lamports - task.amount - SETTLE_FEE >= RENT
  BY <1>2, <1>6, Constants DEF walletReserve
<1> QED BY <1>1, <1>7 DEF CanSettle, Pays, Tx, Trading, Status

\* What is known while a position trades and the runner keeps up.
LEMMA TradingFacts ==
  ASSUME RoomForFailures, MoneyInv, TimeOK, Keeping, NEW p, Trading(p)
  PROVE  /\ p \in Positions /\ p \notin Terminal /\ ~NoneTrading /\ Status(p) = "trading"
         /\ now \in Nat /\ Deadline(p) \in Nat /\ now < Deadline(p) /\ Deadline(p) < MAX_NOW
         /\ Spare \in Nat /\ BUFFER_SECS > GRACE_SECS + Spare /\ BUFFER_SECS > ADOPT_DELAY_SECS + Spare
         /\ faults \in Nat /\ faults <= MAX_FAULTS
         /\ Book \in Books /\ Book.settleAt \in Int
         /\ Book = NoBook \/ Book.p = p
         /\ Book = NoBook => Book.p # p
         /\ pc # "down" => Book = Active
         /\ Adopts(p) /\ Settles(p) /\ bound /\ ~Told /\ StepsInv
         /\ Waited \in {0, 1} /\ (pc # "sleep" => Waited = 0 /\ pace = "due")
         /\ task \in Task /\ task.sent \in Nat /\ task.builds \in Nat /\ task.amount \in Int
         /\ hook # NoHook => Book.p = p /\ pc \in {"down", "sleep", "look", "stop", "spawned"}
<1>1. HookInv /\ StepsInv /\ HookOK /\ MoneyOK /\ PaceOK /\ ~Told /\ ~mem.alerted /\ pace # "any"
  BY DEF MoneyInv, HookInv, TimeOK, Keeping, Told
<1>2. /\ p \in Positions /\ p \notin Terminal /\ ~NoneTrading /\ Status(p) = "trading"
      /\ now \in Nat
  BY <1>1, TerminalIs DEF Trading, Status, NoneTrading, StepsInv, ChainOK
<1>3. Deadline(p) \in Nat /\ Deadline(p) < MAX_NOW
  <2>1. position[p].opened \in Nat
    BY <1>1, <1>2 DEF StepsInv, ChainOK
  <2> QED BY <1>1, <1>2, <2>1, Constants DEF PaceOK, Deadline
<1>4. now < Deadline(p)
  BY <1>1, <1>2 DEF TimeOK, NeverLate, Has, Status
<1>5. Spare \in Nat /\ BUFFER_SECS > GRACE_SECS + Spare /\ BUFFER_SECS > ADOPT_DELAY_SECS + Spare
  <2>1. Spare \in Nat /\ Spare <= MAX_FAULTS * Setback
    BY <1>1, SpareIs DEF PaceOK
  <2> HIDE DEF Spare, Setback
  <2> DEFINE m == MAX_FAULTS * Setback
  <2>2. m \in Nat /\ BUFFER_SECS > GRACE_SECS + m /\ BUFFER_SECS > ADOPT_DELAY_SECS + m /\ Spare <= m
    BY <2>1, Setbacks
  <2> HIDE DEF m
  <2> QED BY <2>1, <2>2, Constants, MoreConstants
<1>6. Book \in Books
  BY <1>1 DEF StepsInv, Book, Loaded, Active, MemoryOK, Memory, File, State, Empty, Books
<1>7. /\ Book.settleAt \in Int /\ (Book = NoBook => Book.p # p)
      /\ Book = NoBook \/ Book.p = p
  BY <1>1, <1>2, <1>6, BookIs DEF TimeOK, BookIsOfIt
<1>8. Adopts(p) /\ Settles(p)
  BY <1>2 DEF TimeOK, OnTime
<1>9. Waited \in {0, 1} /\ (pc # "sleep" => Waited = 0 /\ pace = "due")
  BY <1>1, <1>2, <1>3, <1>4, MoreConstants DEF PaceOK, Waited
<1>10. task \in Task /\ task.sent \in Nat /\ task.builds \in Nat /\ task.amount \in Int
  BY <1>1 DEF StepsInv, TaskOK, Task
<1>11. hook # NoHook => Book.p = p /\ pc \in {"down", "sleep", "look", "stop", "spawned"}
  <2> SUFFICES ASSUME hook # NoHook
               PROVE  Book.p = p /\ pc \in {"down", "sleep", "look", "stop", "spawned"}
    OBVIOUS
  <2>1. hook.p \in Positions /\ hook.p = Book.p
    BY <1>1 DEF MoneyOK, HookTrue, StepsInv, ChainOK
  <2>2. pc = "down" => file.kind # "torn"
    BY <1>1 DEF Told
  <2> QED BY <1>1, <1>6, <1>7, <2>1, <2>2, BookIs DEF HookOK
<1>12. pc # "down" => Book = Active
  BY DEF Book
<1> QED BY <1>1, <1>2, <1>3, <1>4, <1>5, <1>6, <1>7, <1>8, <1>9, <1>10, <1>11, <1>12 DEF PaceOK

\* What a step leaves of it.
LEMMA StepFacts ==
  ASSUME RoomForFailures, MoneyInv, TimeOK, [Next]_vars, ~\E tx \in txs : DrawLands(tx),
         Keeping', NEW p, Trading(p)'
  PROVE  /\ Keeping /\ Trading(p) /\ Deadline(p)' = Deadline(p)
         /\ Book' = Book \/ Writing
         /\ UNCHANGED now \/ Tick
         /\ Spare' \in Nat
         /\ \/ UNCHANGED faults /\ Spare' = Spare
            \/ Fault /\ Spare = Spare' + Setback
         /\ Throw' = Throw
<1>1. HookInv /\ StepsInv /\ PaceOK /\ ~Told' /\ pace' # "any"
  BY DEF MoneyInv, HookInv, TimeOK, Keeping
<1>2. ~Told /\ (Book' = Book \/ Writing) /\ pace # "any"
  BY <1>1, BookMoves, PaceMoves
<1>3. Trading(p) /\ Deadline(p)' = Deadline(p)
  BY <1>1, TradedBefore
<1>4. /\ Spare \in Nat
      /\ UNCHANGED faults => Spare' = Spare
      /\ Fault => Spare' \in Nat /\ Spare = Spare' + Setback
  BY <1>1, SpareIs, SpareMoves DEF PaceOK
<1>5. Throw' = Throw
  BY DEF Throw
<1> QED BY <1>2, <1>3, <1>4, <1>5, StepFaults, StepClock DEF Keeping

\* Scan picks a position with time left, and no time passes until its draw is sent.
LEMMA DrawnEarlySteps ==
  ASSUME LaggingReads = {}, MoneyInv, TimeOK, [Next]_vars
  PROVE  DrawnEarly'
<1>1. HookInv /\ StepsInv /\ PaceOK /\ MoneyOK /\ DrawnEarly
  BY DEF MoneyInv, HookInv, TimeOK
<1> SUFFICES ASSUME Keeping', pc' \in {"reserve", "draw", "drawing"}
             PROVE  now' + BUFFER_SECS < Deadline(task.p)'
  BY DEF DrawnEarly
<1>2. Keeping
  BY <1>1, BookMoves, PaceMoves DEF Keeping
<1>3. task'.p \in Positions /\ task \in Task
  BY <1>1, TaskTypes DEF TaskOK, StepsInv
<1>4. CASE pc \in {"reserve", "draw", "drawing"} /\ task'.p = task.p
  <2>1. now + BUFFER_SECS < Deadline(task.p) /\ Status(task.p) # "absent"
    BY <1>1, <1>2, <1>4 DEF DrawnEarly, MoneyOK, Begun
  <2>2. position'[task.p].opened = position[task.p].opened
    BY <1>1, <1>3, <1>4, <2>1, OpenedMoves DEF Status
  <2>3. now' = now
    BY <1>2, <1>4, StepClock DEF Tick, InGrace, Keeping
  <2> QED BY <1>4, <2>1, <2>2, <2>3 DEF Deadline
<1>5. CASE ~(pc \in {"reserve", "draw", "drawing"} /\ task'.p = task.p)
  <2>1. pc' = "reserve" /\ ~(pc = "reserve" /\ task' = task)
    <3>1. [task EXCEPT !.amount = wallet.lamports].p = task.p /\ [task EXCEPT !.sent = now].p = task.p
      BY <1>3 DEF Task
    <3>2. pc = "draw" /\ SendDraw /\ pc' = "drawing" => task' = [task EXCEPT !.sent = now]
      BY DEF SendDraw, EndTick
    <3> QED BY <1>1, <1>5, <3>1, <3>2, TaskPath
  <2>2. Scan
    <3>1. Thinking => Scan
      BY <2>1 DEF Thinking, Look, ReadReserve, SendDraw, DrawErrors, ReadBalance, Build, SettleThrows,
                  Confirm, FinalCheck, Calls, CallFails, Goto, To, EndTick
    <3>2. ~Writing /\ ~Happens
      BY <1>1, <2>1, WritingIs, HappensIs
    <3>3. ~(StopHook \/ StartTick \/ StartHook \/ HookExits \/ Exit \/ Restart \/ UNCHANGED vars)
      BY <1>1, <2>1 DEF StopHook, StartTick, StartHook, HookExits, Exit, Restart, Goto, To, EndTick,
                        vars, StepsInv, TaskOK, Task
    <3> QED BY <3>1, <3>2, <3>3, StepKinds
  <2>3. PICK q \in NextToDraw : task' = [NoTask EXCEPT !.p = q]
    BY <2>1, <2>2 DEF Scan, To, EndTick
  <2>4. task'.p = q /\ UNCHANGED <<now, position>> /\ q \in Positions
    BY <2>2, <2>3 DEF NoTask, Scan, Quiet, chain, NextToDraw, Has
  <2>5. Deadline(q) - now > BUFFER_SECS + DRAW_MARGIN_SECS
    BY <2>3 DEF NextToDraw
  <2>6. Deadline(q) \in Nat /\ now \in Nat
    BY <1>1, <2>4, DeadlineMoves DEF StepsInv, ChainOK
  <2>7. Deadline(task.p)' = Deadline(q)
    BY <2>4 DEF Deadline
  <2> QED BY <2>4, <2>5, <2>6, <2>7, Constants, MoreConstants
<1> QED BY <1>4, <1>5

\* A step of a runner that keeps up, while a position trades.
StepOf(p) ==
  /\ RoomForFailures /\ ~LATE_DRAWS /\ ~SPAWN_INTERRUPTED /\ LaggingReads = {}
  /\ MoneyInv /\ TimeOK /\ [Next]_vars /\ ~\E tx \in txs : DrawLands(tx)
  /\ Keeping' /\ Trading(p)'

\* Both together, as the steps need it.
LEMMA StepContext ==
  ASSUME NEW p, StepOf(p)
  PROVE  /\ p \in Positions /\ p \notin Terminal /\ ~NoneTrading /\ Status(p) = "trading"
         /\ position[p].status = "trading"
         /\ now \in Nat /\ Deadline(p) \in Nat /\ now < Deadline(p) /\ Deadline(p) < MAX_NOW
         /\ Spare \in Nat /\ Spare' \in Nat
         /\ BUFFER_SECS > GRACE_SECS + Spare /\ BUFFER_SECS > ADOPT_DELAY_SECS + Spare
         /\ faults \in Nat /\ faults <= MAX_FAULTS
         /\ \/ UNCHANGED faults /\ Spare' = Spare
            \/ Fault /\ faults' = faults + 1 /\ Spare = Spare' + Setback
         /\ Book \in Books /\ Book.settleAt \in Int
         /\ Book = NoBook \/ Book.p = p
         /\ Book = NoBook => Book.p # p
         /\ pc # "down" => Book = Active
         /\ Book' = Book \/ Writing
         /\ Adopts(p) /\ Settles(p) /\ bound /\ ~Told /\ ~mem.alerted /\ StepsInv /\ MoneyInv /\ HookInv
         /\ Waited \in {0, 1} /\ Waited' \in {0, 1} /\ (pc # "sleep" => Waited = 0 /\ pace = "due")
         /\ task \in Task /\ task.sent \in Nat /\ task.builds \in Nat /\ task.amount \in Int
         /\ hook # NoHook => Book.p = p /\ pc \in {"down", "sleep", "look", "stop", "spawned"}
         /\ Deadline(p)' = Deadline(p) /\ Throw' = Throw /\ Throw \in {0, 1}
         /\ Setback \in Nat /\ Setback >= GRACE_SECS /\ Setback >= TX_LIFE_SECS + Throw /\ Setback >= 1
         /\ TX_LIFE_SECS \in Nat /\ TX_LIFE_SECS > 0 /\ MAX_BUILDS \in Nat /\ MAX_BUILDS > 0
         /\ GRACE_SECS \in Nat /\ BUFFER_SECS \in Nat /\ ADOPT_DELAY_SECS \in Nat /\ MAX_NOW \in Nat
         /\ MAX_FAULTS \in Nat /\ HOLD_SECS \in Nat
<1>1. /\ RoomForFailures /\ MoneyInv /\ TimeOK /\ [Next]_vars /\ ~\E tx \in txs : DrawLands(tx)
      /\ Keeping' /\ Trading(p)'
  BY DEF StepOf
<1>2. Keeping /\ Trading(p)
  BY <1>1, StepFacts
<1>3. Fault => faults' = faults + 1
  BY DEF Fault
<1>4. Waited' \in {0, 1}
  BY DEF Waited
<1>5. HookInv /\ ~mem.alerted /\ position[p].status = "trading"
  BY <1>1, <1>2 DEF MoneyInv, Keeping, Told, Trading, Status
<1> HIDE DEF Spare, Setback, Throw, Waited
<1>6. /\ p \in Positions /\ p \notin Terminal /\ ~NoneTrading /\ Status(p) = "trading"
      /\ now \in Nat /\ Deadline(p) \in Nat /\ now < Deadline(p) /\ Deadline(p) < MAX_NOW
      /\ Spare \in Nat /\ BUFFER_SECS > GRACE_SECS + Spare /\ BUFFER_SECS > ADOPT_DELAY_SECS + Spare
      /\ faults \in Nat /\ faults <= MAX_FAULTS
      /\ Book \in Books /\ Book.settleAt \in Int
      /\ Book = NoBook \/ Book.p = p
      /\ Book = NoBook => Book.p # p
      /\ pc # "down" => Book = Active
      /\ Adopts(p) /\ Settles(p) /\ bound /\ ~Told /\ StepsInv
      /\ Waited \in {0, 1} /\ (pc # "sleep" => Waited = 0 /\ pace = "due")
      /\ task \in Task /\ task.sent \in Nat /\ task.builds \in Nat /\ task.amount \in Int
      /\ hook # NoHook => Book.p = p /\ pc \in {"down", "sleep", "look", "stop", "spawned"}
  BY <1>1, <1>2, TradingFacts
<1>7. /\ Deadline(p)' = Deadline(p)
      /\ Book' = Book \/ Writing
      /\ Spare' \in Nat
      /\ \/ UNCHANGED faults /\ Spare' = Spare
         \/ Fault /\ Spare = Spare' + Setback
      /\ Throw' = Throw
  BY <1>1, StepFacts
<1>8. /\ Throw \in {0, 1} /\ Setback \in Nat /\ Setback >= GRACE_SECS
      /\ Setback >= TX_LIFE_SECS + Throw /\ Setback >= 1
      /\ TX_LIFE_SECS > 0 /\ MAX_BUILDS > 0
  BY <1>1, Setbacks DEF RoomForFailures
<1> QED BY <1>1, <1>3, <1>4, <1>5, <1>6, <1>7, <1>8, Constants, MoreConstants

\* A step that ends in a plain place, not later than it may: what is left to show.
LEMMA Plainly ==
  ASSUME NEW p, StepOf(p),
         pc' \notin {"confirm", "final", "build", "spawn", "spawned"}, ~(InStop'),
         Book'.p # p => now' + Waited' + MaxOf(1, ADOPT_DELAY_SECS) + Spare' < Deadline(p),
         Book'.p = p => /\ Book'.settleAt + Grace' + Spare' < Deadline(p)
                        /\ now' + Waited' + Grace' + Spare' < Deadline(p)
  PROVE  Adopts(p)' /\ Settles(p)'
<1>1. Deadline(p)' = Deadline(p)
  BY StepContext
<1>2. MaxOf(1, ADOPT_DELAY_SECS)' = MaxOf(1, ADOPT_DELAY_SECS)
  BY DEF MaxOf
<1>3. Adopts(p)'
  BY <1>1, <1>2 DEF Adopts, Enough
<1>4. ~(Lost')
  BY DEF Lost
<1>5. Settles(p)'
  BY <1>1, <1>4 DEF Settles, Enough
<1> QED BY <1>3, <1>5

\* The steps at which nothing trades, or what trades is not at that step.
LEMMA NotThere ==
  ASSUME NEW p, StepOf(p)
  PROVE  /\ pc \notin {"reserve", "draw", "drop", "settled"}
         /\ pc = "stop" => task.after # "drop"
         /\ pc \in {"build", "confirm", "final"} => task.p = p /\ Book.p = p
         /\ pc \in {"balance", "spawn", "spawned"} => Book.p = p
         /\ pc \in {"scan", "adopt", "reserve", "draw", "drawing"} => Book = NoBook
         /\ pc \in {"adopt", "drawing"} => task.p = p
         /\ pc \in {"build", "confirm"} => CanSettle(Tx("settle"))
         /\ ~Landed("settle") \/ task.p # p
<1>1. /\ StepsInv /\ MoneyInv /\ RoomForFailures /\ TimeOK /\ Keeping /\ Trading(p) /\ p \in Positions
      /\ p \notin Terminal /\ ~NoneTrading /\ ~Told /\ position[p].status = "trading"
      /\ Book \in Books
      /\ Book = NoBook \/ Book.p = p
      /\ Book = NoBook => Book.p # p
      /\ pc # "down" => Book = Active
  BY StepContext, StepFacts DEF StepOf
<1>2. DrawsOK /\ BookOK /\ TaskOK
  BY <1>1 DEF MoneyInv, DrawInv, StepsInv
<1>3. NoBook.p \notin Terminal
  BY Beginnings, Constants, TerminalIs
<1>4. /\ pc \notin {"reserve", "draw", "drop", "settled"}
      /\ pc = "stop" => task.after # "drop"
  BY <1>1, <1>2, <1>3 DEF DrawsOK, BookOK
<1>5. pc \in {"build", "confirm", "final"} => task.p = p /\ Book.p = p
  <2>1. pc \in {"build", "confirm", "final"} => Active.p = task.p /\ task.p \in Positions
    BY <1>2 DEF BookOK, TaskOK
  <2> QED BY <1>1, <2>1, Beginnings, Constants
<1>6. pc \in {"balance", "spawn", "spawned"} => Book.p = p
  BY <1>1, <1>2 DEF BookOK
<1>7. /\ pc \in {"scan", "adopt", "reserve", "draw", "drawing"} => Book = NoBook
      /\ pc \in {"adopt", "drawing"} => task.p = p
  BY <1>1, <1>2 DEF BookOK, TimeOK, BookIsOfIt
<1>8. pc \in {"build", "confirm"} => CanSettle(Tx("settle"))
  BY <1>1, <1>5, SettleCanBePaid
<1>9. ~Landed("settle") \/ task.p # p
  BY <1>1 DEF Landed
<1> QED BY <1>4, <1>5, <1>6, <1>7, <1>8, <1>9

\* What a step of the tick leaves: the book, the hook and the time.
LEMMA ThinkingFacts ==
  ASSUME NEW p, StepOf(p), Thinking
  PROVE  /\ UNCHANGED <<now, position, hook, mem>> /\ Book' = Book
         /\ pc # "down" /\ pc' # "down"
<1>1. UNCHANGED <<now, position, hook, mem>>
  BY ThinkingIs DEF Thinks, Keep
<1>2. pc # "down" /\ pc' # "down"
  <2>1. pc # "down"
    BY DEF Thinking, Look, Scan, ReadReserve, SendDraw, DrawErrors, ReadBalance, Build,
           SettleThrows, Confirm, FinalCheck, Calls, CallFails, Goto
  <2>2. pc' # "down"
    BY DEF Thinking, Look, Scan, ReadReserve, SendDraw, DrawErrors, ReadBalance, Build,
           SettleThrows, Confirm, FinalCheck, Calls, CallFails, Goto, To, EndTick
  <2> QED BY <2>1, <2>2
<1>3. Book' = Book
  BY <1>1, <1>2 DEF Book, Active
<1> QED BY <1>1, <1>2, <1>3

\* A book that is due goes to its settle, another waits a unit of time.
LEMMA LookOnTime ==
  ASSUME NEW p, StepOf(p), Look
  PROVE  Adopts(p)' /\ Settles(p)'
<1>1. Thinking /\ pc = "look"
  BY DEF Thinking, Look
<1>2. UNCHANGED <<now, position, hook, mem>> /\ Book' = Book /\ UNCHANGED faults
  BY <1>1, ThinkingFacts DEF Look, NoFault
<1>3. /\ now \in Nat /\ Deadline(p) \in Nat /\ Deadline(p) < MAX_NOW /\ now < Deadline(p)
      /\ Spare \in Nat /\ Spare' = Spare /\ Book = Active /\ Book.settleAt \in Int
      /\ Book = NoBook \/ Book.p = p
      /\ Book = NoBook => Book.p # p
      /\ Adopts(p) /\ Settles(p) /\ Waited = 0 /\ pace = "due" /\ Waited' \in {0, 1}
      /\ Deadline(p)' = Deadline(p) /\ GRACE_SECS \in Nat /\ MAX_NOW \in Nat /\ p \notin Terminal
      /\ task \in Task
  BY <1>1, <1>2, StepContext, SpareMoves DEF StepOf, TimeOK, PaceOK
<1>4. ~InStop /\ Grace \in {0, GRACE_SECS}
  BY <1>1, <1>2 DEF InStop, Grace
<1>5. CASE pc' = "stop" /\ task' = [NoTask EXCEPT !.after = "balance", !.sent = now]
              /\ UNCHANGED pace /\ Active # NoBook
  <2>1. task'.sent = now
    BY <1>5 DEF NoTask
  <2>2. Waited' = 0 /\ Book.p = p /\ Book'.p = p
    BY <1>2, <1>3, <1>5 DEF Waited
  <2>3. Grace' = IF hook # NoHook THEN GRACE_SECS ELSE 0
    BY <1>2, <1>5 DEF Grace
  <2>4. Grace = IF hook # NoHook THEN GRACE_SECS ELSE 0
    BY <1>1 DEF Grace
  <2>5. InStop' <=> hook # NoHook
    BY <1>2, <1>5 DEF InStop
  <2>6. ~(Lost')
    BY <1>5 DEF Lost
  <2>7. Book.settleAt + Grace + Spare < Deadline(p) /\ now + 0 + Grace + Spare < Deadline(p)
    BY <1>3, <1>4, <2>2 DEF Settles, Enough
  <2>8. Adopts(p)'
    BY <2>2 DEF Adopts
  <2>9. Settles(p)'
    BY <1>2, <1>3, <1>5, <2>1, <2>2, <2>3, <2>4, <2>5, <2>6, <2>7 DEF Settles, Enough
  <2> QED BY <2>8, <2>9
<1>6. CASE EndTick /\ ~Due /\ Active # NoBook
  <2>1. pc' = "sleep"
    BY <1>6 DEF EndTick
  <2>2. Book.p = p
    BY <1>3, <1>6
  <2>3. now < Book.settleAt
    BY <1>3, <1>6 DEF Due, MinOf
  <2>4. Book.settleAt + Grace + Spare < Deadline(p)
    BY <1>3, <2>2 DEF Settles, Enough
  <2>5. Grace' = Grace /\ ~(InStop')
    BY <1>1, <1>2, <2>1 DEF Grace, InStop
  <2>6. Book'.settleAt + Grace' + Spare' < Deadline(p)
    BY <1>2, <1>3, <2>4, <2>5
  <2>7. now' + Waited' + Grace' + Spare' < Deadline(p)
    BY <1>2, <1>3, <1>4, <2>3, <2>4, <2>5
  <2> QED BY <1>2, <2>1, <2>2, <2>5, <2>6, <2>7, Plainly
<1>7. CASE Active = NoBook /\ pc' = "scan" /\ UNCHANGED pace
  <2>1. Book.p # p /\ Waited' = 0
    BY <1>3, <1>7 DEF Waited
  <2>2. ~(InStop')
    BY <1>7 DEF InStop
  <2>3. now + 0 + MaxOf(1, ADOPT_DELAY_SECS) + Spare < Deadline(p)
    BY <1>3, <2>1 DEF Adopts, Enough
  <2> QED BY <1>2, <1>3, <1>7, <2>1, <2>2, <2>3, Plainly
<1>8. Active.p \notin Terminal
  BY <1>3, Beginnings, Constants, TerminalIs
<1> QED BY <1>5, <1>6, <1>7, <1>8 DEF Look, To

\* A position that trades without a book is found.
LEMMA ScanOnTime ==
  ASSUME NEW p, StepOf(p), Scan
  PROVE  Adopts(p)' /\ Settles(p)'
<1>1. Thinking /\ pc = "scan"
  BY DEF Thinking, Scan
<1>2. UNCHANGED <<now, position, hook, mem>> /\ Book' = Book /\ UNCHANGED faults
  BY <1>1, ThinkingFacts DEF Scan, NoFault
<1>3. /\ Spare' = Spare /\ Book = NoBook /\ Book.p # p
      /\ Adopts(p) /\ Waited = 0 /\ pace = "due" /\ p \in Positions /\ position[p].status = "trading"
  BY <1>1, <1>2, StepContext, NotThere, SpareMoves DEF StepOf, TimeOK, PaceOK
<1>4. Has("trading") # {}
  BY <1>3 DEF Has
<1>5. pc' = "adopt" /\ UNCHANGED pace
  BY <1>4 DEF Scan, To
<1>6. Waited' = 0 /\ ~(InStop')
  BY <1>3, <1>5 DEF Waited, InStop
<1>7. now + 0 + MaxOf(1, ADOPT_DELAY_SECS) + Spare < Deadline(p)
  BY <1>3 DEF Adopts, Enough
<1> QED BY <1>2, <1>3, <1>5, <1>6, <1>7, Plainly

\* The runner loses track of a draw that landed: the position will be adopted.
LEMMA DrawErrorsOnTime ==
  ASSUME NEW p, StepOf(p), DrawErrors
  PROVE  Adopts(p)' /\ Settles(p)'
<1>1. Thinking /\ pc = "drawing" /\ pc' = "sleep"
  BY DEF Thinking, DrawErrors, EndTick
<1>2. UNCHANGED <<now, position, hook, mem>> /\ Book' = Book
  BY <1>1, ThinkingFacts
<1>3. /\ Book.p # p /\ task.p = p /\ position[p].status = "trading"
      /\ Adopts(p) /\ Waited = 0 /\ Waited' \in {0, 1} /\ Deadline(p) \in Nat /\ Spare' \in Nat
      /\ Setback \in Nat /\ Setback >= 1 /\ now \in Nat /\ ADOPT_DELAY_SECS \in Nat
      /\ Spare \in Nat
  BY <1>1, <1>2, StepContext, NotThere
<1>4. Fault
  BY <1>3 DEF DrawErrors
<1>5. Spare = Spare' + Setback
  BY <1>4, SpareMoves DEF StepOf, TimeOK, PaceOK
<1>6. now + 0 + MaxOf(1, ADOPT_DELAY_SECS) + Spare < Deadline(p)
  BY <1>3 DEF Adopts, Enough
<1>7. MaxOf(1, ADOPT_DELAY_SECS) \in Nat
  BY <1>3 DEF MaxOf
<1>8. now' + Waited' + MaxOf(1, ADOPT_DELAY_SECS) + Spare' < Deadline(p)
  BY <1>2, <1>3, <1>5, <1>6, <1>7
<1>9. ~(InStop')
  BY <1>1 DEF InStop
<1> QED BY <1>1, <1>2, <1>3, <1>8, <1>9, Plainly

\* A call that fails costs a unit of time.
LEMMA CallFailsOnTime ==
  ASSUME NEW p, StepOf(p), Calls
  PROVE  Adopts(p)' /\ Settles(p)'
<1>0. PICK at \in {"look", "scan", "adopt", "reserve", "draw", "balance", "build"} : CallFails(at)
  BY DEF Calls
<1>1. Thinking /\ pc = at /\ pc' = "sleep" /\ Fault
  BY <1>0 DEF Thinking, CallFails
<1>2. UNCHANGED <<now, position, hook, mem>> /\ Book' = Book
  BY <1>1, ThinkingFacts
<1>3. /\ Adopts(p) /\ Settles(p) /\ Waited = 0 /\ Waited' \in {0, 1} /\ Deadline(p) \in Nat
      /\ Setback \in Nat /\ Setback >= 1 /\ now \in Nat /\ ADOPT_DELAY_SECS \in Nat
      /\ Spare \in Nat /\ Spare' \in Nat /\ Book.settleAt \in Int /\ GRACE_SECS \in Nat
  BY <1>1, StepContext
<1>4. Spare = Spare' + Setback
  BY <1>1, SpareMoves DEF StepOf, TimeOK, PaceOK
<1>5. ~InStop /\ ~(InStop') /\ Grace' = Grace /\ Grace \in Nat
  BY <1>1, <1>2, <1>3 DEF InStop, Grace
<1>6. ASSUME Book'.p # p
      PROVE  now' + Waited' + MaxOf(1, ADOPT_DELAY_SECS) + Spare' < Deadline(p)
  <2>1. now + 0 + MaxOf(1, ADOPT_DELAY_SECS) + Spare < Deadline(p)
    BY <1>2, <1>3, <1>6 DEF Adopts, Enough
  <2>2. MaxOf(1, ADOPT_DELAY_SECS) \in Nat
    BY <1>3 DEF MaxOf
  <2> QED BY <1>2, <1>3, <1>4, <2>1, <2>2
<1>7. ASSUME Book'.p = p
      PROVE  /\ Book'.settleAt + Grace' + Spare' < Deadline(p)
             /\ now' + Waited' + Grace' + Spare' < Deadline(p)
  <2>1. Book.settleAt + Grace + Spare < Deadline(p) /\ now + 0 + Grace + Spare < Deadline(p)
    BY <1>2, <1>3, <1>5, <1>7 DEF Settles, Enough
  <2> QED BY <1>2, <1>3, <1>4, <1>5, <2>1
<1> QED BY <1>1, <1>5, <1>6, <1>7, Plainly

\* What the steps of a settlement have in common: no hook, and the book of the position.
LEMMA SettlingFacts ==
  ASSUME NEW p, StepOf(p), Thinking, pc \in {"balance", "build", "confirm", "final"}
  PROVE  /\ UNCHANGED <<now, hook, mem>> /\ Book' = Book /\ Book.p = p /\ hook = NoHook
         /\ ~InStop /\ ~(InStop') /\ Grace = 0 /\ (pc' # "spawn" => Grace' = 0)
         /\ now + Spare < Deadline(p) /\ Book.settleAt + Spare < Deadline(p)
         /\ Settles(p) /\ Adopts(p)' /\ Waited = 0 /\ Waited' \in {0, 1} /\ Deadline(p)' = Deadline(p)
         /\ now \in Nat /\ Deadline(p) \in Nat /\ Spare \in Nat /\ Spare' \in Nat
         /\ Book.settleAt \in Int /\ Throw \in {0, 1} /\ Throw' = Throw
         /\ Setback \in Nat /\ Setback >= TX_LIFE_SECS + Throw /\ Setback >= 1
         /\ TX_LIFE_SECS \in Nat /\ TX_LIFE_SECS > 0 /\ task.sent \in Nat /\ task.builds \in Nat
         /\ task \in Task /\ faults \in Nat /\ faults <= MAX_FAULTS /\ MAX_FAULTS \in Nat
         /\ UNCHANGED faults => Spare' = Spare
         /\ Fault => Spare = Spare' + Setback /\ faults' = faults + 1
         /\ pc \in {"build", "confirm", "final"} => task.p = p
         /\ pc \in {"build", "confirm"} => CanSettle(Tx("settle"))
         /\ UNCHANGED pace => Waited' = 0
         /\ now < Deadline(p) /\ Deadline(p) < MAX_NOW /\ MAX_NOW \in Nat
         /\ Active # NoBook /\ Active.p = p
<1>1. UNCHANGED <<now, position, hook, mem>> /\ Book' = Book
  BY ThinkingFacts
<1>2. Book.p = p /\ (pc \in {"build", "confirm", "final"} => task.p = p)
      /\ (pc \in {"build", "confirm"} => CanSettle(Tx("settle")))
  BY NotThere
<1>3. /\ Settles(p) /\ Waited = 0 /\ Waited' \in {0, 1} /\ Deadline(p)' = Deadline(p)
      /\ now \in Nat /\ Deadline(p) \in Nat /\ Spare \in Nat /\ Spare' \in Nat
      /\ Book.settleAt \in Int /\ Throw \in {0, 1} /\ Throw' = Throw
      /\ Setback \in Nat /\ Setback >= TX_LIFE_SECS + Throw /\ Setback >= 1
      /\ TX_LIFE_SECS \in Nat /\ TX_LIFE_SECS > 0 /\ task.sent \in Nat /\ task.builds \in Nat
      /\ task \in Task /\ faults \in Nat /\ faults <= MAX_FAULTS /\ MAX_FAULTS \in Nat
      /\ now < Deadline(p) /\ Deadline(p) < MAX_NOW /\ MAX_NOW \in Nat
      /\ hook = NoHook /\ Book = Active /\ (Book = NoBook => Book.p # p) /\ pace = "due"
  BY StepContext
<1>4. /\ ~InStop /\ Grace = 0 /\ (pc' # "spawn" => Grace' = 0) /\ ~(InStop')
      /\ UNCHANGED pace => Waited' = 0
  BY <1>1, <1>3 DEF InStop, Grace, Waited
<1>5. now + 0 + 0 + Spare < Deadline(p) /\ Book.settleAt + 0 + Spare < Deadline(p)
  BY <1>2, <1>3, <1>4 DEF Settles, Enough
<1>8. now + Spare < Deadline(p) /\ Book.settleAt + Spare < Deadline(p)
  BY <1>3, <1>5
<1>6. Adopts(p)'
  BY <1>1, <1>2 DEF Adopts
<1>9. Active # NoBook /\ Active.p = p
  BY <1>2, <1>3
<1>7. /\ UNCHANGED faults => Spare' = Spare
      /\ Fault => Spare = Spare' + Setback /\ faults' = faults + 1
  BY SpareMoves DEF StepOf, TimeOK, PaceOK, Fault
<1> QED BY <1>1, <1>2, <1>3, <1>4, <1>6, <1>7, <1>8, <1>9

\* The steps of a settle take no time, until it is sent.
LEMMA ReadBalanceOnTime ==
  ASSUME NEW p, StepOf(p), ReadBalance
  PROVE  Adopts(p)' /\ Settles(p)'
<1>1. Thinking /\ pc = "balance" /\ pc' = "build" /\ UNCHANGED pace
  BY DEF Thinking, ReadBalance, Goto, To
<1>2. PICK balance : task' = [NoTask EXCEPT !.p = Active.p, !.amount = Returned(balance)] /\ Reads(balance)
  BY DEF ReadBalance
<1>3. task'.builds = 0
  BY <1>2 DEF NoTask
<1>4. UNCHANGED faults
  BY <1>2 DEF Reads, NoFault, StepOf
<1>5. faults' \in Nat
  BY <1>1, <1>4, SettlingFacts
<1>6. ~(Lost')
  BY <1>1 DEF Lost
<1> QED BY <1>1, <1>3, <1>4, <1>5, <1>6, SettlingFacts DEF Settles, Enough

\* A settle that is sent is in flight until it lands or is lost.
LEMMA BuildOnTime ==
  ASSUME NEW p, StepOf(p), Build
  PROVE  Adopts(p)' /\ Settles(p)'
<1>1. Thinking /\ pc = "build" /\ pc' = "confirm" /\ UNCHANGED <<pace, faults>>
  BY DEF Thinking, Build, To, NoFault
<1>2. task' = [task EXCEPT !.sent = now, !.builds = @ + 1] /\ txs' = txs \cup {Tx("settle")'}
  BY DEF Build
<1>3. task'.sent = now /\ task'.builds = task.builds + 1
  BY <1>1, <1>2, SettlingFacts DEF Task
<1>4. ~(Lost')
  BY <1>2 DEF Lost, InFlight
<1>5. task.builds <= faults
  BY <1>1, SettlingFacts DEF Settles
<1> QED BY <1>1, <1>3, <1>4, <1>5, SettlingFacts DEF Settles, Enough

\* A settle is given up when its blockhashes are used up, which failures have paid for.
LEMMA SettleThrowsOnTime ==
  ASSUME NEW p, StepOf(p), SettleThrows
  PROVE  Adopts(p)' /\ Settles(p)'
<1>1. Thinking /\ pc = "build" /\ pc' = "sleep" /\ UNCHANGED faults
  BY DEF Thinking, SettleThrows, EndTick, NoFault
<1>2. task.builds = MAX_BUILDS /\ MAX_BUILDS > 0
  BY <1>1, SettlingFacts, StepContext DEF SettleThrows
<1>3. Throw = 1
  <2>1. MAX_BUILDS <= MAX_FAULTS
    BY <1>1, <1>2, SettlingFacts DEF Settles
  <2>2. MAX_BUILDS \in Nat /\ MAX_FAULTS \in Nat
    BY MoreConstants
  <2> QED BY <2>1, <2>2 DEF Throw
<1>4. now + 1 + Spare < Deadline(p)
  BY <1>1, <1>2, <1>3, SettlingFacts DEF Settles, Enough
<1>5. ~(Lost')
  BY <1>1 DEF Lost
<1>6. now' + Waited' + Grace' + Spare' < Deadline(p)
  BY <1>1, <1>4, SettlingFacts
<1>7. Book'.settleAt + Grace' + Spare' < Deadline(p)
  BY <1>1, SettlingFacts
<1>8. Book'.p = p /\ ~(InStop')
  BY <1>1, SettlingFacts
<1> QED BY <1>1, <1>6, <1>7, <1>8, Plainly

\* A settle that was lost is sent again once its blockhash has expired.
LEMMA ConfirmOnTime ==
  ASSUME NEW p, StepOf(p), Confirm
  PROVE  Adopts(p)' /\ Settles(p)'
<1>1. Thinking /\ pc = "confirm"
  BY DEF Thinking, Confirm
<1>2. ~Landed("settle") /\ CanSettle(Tx("settle"))
  BY <1>1, NotThere
<1>3. pc' = "final" /\ UNCHANGED <<pace, task>>
  BY <1>2 DEF Confirm, To
<1>4. ~(Lost')
  BY <1>3 DEF Lost
<1>5. CASE UNCHANGED faults /\ now >= MinOf(task.sent + TX_LIFE_SECS, MAX_NOW)
  <2>1. now >= task.sent + TX_LIFE_SECS
    BY <1>1, <1>5, SettlingFacts DEF MinOf
  <2>2. Lost
    BY <1>1, <2>1, SettlingFacts DEF Settles
  <2>3. task.builds <= faults
    BY <1>1, <2>2, SettlingFacts DEF Settles
  <2>4. now + Throw + Spare < Deadline(p)
    BY <1>1, <2>1, <2>2, SettlingFacts DEF Settles, Enough
  <2> QED BY <1>1, <1>3, <1>4, <1>5, <2>3, <2>4, SettlingFacts DEF Settles, Enough
<1>6. CASE Fault
  <2>1. task.builds <= faults + 1
    BY <1>1, SettlingFacts DEF Settles
  <2>2. now + Throw + Spare' < Deadline(p) /\ now + Spare' < Deadline(p)
        /\ Book.settleAt + Spare' < Deadline(p)
    BY <1>1, <1>6, SettlingFacts
  <2> QED BY <1>1, <1>3, <1>4, <1>6, <2>1, <2>2, SettlingFacts DEF Settles, Enough
<1> QED BY <1>2, <1>3, <1>5, <1>6 DEF Confirm, NoFault, To

\* A settle that is not in the history is built again.
LEMMA FinalCheckOnTime ==
  ASSUME NEW p, StepOf(p), FinalCheck
  PROVE  Adopts(p)' /\ Settles(p)'
<1>1. Thinking /\ pc = "final"
  BY DEF Thinking, FinalCheck
<1>2. ~Landed("settle")
  BY <1>1, NotThere
<1>3. pc' = "build" /\ UNCHANGED <<pace, task>> /\ (UNCHANGED faults \/ Fault)
  BY <1>1, <1>2 DEF FinalCheck, To, NoFault
<1>4. ~(Lost')
  BY <1>3 DEF Lost
<1>5. task.builds <= faults /\ now + Throw + Spare < Deadline(p)
  BY <1>1, SettlingFacts DEF Settles, Enough
<1>6. task.builds <= faults' /\ now + Throw + Spare' < Deadline(p) /\ now + Spare' < Deadline(p)
      /\ Book.settleAt + Spare' < Deadline(p)
  BY <1>1, <1>3, <1>5, SettlingFacts
<1> QED BY <1>1, <1>3, <1>4, <1>6, SettlingFacts DEF Settles, Enough

\* What a step leaves of the spare time is enough for what needed all of it.
LEMMA SpareShrinks ==
  ASSUME NEW p, StepOf(p)
  PROVE  /\ Spare' <= Spare /\ faults' >= faults /\ faults' \in Nat
         /\ \A t \in Int : t + Spare < Deadline(p) => t + Spare' < Deadline(p)
<1>1. /\ Spare \in Nat /\ Spare' \in Nat /\ Setback \in Nat /\ Deadline(p) \in Nat /\ faults \in Nat
  BY StepContext
<1>2. (faults' = faults /\ Spare' = Spare) \/ (faults' = faults + 1 /\ Spare = Spare' + Setback)
  BY StepContext
<1> DEFINE s == Setback
           d == Deadline(p)
           m == Spare
           n == Spare'
           f == faults'
<1>3. s \in Nat /\ d \in Nat /\ m \in Nat /\ n \in Nat /\ faults \in Nat
  BY <1>1
<1>4. (f = faults /\ n = m) \/ (f = faults + 1 /\ m = n + s)
  BY <1>2
<1> HIDE DEF s, d, m, n, f
<1>5. n <= m /\ f >= faults /\ f \in Nat
  BY <1>3, <1>4
<1>6. \A t \in Int : t + m < d => t + n < d
  BY <1>3, <1>5
<1> QED BY <1>5, <1>6 DEF d, m, n, f

\* A step that leaves the book, the clock, the pace and what the tick is at, and loses a
\* settle only in a failure.
LEMMA StaysOnTime ==
  ASSUME NEW p, StepOf(p), Book' = Book, UNCHANGED <<now, pace, pc, task>>,
         hook' = NoHook <=> hook = NoHook, Lost' /\ ~Lost => Fault
  PROVE  Adopts(p)' /\ Settles(p)'
<1>1. /\ Adopts(p) /\ Settles(p) /\ Waited \in {0, 1} /\ Deadline(p)' = Deadline(p)
      /\ Deadline(p) \in Nat /\ Setback \in Nat /\ Setback >= TX_LIFE_SECS + Throw
      /\ now \in Nat /\ Spare \in Nat /\ Spare' \in Nat /\ Book.settleAt \in Int
      /\ GRACE_SECS \in Nat /\ ADOPT_DELAY_SECS \in Nat /\ TX_LIFE_SECS \in Nat
      /\ Throw \in {0, 1} /\ Throw' = Throw /\ task.sent \in Nat /\ task.builds \in Nat
      /\ faults \in Nat
      /\ (pc # "sleep" => Waited = 0)
  BY StepContext
<1>2. Waited' = Waited /\ Grace' = Grace /\ (InStop' <=> InStop) /\ Grace \in Nat
      /\ MaxOf(1, ADOPT_DELAY_SECS)' = MaxOf(1, ADOPT_DELAY_SECS) /\ MaxOf(1, ADOPT_DELAY_SECS) \in Nat
  BY <1>1 DEF Waited, Grace, InStop, MaxOf
<1>3. Spare' <= Spare /\ faults' >= faults /\ faults' \in Nat
      /\ \A t \in Int : t + Spare < Deadline(p) => t + Spare' < Deadline(p)
  BY SpareShrinks
<1>4. ASSUME NEW t \in Int, Enough(p, t)
      PROVE  Enough(p, t)'
  BY <1>1, <1>3, <1>4 DEF Enough
<1>5. Adopts(p)'
  <2>1. now + Waited + MaxOf(1, ADOPT_DELAY_SECS) \in Int
    BY <1>1, <1>2
  <2>2. CASE Book.p # p
    <3>1. Enough(p, now + Waited + MaxOf(1, ADOPT_DELAY_SECS))
      BY <1>1, <2>2 DEF Adopts
    <3>2. now + Waited + MaxOf(1, ADOPT_DELAY_SECS) + Spare' < Deadline(p)
      BY <1>3, <2>1, <3>1 DEF Enough
    <3> QED BY <1>1, <1>2, <3>2 DEF Adopts, Enough
  <2> QED BY <2>2 DEF Adopts
<1>6. CASE Book.p # p
  BY <1>5, <1>6 DEF Settles
<1>7. CASE Book.p = p
  <2>1. Book.settleAt + Grace + Spare' < Deadline(p)
    <3>1. Book.settleAt + Grace + Spare < Deadline(p) /\ Book.settleAt + Grace \in Int
      BY <1>1, <1>2, <1>7 DEF Settles, Enough
    <3> QED BY <1>3, <3>1
  <2>2. ~InStop => now + Waited + Grace + Spare' < Deadline(p)
    <3>1. (~InStop => now + Waited + Grace + Spare < Deadline(p)) /\ now + Waited + Grace \in Int
      BY <1>1, <1>2, <1>7 DEF Settles, Enough
    <3> QED BY <1>3, <3>1
  <2>3. InStop => task.sent <= now /\ now <= task.sent + GRACE_SECS
                    /\ task.sent + GRACE_SECS + Spare' < Deadline(p)
    <3>1. (InStop => task.sent <= now /\ now <= task.sent + GRACE_SECS
                      /\ task.sent + GRACE_SECS + Spare < Deadline(p))
          /\ task.sent + GRACE_SECS \in Int
      BY <1>1, <1>2, <1>7 DEF Settles, Enough
    <3> QED BY <1>3, <3>1
  <2>4. pc = "final" \/ (pc = "build" /\ task.builds > 0) => now + Throw + Spare' < Deadline(p)
    <3>1. (pc = "final" \/ (pc = "build" /\ task.builds > 0) => now + Throw + Spare < Deadline(p))
          /\ now + Throw \in Int
      BY <1>1, <1>7 DEF Settles, Enough
    <3> QED BY <1>3, <3>1
  <2>5. /\ pc \in {"spawn", "spawned"} => now + BUFFER_SECS < Deadline(p)
        /\ pc \in {"build", "final"} => task.builds <= faults
        /\ pc = "confirm" => task.builds <= faults + 1
    BY <1>7, <1>1 DEF Settles
  <2>6. Lost' => /\ now <= task.sent + TX_LIFE_SECS /\ task.builds <= faults'
                 /\ task.sent + TX_LIFE_SECS + Throw + Spare' < Deadline(p)
    <3> SUFFICES ASSUME Lost'
                 PROVE  /\ now <= task.sent + TX_LIFE_SECS /\ task.builds <= faults'
                        /\ task.sent + TX_LIFE_SECS + Throw + Spare' < Deadline(p)
      OBVIOUS
    <3>1. pc = "confirm"
      BY DEF Lost
    <3>2. CASE Lost
      <4>1. /\ now <= task.sent + TX_LIFE_SECS /\ task.builds <= faults
            /\ task.sent + TX_LIFE_SECS + Throw + Spare < Deadline(p)
            /\ task.sent + TX_LIFE_SECS + Throw \in Int
        BY <1>1, <1>7, <3>2 DEF Settles, Enough
      <4>2. task.builds <= faults'
        BY <1>1, <1>3, <4>1
      <4>3. task.sent + TX_LIFE_SECS + Throw + Spare' < Deadline(p)
        BY <1>3, <4>1
      <4> QED BY <4>1, <4>2, <4>3
    <3>3. CASE ~Lost
      <4>1. faults' = faults + 1 /\ Spare = Spare' + Setback
        BY <3>3, StepContext DEF Fault
      <4>2. now = task.sent /\ task.builds <= faults + 1 /\ ~InStop /\ Waited = 0
        BY <1>1, <1>7, <3>1, <3>3 DEF Settles, InStop
      <4>3. now + Waited + Grace + Spare < Deadline(p)
        BY <1>1, <1>7, <4>2 DEF Settles, Enough
      <4>4. now + Spare < Deadline(p)
        BY <1>1, <1>2, <4>2, <4>3
      <4> HIDE DEF Setback, Throw
      <4>5. task.sent + TX_LIFE_SECS + Throw + Spare' < Deadline(p)
        BY <1>1, <4>1, <4>2, <4>4
      <4>6. now <= task.sent + TX_LIFE_SECS /\ task.builds <= faults'
        BY <1>1, <4>1, <4>2
      <4> QED BY <4>5, <4>6
    <3> QED BY <3>2, <3>3
  <2>7. pc = "confirm" /\ ~(Lost') => now = task.sent
    <3>1. CASE ~Lost
      BY <1>7, <1>1, <3>1 DEF Settles
    <3>2. CASE Lost /\ pc = "confirm" /\ ~(Lost')
      <4>1. Tx("settle")' \in txs' /\ Tx("settle") \notin txs /\ Tx("settle")' = Tx("settle")
        BY <3>2 DEF InFlight, Tx, Lost
      <4>2. ~(txs' \subseteq txs)
        BY <4>1
      <4>3. SendDraw \/ Build
        BY <4>2, SendsAndHooks DEF StepOf
      <4> QED BY <3>2, <4>3 DEF SendDraw, Build
    <3> QED BY <3>1, <3>2
  <2>9. task.builds <= faults => task.builds <= faults'
    BY <1>1, <1>3
  <2>10. task.builds <= faults + 1 => task.builds <= faults' + 1
    BY <1>1, <1>3
  <2>11. pc' = pc /\ now' = now /\ task' = task /\ Book' = Book /\ Waited' = Waited /\ Grace' = Grace
         /\ (InStop' <=> InStop) /\ Deadline(p)' = Deadline(p) /\ Throw' = Throw
    BY <1>1, <1>2
  <2>12. /\ Enough(p, Book.settleAt + Grace)'
         /\ ~(InStop') => Enough(p, now + Waited + Grace)'
         /\ InStop' => task'.sent <= now' /\ now' <= task'.sent + GRACE_SECS
                        /\ Enough(p, task.sent + GRACE_SECS)'
    BY <2>1, <2>2, <2>3, <2>11 DEF Enough
  <2>13. /\ Lost' => now' <= task'.sent + TX_LIFE_SECS /\ Enough(p, task.sent + TX_LIFE_SECS + Throw)'
         /\ pc' = "confirm" /\ ~(Lost') => now' = task'.sent
         /\ pc' = "final" \/ (pc' = "build" /\ task'.builds > 0) => Enough(p, now + Throw)'
    BY <2>4, <2>6, <2>7, <2>11 DEF Enough
  <2>14. /\ pc' \in {"build", "final"} \/ Lost' => task'.builds <= faults'
         /\ pc' = "confirm" => task'.builds <= faults' + 1
         /\ pc' \in {"spawn", "spawned"} => now' + BUFFER_SECS < Deadline(p)'
    BY <2>5, <2>6, <2>9, <2>10, <2>11
  <2> HIDE DEF Enough, Lost, InStop, Grace, Waited, Throw
  <2>15. Settles(p)'
    BY <2>12, <2>13, <2>14 DEF Settles
  <2> QED BY <1>5, <2>15
<1> QED BY <1>5, <1>6, <1>7

\* The end of a hook's grace period, or of a hook that the runner forgot.
LEMMA StopHookOnTime ==
  ASSUME NEW p, StepOf(p), StopHook
  PROVE  Adopts(p)' /\ Settles(p)'
<1>1. pc = "stop" /\ pc' = task.after /\ UNCHANGED <<now, pace, faults>>
  BY DEF StopHook, Goto, To
<1>2. /\ Adopts(p) /\ Settles(p) /\ Waited = 0 /\ pace = "due" /\ StepsInv /\ ~mem.alerted /\ HookInv
      /\ Deadline(p) \in Nat /\ now \in Nat /\ Spare \in Nat /\ Book.settleAt \in Int
      /\ GRACE_SECS \in Nat /\ task.sent \in Nat /\ Book = Active /\ task \in Task
  BY <1>1, StepContext
<1>3. Spare' = Spare
  BY <1>1, SpareMoves DEF StepOf, TimeOK, PaceOK
<1>4. pc' \in {"sleep", "look", "drop", "balance"}
  BY <1>1, <1>2 DEF Task
<1>5. Book' = Book
  <2>1. mem'.state.active = Active
    BY <1>2, OtherSteps
  <2> QED BY <1>2, <1>4, <2>1 DEF Book, Active
<1>6. hook' = NoHook
  <2>1. hook # NoHook => mem.hook \/ mem.state.hookPgid
    BY <1>1, <1>2 DEF HookInv, HookOK, FileOK
  <2> QED BY <2>1 DEF StopHook
<1>7. Grace' = 0 /\ ~(InStop') /\ Waited' = 0 /\ Grace \in {0, GRACE_SECS}
  BY <1>1, <1>2, <1>4, <1>6 DEF Grace, InStop, Waited
<1>8. ASSUME Book.p = p
      PROVE  now + Spare < Deadline(p) /\ Book.settleAt + Spare < Deadline(p)
  <2>1. Book.settleAt + Grace + Spare < Deadline(p)
    BY <1>8, <1>2 DEF Settles, Enough
  <2>2. CASE InStop
    <3>1. now <= task.sent + GRACE_SECS /\ task.sent + GRACE_SECS + Spare < Deadline(p)
      BY <1>2, <1>8, <2>2 DEF Settles, Enough
    <3> QED BY <1>2, <1>7, <2>1, <3>1
  <2>3. CASE ~InStop
    <3>1. now + Waited + Grace + Spare < Deadline(p)
      BY <1>2, <1>8, <2>3 DEF Settles, Enough
    <3> QED BY <1>2, <1>7, <2>1, <3>1
  <2> QED BY <2>2, <2>3
<1>9. ASSUME Book.p # p
      PROVE  now' + Waited' + MaxOf(1, ADOPT_DELAY_SECS) + Spare' < Deadline(p)
  BY <1>1, <1>2, <1>3, <1>7, <1>9 DEF Adopts, Enough
<1>10. ASSUME Book.p = p
       PROVE  /\ Book'.settleAt + Grace' + Spare' < Deadline(p)
              /\ now' + Waited' + Grace' + Spare' < Deadline(p)
  BY <1>1, <1>2, <1>3, <1>5, <1>7, <1>8, <1>10
<1> QED BY <1>4, <1>5, <1>7, <1>9, <1>10, Plainly

\* A tick begins in time, and a hook that an earlier runner left gets its grace period.
LEMMA StartTickOnTime ==
  ASSUME NEW p, StepOf(p), StartTick
  PROVE  Adopts(p)' /\ Settles(p)'
<1>1. pc = "sleep" /\ pc' \in {"stop", "look"} /\ UNCHANGED <<now, pace, faults, hook, file>>
      /\ (pace # "done" \/ now = MAX_NOW)
      /\ (pc' = "stop" => task' = [NoTask EXCEPT !.after = "look", !.sent = now])
  BY DEF StartTick, Goto, To
<1>2. /\ Adopts(p) /\ Settles(p) /\ StepsInv
      /\ Deadline(p) \in Nat /\ now \in Nat /\ Spare \in Nat /\ Book.settleAt \in Int
      /\ now < Deadline(p) /\ Deadline(p) < MAX_NOW /\ MAX_NOW \in Nat
      /\ GRACE_SECS \in Nat /\ Book = Active /\ Deadline(p)' = Deadline(p)
  BY <1>1, StepContext
<1>3. Spare' = Spare
  BY <1>1, SpareMoves DEF StepOf, TimeOK, PaceOK
<1>4. Book' = Book
  BY <1>1, <1>2, OtherSteps DEF Book, Active
<1>5. Waited = 0 /\ Waited' = 0 /\ ~InStop /\ Grace' = Grace /\ Grace \in {0, GRACE_SECS}
      /\ (hook # NoHook => Grace = GRACE_SECS)
  BY <1>1, <1>2 DEF Waited, InStop, Grace
<1>6. Book.p = p => Book.settleAt + Grace + Spare < Deadline(p) /\ now + 0 + Grace + Spare < Deadline(p)
  BY <1>5, <1>2 DEF Settles, Enough
<1>7. Book.p # p => now + 0 + MaxOf(1, ADOPT_DELAY_SECS) + Spare < Deadline(p)
  BY <1>5, <1>2 DEF Adopts, Enough
<1>8. CASE InStop'
  <2>1. pc' = "stop" /\ hook # NoHook
    BY <1>1, <1>8 DEF InStop
  <2>2. task'.sent = now
    BY <1>1, <2>1 DEF NoTask
  <2>3. Adopts(p)'
    <3>1. MaxOf(1, ADOPT_DELAY_SECS)' = MaxOf(1, ADOPT_DELAY_SECS)
      BY DEF MaxOf
    <3> QED BY <1>1, <1>2, <1>3, <1>4, <1>5, <1>7, <3>1 DEF Adopts, Enough
  <2>4. ~(Lost')
    BY <2>1 DEF Lost
  <2>5. Settles(p)'
    BY <1>1, <1>2, <1>3, <1>4, <1>5, <1>6, <1>8, <2>1, <2>2, <2>4 DEF Settles, Enough
  <2> QED BY <2>3, <2>5
<1>9. CASE ~(InStop')
  BY <1>1, <1>2, <1>3, <1>4, <1>5, <1>6, <1>7, <1>9, Plainly
<1> QED BY <1>8, <1>9

\* The hook starts with a grace period of its own, or fails to.
LEMMA StartHookOnTime ==
  ASSUME NEW p, StepOf(p), StartHook
  PROVE  Adopts(p)' /\ Settles(p)'
<1>1. pc = "spawn" /\ UNCHANGED now
      /\ \/ pc' = "spawned" /\ UNCHANGED <<pace, faults>>
         \/ pc' = "sleep" /\ UNCHANGED hook /\ Fault
  BY DEF StartHook, To, NoFault, EndTick
<1>2. /\ Settles(p) /\ StepsInv /\ Waited = 0 /\ pace = "due" /\ Waited' \in {0, 1}
      /\ Deadline(p) \in Nat /\ now \in Nat /\ Spare \in Nat /\ Spare' \in Nat /\ Book.settleAt \in Int
      /\ GRACE_SECS \in Nat /\ Book = Active /\ Deadline(p)' = Deadline(p) /\ hook = NoHook
      /\ Setback \in Nat /\ Setback >= 1
  BY <1>1, StepContext
<1>3. /\ UNCHANGED faults => Spare' = Spare
      /\ Fault => Spare = Spare' + Setback
  BY SpareMoves DEF StepOf, TimeOK, PaceOK
<1>4. Book' = Book
  BY <1>1, <1>2, OtherSteps DEF Book, Active
<1>5. Book.p = p /\ Grace = GRACE_SECS /\ ~InStop /\ ~(InStop') /\ ~(Lost')
  BY <1>1, NotThere DEF Grace, InStop, Lost
<1>6. Adopts(p)'
  BY <1>4, <1>5 DEF Adopts
<1>7. Book.settleAt + GRACE_SECS + Spare < Deadline(p) /\ now + 0 + GRACE_SECS + Spare < Deadline(p)
      /\ now + BUFFER_SECS < Deadline(p)
  BY <1>1, <1>2, <1>5 DEF Settles, Enough
<1>8. Grace' \in {0, GRACE_SECS}
  BY DEF Grace
<1>9. CASE pc' = "spawned" /\ UNCHANGED <<pace, faults>>
  <2>1. Waited' = 0 /\ Spare' = Spare
    BY <1>2, <1>3, <1>9 DEF Waited
  <2>2. Book'.settleAt + Grace' + Spare' < Deadline(p) /\ now' + Waited' + Grace' + Spare' < Deadline(p)
    BY <1>1, <1>2, <1>4, <1>7, <1>8, <2>1
  <2>3. BUFFER_SECS' = BUFFER_SECS
    OBVIOUS
  <2>4. Settles(p)'
    BY <1>1, <1>2, <1>5, <1>7, <1>9, <2>2 DEF Settles, Enough
  <2> QED BY <1>6, <2>4
<1>10. CASE pc' = "sleep" /\ UNCHANGED hook /\ Fault
  <2>1. Book'.settleAt + Grace' + Spare' < Deadline(p)
    BY <1>2, <1>3, <1>4, <1>7, <1>8, <1>10
  <2>2. Grace' = 0
    BY <1>2, <1>10 DEF Grace
  <2>3. now' + Waited' + Grace' + Spare' < Deadline(p)
    BY <1>1, <1>2, <1>3, <1>7, <1>10, <2>2
  <2> QED BY <1>4, <1>5, <1>10, <2>1, <2>3, Plainly
<1> QED BY <1>1, <1>9, <1>10

\* While a book is in time, it is not late yet.
LEMMA NowIsEarly ==
  ASSUME NEW p, StepOf(p), Book.p = p
  PROVE  /\ now + Spare < Deadline(p) /\ Book.settleAt + Spare < Deadline(p)
         /\ hook # NoHook => Book.settleAt + GRACE_SECS + Spare < Deadline(p)
         /\ hook # NoHook /\ ~InStop => now + Waited + GRACE_SECS + Spare < Deadline(p)
         /\ hook = NoHook => now + Waited + Spare < Deadline(p)
<1>1. /\ Settles(p) /\ Waited \in {0, 1} /\ Deadline(p) \in Nat /\ now \in Nat /\ Spare \in Nat
      /\ Book.settleAt \in Int /\ GRACE_SECS \in Nat /\ task.sent \in Nat
  BY StepContext
<1>2. Grace \in {0, GRACE_SECS} /\ (hook # NoHook => Grace = GRACE_SECS) /\ (InStop => hook # NoHook)
  BY DEF Grace, InStop
<1>3. Book.settleAt + Grace + Spare < Deadline(p)
  BY <1>1 DEF Settles, Enough
<1>4. CASE InStop
  <2>1. now <= task.sent + GRACE_SECS /\ task.sent + GRACE_SECS + Spare < Deadline(p)
    BY <1>1, <1>4 DEF Settles, Enough
  <2> QED BY <1>1, <1>2, <1>3, <1>4, <2>1
<1>5. CASE ~InStop
  <2>1. now + Waited + Grace + Spare < Deadline(p)
    BY <1>1, <1>5 DEF Settles, Enough
  <2> QED BY <1>1, <1>2, <1>3, <1>5, <2>1
<1> QED BY <1>4, <1>5

\* The runner dies: it has the hook's grace period once more.
LEMMA ExitOnTime ==
  ASSUME NEW p, StepOf(p), Exit
  PROVE  Adopts(p)' /\ Settles(p)'
<1>1. pc # "down" /\ pc' = "down" /\ Fault /\ UNCHANGED now /\ hook' \in {hook, NoHook}
  BY DEF Exit
<1>2. /\ Adopts(p) /\ Waited \in {0, 1} /\ Deadline(p) \in Nat /\ now \in Nat /\ Spare \in Nat
      /\ Spare' \in Nat /\ Spare = Spare' + Setback /\ Setback \in Nat /\ Setback >= GRACE_SECS
      /\ Book.settleAt \in Int /\ GRACE_SECS \in Nat /\ task.sent \in Nat
      /\ ADOPT_DELAY_SECS \in Nat
      /\ hook # NoHook => Book.p = p
  BY <1>1, StepContext DEF Fault
<1>3. Book' = Book
  BY <1>1, StepContext DEF Writing, DropBook, Adopt, DrawReturns, SaveGroup, Settled, EndTick, Goto, To
<1>4. Waited' = 0
  BY <1>1 DEF Waited, Exit
<1>5. Grace' \in {0, GRACE_SECS} /\ (Grace' # 0 => hook # NoHook) /\ ~(InStop')
  BY <1>1 DEF Grace, InStop
<1>6. ASSUME Book.p # p
      PROVE  now' + Waited' + MaxOf(1, ADOPT_DELAY_SECS) + Spare' < Deadline(p)
  <2>1. now + Waited + MaxOf(1, ADOPT_DELAY_SECS) + Spare < Deadline(p)
    BY <1>2, <1>6 DEF Adopts, Enough
  <2>2. MaxOf(1, ADOPT_DELAY_SECS) \in Nat
    BY <1>2 DEF MaxOf
  <2> QED BY <1>1, <1>2, <1>4, <2>1, <2>2
<1>7. ASSUME Book.p = p
      PROVE  /\ Book'.settleAt + Grace' + Spare' < Deadline(p)
             /\ now' + Waited' + Grace' + Spare' < Deadline(p)
  <2>1. now + Spare < Deadline(p) /\ Book.settleAt + Spare < Deadline(p)
    BY <1>7, NowIsEarly
  <2> QED BY <1>1, <1>2, <1>3, <1>4, <1>5, <2>1
<1> QED BY <1>1, <1>3, <1>5, <1>6, <1>7, Plainly

\* It starts again where it was.
LEMMA RestartOnTime ==
  ASSUME NEW p, StepOf(p), Restart
  PROVE  Adopts(p)' /\ Settles(p)'
<1>1. pc = "down" /\ pc' = "sleep" /\ UNCHANGED <<now, hook, pace, faults>>
  BY DEF Restart, Goto, To
<1>2. /\ Adopts(p) /\ Settles(p) /\ Waited = 0 /\ pace = "due" /\ Deadline(p) \in Nat /\ now \in Nat
      /\ Spare \in Nat
  BY <1>1, StepContext
<1>3. Book' = Book
  BY <1>1, StepContext DEF Writing, DropBook, Adopt, DrawReturns, SaveGroup, Settled, Goto
<1>4. Spare' = Spare
  BY <1>1, SpareMoves DEF StepOf, TimeOK, PaceOK
<1>5. Waited' = Waited /\ Grace' = Grace /\ ~InStop /\ ~(InStop')
  BY <1>1, <1>2 DEF Waited, Grace, InStop
<1>6. Book.p # p => now + Waited + MaxOf(1, ADOPT_DELAY_SECS) + Spare < Deadline(p)
  BY <1>2 DEF Adopts, Enough
<1>7. Book.p = p => /\ Book.settleAt + Grace + Spare < Deadline(p)
                    /\ now + Waited + Grace + Spare < Deadline(p)
  BY <1>2, <1>5 DEF Settles, Enough
<1> QED BY <1>1, <1>3, <1>4, <1>5, <1>6, <1>7, Plainly

\* A hook that ended on its own has no grace period to wait for.
LEMMA HookExitsOnTime ==
  ASSUME NEW p, StepOf(p), HookExits
  PROVE  Adopts(p)' /\ Settles(p)'
<1>1. /\ hook # NoHook /\ hook' \in {NoHook, [hook EXCEPT !.shell = FALSE]}
      /\ UNCHANGED <<now, pc, task, pace, faults, txs>>
  BY DEF HookExits, chain
<1>2. /\ Adopts(p) /\ Settles(p) /\ Waited \in {0, 1} /\ Deadline(p) \in Nat /\ now \in Nat
      /\ Spare \in Nat /\ Book.p = p /\ pc \in {"down", "sleep", "look", "stop", "spawned"}
      /\ hook \in [p : Positions, shell : BOOLEAN] /\ Deadline(p)' = Deadline(p)
      /\ GRACE_SECS \in Nat /\ Book.settleAt \in Int
  BY <1>1, StepContext DEF StepsInv, ChainOK
<1>3. Book' = Book
  <2>1. ~Writing \/ pc = "spawned"
    BY <1>1, <1>2 DEF Writing, DropBook, Adopt, DrawReturns, SaveGroup, Settled, Goto
  <2>2. ~(pc = "spawned" /\ Writing)
    BY <1>1 DEF Writing, DropBook, Adopt, DrawReturns, SaveGroup, Settled, Goto, EndTick
  <2> QED BY <2>1, <2>2, StepContext
<1>4. CASE hook' # NoHook
  <2>1. ~(Lost')
    BY <1>1, <1>2 DEF Lost
  <2> QED BY <1>1, <1>3, <1>4, <2>1, StaysOnTime
<1>5. CASE hook' = NoHook
  <2>1. Spare' = Spare
    BY <1>1, SpareMoves DEF StepOf, TimeOK, PaceOK
  <2>2. Grace' = 0 /\ ~(InStop') /\ Waited' = Waited /\ ~(Lost')
    BY <1>1, <1>2, <1>5 DEF Grace, InStop, Waited, Lost
  <2>3. /\ now + Spare < Deadline(p) /\ Book.settleAt + Spare < Deadline(p)
        /\ hook # NoHook /\ ~InStop => now + Waited + GRACE_SECS + Spare < Deadline(p)
    BY <1>2, NowIsEarly
  <2>4. now + Waited + Spare < Deadline(p)
    <3>1. CASE InStop
      <4>1. Waited = 0
        BY <3>1, StepContext DEF InStop
      <4> QED BY <1>2, <2>3, <4>1
    <3>2. CASE ~InStop
      BY <1>1, <1>2, <2>3, <3>2
    <3> QED BY <3>1, <3>2
  <2>5. Book'.settleAt + Grace' + Spare' < Deadline(p) /\ now' + Waited' + Grace' + Spare' < Deadline(p)
    BY <1>1, <1>2, <1>3, <2>1, <2>2, <2>3, <2>4
  <2>6. pc \in {"spawn", "spawned"} => now + BUFFER_SECS < Deadline(p)
    BY <1>2 DEF Settles
  <2>7. Adopts(p)'
    BY <1>2, <1>3 DEF Adopts
  <2>8. Settles(p)'
    BY <1>1, <1>2, <2>2, <2>5, <2>6 DEF Settles, Enough
  <2> QED BY <2>7, <2>8
<1> QED BY <1>4, <1>5

\* A position drawn or adopted: its book leaves time for everything.
LEMMA WritingOnTime ==
  ASSUME NEW p, StepOf(p), Writing
  PROVE  Adopts(p)' /\ Settles(p)'
<1>1. /\ p \in Positions /\ Deadline(p) \in Nat /\ now \in Nat /\ Spare \in Nat
      /\ BUFFER_SECS > GRACE_SECS + Spare /\ BUFFER_SECS > ADOPT_DELAY_SECS + Spare
      /\ GRACE_SECS \in Nat /\ BUFFER_SECS \in Nat /\ ADOPT_DELAY_SECS \in Nat /\ HOLD_SECS \in Nat
      /\ Adopts(p) /\ Settles(p) /\ StepsInv /\ Deadline(p)' = Deadline(p) /\ Waited' \in {0, 1}
      /\ pc # "sleep" => Waited = 0
  BY StepContext
<1>2. LaggingReads = {} /\ MoneyInv /\ [Next]_vars /\ ~Told' /\ DrawnEarly /\ Keeping
  BY StepFacts DEF StepOf, Keeping, TimeOK
<1>3. /\ UNCHANGED <<now, position, hook>>
      /\ pc \in {"adopt", "drawing", "spawned"}
      /\ pc # "spawned" => hook = NoHook
      /\ pc = "spawned" => Book' = Book
  BY <1>2, BookWrites, NotThere
<1>4. UNCHANGED faults
  BY <1>2 DEF Writing, DropBook, Adopt, DrawReturns, SaveGroup, Settled, NoFault, Reads
<1>5. Spare' = Spare
  BY <1>4, SpareMoves DEF StepOf, TimeOK, PaceOK
<1>6. CASE pc = "drawing"
  <2>1. DrawReturns /\ pc' = "spawn" /\ UNCHANGED <<pace, task>> /\ task.p = p
    BY <1>6, NotThere DEF Writing, DropBook, Adopt, DrawReturns, SaveGroup, Settled, Goto, To
  <2> DEFINE b == [p |-> task.p, balanceAtDraw |-> BalanceAtDraw(task.amount),
                   settleAt |-> SettleTime(task.p, now)]
  <2>2. Book' = b
    <3>1. mem' = SetBook(mem, b)
      BY <2>1 DEF DrawReturns, Save, SetBook
    <3>2. mem'.state.active = b
      <4>1. mem \in Memory
        BY <1>1 DEF StepsInv, MemoryOK
      <4> HIDE DEF b
      <4> QED BY <3>1, <4>1 DEF SetBook, Memory, State
    <3> QED BY <2>1, <3>2 DEF Book, Active
  <2>3. Book'.p = p /\ Book'.settleAt = SettleTime(p, now)
    BY <2>1, <2>2
  <2>4. Book'.settleAt \in Int /\ Book'.settleAt <= Deadline(p) - BUFFER_SECS
    BY <1>1, <2>3 DEF SettleTime, MinOf
  <2>5. Waited' = 0 /\ Grace' = GRACE_SECS /\ ~(InStop') /\ ~(Lost')
    BY <1>1, <1>3, <1>6, <2>1, StepContext DEF Waited, Grace, InStop, Lost
  <2>6. now + BUFFER_SECS < Deadline(p)
    BY <1>2, <1>6, <2>1 DEF DrawnEarly
  <2>7. Book'.settleAt + Grace' + Spare' < Deadline(p) /\ now' + Waited' + Grace' + Spare' < Deadline(p)
    BY <1>1, <1>3, <1>5, <2>4, <2>5, <2>6
  <2>8. Adopts(p)'
    BY <2>3 DEF Adopts
  <2>9. Settles(p)'
    BY <1>1, <1>3, <2>1, <2>5, <2>6, <2>7 DEF Settles, Enough
  <2> QED BY <2>8, <2>9
<1>7. CASE pc = "adopt"
  <2>1. /\ Adopt /\ pc' = "sleep" /\ task.p = p /\ Book = NoBook
    BY <1>7, NotThere DEF Writing, DropBook, Adopt, DrawReturns, SaveGroup, Settled, Goto, To, EndTick
  <2>2. PICK balance \in {wallet.lamports, wallet.before} :
          Save([mem EXCEPT !.state.active =
                  [p |-> task.p, balanceAtDraw |-> balance,
                   settleAt |-> MaxOf(SettleTime(task.p, position[task.p].drawn),
                                      now + ADOPT_DELAY_SECS)]])
    BY <2>1 DEF Adopt
  <2> DEFINE at == MaxOf(SettleTime(task.p, position[task.p].drawn), now + ADOPT_DELAY_SECS)
             b == [p |-> task.p, balanceAtDraw |-> balance, settleAt |-> at]
  <2>3. Book' = b
    <3>1. mem' = SetBook(mem, b)
      BY <2>2 DEF Save, SetBook
    <3>2. mem'.state.active = b
      <4>1. mem \in Memory
        BY <1>1 DEF StepsInv, MemoryOK
      <4> HIDE DEF b
      <4> QED BY <3>1, <4>1 DEF SetBook, Memory, State
    <3> QED BY <2>1, <3>2 DEF Book, Active
  <2>4. /\ Book'.p = p
        /\ Book'.settleAt = MaxOf(SettleTime(p, position[p].drawn), now + ADOPT_DELAY_SECS)
    BY <2>1, <2>3
  <2>5. /\ position[p].drawn \in Nat /\ SettleTime(p, position[p].drawn) \in Int
        /\ SettleTime(p, position[p].drawn) <= Deadline(p) - BUFFER_SECS
    <3>1. position[p].drawn \in Nat
      BY <1>1 DEF StepsInv, ChainOK
    <3> QED BY <1>1, <3>1 DEF SettleTime, MinOf
  <2>6. now + 0 + MaxOf(1, ADOPT_DELAY_SECS) + Spare < Deadline(p)
    <3>1. Book.p # p /\ Waited = 0
      BY <1>1, <1>7, <2>1, StepContext
    <3> QED BY <1>1, <3>1 DEF Adopts, Enough
  <2>7. now + ADOPT_DELAY_SECS + Spare < Deadline(p) /\ now + 1 + Spare < Deadline(p)
    BY <1>1, <2>6 DEF MaxOf
  <2>8. Book'.settleAt + Spare < Deadline(p)
    <3> DEFINE x == SettleTime(p, position[p].drawn)
               d == Deadline(p)
    <3>1. x \in Int /\ x <= d - BUFFER_SECS /\ d \in Nat
      BY <1>1, <2>5
    <3>2. Book'.settleAt \in {x, now + ADOPT_DELAY_SECS}
      BY <2>4 DEF MaxOf
    <3>3. now + ADOPT_DELAY_SECS + Spare < d
      BY <2>7
    <3> HIDE DEF x, d
    <3>4. x + Spare < d
      BY <1>1, <3>1
    <3>5. Book'.settleAt + Spare < d
      BY <3>2, <3>3, <3>4
    <3> QED BY <3>5 DEF d
  <2>9. Grace' = 0 /\ ~(InStop')
    BY <1>3, <1>7, <2>1 DEF Grace, InStop
  <2>10. Book'.settleAt \in Int
    BY <1>1, <2>4, <2>5 DEF MaxOf
  <2>11. Book'.settleAt + Grace' + Spare' < Deadline(p) /\ now' + Waited' + Grace' + Spare' < Deadline(p)
    BY <1>1, <1>3, <1>5, <2>7, <2>8, <2>9, <2>10
  <2> QED BY <2>1, <2>4, <2>9, <2>11, Plainly
<1>8. CASE pc = "spawned"
  <2>1. pc' = "sleep"
    BY <1>8 DEF Writing, DropBook, Adopt, DrawReturns, SaveGroup, Settled, Goto, To, EndTick
  <2>2. Book.p = p /\ Book' = Book /\ Book.settleAt \in Int /\ Waited = 0
    BY <1>1, <1>3, <1>8, NotThere, StepContext
  <2>3. now + BUFFER_SECS < Deadline(p)
    BY <1>1, <1>8, <2>2 DEF Settles
  <2>4. Grace' \in {0, GRACE_SECS} /\ ~(InStop') /\ (Grace' # 0 => hook # NoHook)
    BY <1>3, <2>1 DEF Grace, InStop
  <2>5. Book'.settleAt + Grace' + Spare' < Deadline(p)
    BY <1>1, <1>5, <2>2, <2>4, NowIsEarly
  <2>6. now' + Waited' + Grace' + Spare' < Deadline(p)
    BY <1>1, <1>3, <1>5, <2>3, <2>4
  <2> QED BY <2>1, <2>2, <2>4, <2>5, <2>6, Plainly
<1> QED BY <1>3, <1>6, <1>7, <1>8

\* A settle that lands is of the position that trades, and ends it.
LEMMA NoSettleLands ==
  ASSUME NEW p, StepOf(p), NEW tx \in txs, SettleLands(tx)
  PROVE  FALSE
<1>1. /\ p \in Positions /\ position[p].status = "trading" /\ MoneyInv /\ StepsInv
      /\ Trading(p)'
  BY StepContext DEF StepOf
<1>2. /\ position[tx.p].status = "trading" /\ tx.p \in Positions
      /\ position' = [position EXCEPT ![tx.p] = [position[tx.p] EXCEPT !.status = "settled"]]
  BY <1>1 DEF SettleLands, CanSettle, SetPosition, StepsInv, ChainOK, Tran
<1>3. tx.p = p
  BY <1>1, <1>2 DEF MoneyInv, DrawInv, DrawsOK
<1>4. position'[p].status = "settled"
  BY <1>1, <1>2, <1>3 DEF StepsInv, ChainOK
<1> QED BY <1>1, <1>4 DEF Trading, Status

\* A settle that could still land is lost in a failure only.
LEMMA GoneOnTime ==
  ASSUME NEW p, StepOf(p), NEW tx \in txs, Gone(tx)
  PROVE  Adopts(p)' /\ Settles(p)'
<1>1. UNCHANGED <<now, pace, pc, task, mem, file, hook>> /\ txs' = txs \ {tx}
  BY DEF Gone, RunnerOnly
<1>2. Book' = Book
  BY <1>1 DEF Book, Active, Loaded
<1>3. ASSUME Lost', ~Lost
      PROVE  Fault
  <2>1. pc = "confirm" /\ Tx("settle") \in txs /\ Tx("settle") \notin txs'
    BY <1>1, <1>3 DEF Lost, InFlight, Tx
  <2>2. tx = Tx("settle") /\ tx.kind = "settle"
    BY <1>1, <2>1 DEF Tx
  <2>3. CanSettle(tx)
    BY <2>1, <2>2, NotThere
  <2> QED BY <2>2, <2>3 DEF Gone
<1> QED BY <1>1, <1>2, <1>3, StaysOnTime

\* Time passes as long as it may.
LEMMA TickOnTime ==
  ASSUME NEW p, StepOf(p), Tick
  PROVE  Adopts(p)' /\ Settles(p)'
<1>1. UNCHANGED <<pc, task, mem, file, hook, faults>> /\ now' = now + 1
  BY DEF Tick, RunnerOnly
<1>2. /\ Adopts(p) /\ Settles(p) /\ Waited \in {0, 1} /\ Deadline(p) \in Nat /\ now \in Nat
      /\ Spare \in Nat /\ Book.settleAt \in Int /\ GRACE_SECS \in Nat /\ task.sent \in Nat
      /\ TX_LIFE_SECS \in Nat /\ Throw \in {0, 1} /\ Throw' = Throw
      /\ Deadline(p)' = Deadline(p) /\ ADOPT_DELAY_SECS \in Nat
      /\ hook # NoHook => Book.p = p /\ pc \in {"down", "sleep", "look", "stop", "spawned"}
      /\ pc # "sleep" => Waited = 0
  BY StepContext
<1>3. Book' = Book
  BY <1>1 DEF Book, Active, Loaded
<1>4. Spare' = Spare
  BY <1>1, SpareMoves DEF StepOf, TimeOK, PaceOK
<1>5. pace # "any" /\ pace' = "due" /\ Waited' = 0
  BY StepFacts DEF Tick, StepOf, Keeping, Waited
<1>6. /\ \/ pc = "sleep" /\ pace = "done"
         \/ InGrace
         \/ pc = "confirm" /\ ~InFlight("settle") /\ now < task.sent + TX_LIFE_SECS
      /\ \A tx \in txs : now + 1 < tx.at + TX_LIFE_SECS
  BY <1>5 DEF Tick
<1>7. txs' = txs
  BY <1>1, <1>6 DEF Tick
<1>8. Grace' = Grace /\ (InStop' <=> InStop) /\ (Lost' <=> Lost) /\ Grace \in {0, GRACE_SECS}
  BY <1>1, <1>7 DEF Grace, InStop, Lost, InFlight, Tx
<1>9. CASE pc = "sleep" /\ pace = "done"
  <2>1. Waited = 1 /\ ~InStop
    BY <1>9 DEF Waited, InStop
  <2>2. Book.p # p => now + 1 + MaxOf(1, ADOPT_DELAY_SECS) + Spare < Deadline(p)
    BY <1>2, <2>1 DEF Adopts, Enough
  <2>3. Book.p = p => /\ Book.settleAt + Grace + Spare < Deadline(p)
                      /\ now + 1 + Grace + Spare < Deadline(p)
    BY <1>2, <2>1 DEF Settles, Enough
  <2>4. MaxOf(1, ADOPT_DELAY_SECS) \in Nat
    BY <1>2 DEF MaxOf
  <2>5. /\ Book'.p # p => now' + Waited' + MaxOf(1, ADOPT_DELAY_SECS) + Spare' < Deadline(p)
        /\ Book'.p = p => /\ Book'.settleAt + Grace' + Spare' < Deadline(p)
                          /\ now' + Waited' + Grace' + Spare' < Deadline(p)
    BY <1>1, <1>2, <1>3, <1>4, <1>5, <1>8, <2>2, <2>3, <2>4
  <2> QED BY <1>1, <1>8, <1>9, <2>1, <2>5, Plainly
<1>10. CASE InGrace
  <2>1. InStop /\ Book.p = p /\ now < task.sent + GRACE_SECS /\ pc = "stop" /\ Grace = GRACE_SECS
    BY <1>2, <1>10 DEF InGrace, InStop, Grace
  <2>2. /\ Book.settleAt + GRACE_SECS + Spare < Deadline(p)
        /\ task.sent <= now /\ task.sent + GRACE_SECS + Spare < Deadline(p)
    BY <1>2, <2>1 DEF Settles, Enough
  <2>3. Adopts(p)'
    BY <1>3, <2>1 DEF Adopts
  <2>4. ~(Lost')
    BY <1>1, <2>1 DEF Lost
  <2>5. task.sent <= now + 1 /\ now + 1 <= task.sent + GRACE_SECS
    BY <1>2, <2>1, <2>2
  <2>6. Settles(p)'
    BY <1>1, <1>2, <1>3, <1>4, <1>8, <2>1, <2>2, <2>4, <2>5 DEF Settles, Enough
  <2> QED BY <2>3, <2>6
<1>11. CASE pc = "confirm" /\ ~InFlight("settle") /\ now < task.sent + TX_LIFE_SECS
  <2>1. Lost /\ Book.p = p /\ hook = NoHook /\ ~InStop /\ Grace = 0
    BY <1>2, <1>11, NotThere DEF Lost, InStop, Grace
  <2>2. /\ Book.settleAt + 0 + Spare < Deadline(p)
        /\ task.sent + TX_LIFE_SECS + Throw + Spare < Deadline(p)
        /\ task.builds <= faults /\ task.builds <= faults + 1
    BY <1>2, <1>11, <2>1 DEF Settles, Enough
  <2>3. now + 1 <= task.sent + TX_LIFE_SECS /\ now + 1 + 0 + 0 + Spare < Deadline(p)
    BY <1>2, <1>11, <2>2
  <2>4. Adopts(p)'
    BY <1>3, <2>1 DEF Adopts
  <2>5. Settles(p)'
    BY <1>1, <1>2, <1>3, <1>4, <1>5, <1>8, <1>11, <2>1, <2>2, <2>3 DEF Settles, Enough
  <2> QED BY <2>4, <2>5
<1> QED BY <1>6, <1>9, <1>10, <1>11

\* A draw that lands was sent long before the deadline.
LEMMA DrawLandsOnTime ==
  ASSUME RoomForFailures, MoneyInv, TimeOK, NEW tx \in txs, DrawLands(tx), Keeping',
         NEW p \in Positions, Trading(p)'
  PROVE  Adopts(p)' /\ Settles(p)'
<1>1. /\ pc = "drawing" /\ p = task.p /\ Book.p # p /\ Book' = Book /\ Keeping
      /\ UNCHANGED <<now, pc, pace, faults>> /\ StepsInv /\ PaceOK
      /\ Status(p) = "open" /\ DrawnEarly
  BY DrawLanding DEF TimeOK, MoneyInv, HookInv
<1>2. position' = [position EXCEPT ![tx.p] =
                     [position[tx.p] EXCEPT !.status = "trading", !.drawn = now]] /\ tx.p = p
  BY <1>1, DrawLanding DEF DrawLands, SetPosition
<1>3. Deadline(p)' = Deadline(p) /\ Deadline(p) \in Nat /\ now \in Nat
  <2>1. position[p] \in [status : Statuses, opened : Nat, drawn : Nat] /\ now \in Nat
        /\ DOMAIN position = Positions
    BY <1>1 DEF StepsInv, ChainOK
  <2>2. position'[p].opened = position[p].opened /\ position[p].opened \in Nat
    BY <1>2, <2>1
  <2> QED BY <2>1, <2>2, Constants DEF Deadline
<1>4. now + BUFFER_SECS < Deadline(p) /\ Deadline(p) < MAX_NOW
  BY <1>1 DEF DrawnEarly, PaceOK
<1>5. Spare' = Spare /\ Spare \in Nat /\ Spare <= MAX_FAULTS * Setback
  BY <1>1, SpareIs, SpareMoves DEF PaceOK
<1>6. Waited' = 0
  <2>1. ~(now >= MAX_NOW)
    BY <1>3, <1>4, Constants, MoreConstants
  <2> QED BY <1>1, <2>1 DEF PaceOK, Waited
<1>7. now + MaxOf(1, ADOPT_DELAY_SECS) + Spare < Deadline(p)
  <2> DEFINE m == MAX_FAULTS * Setback
             s == Spare
             d == Deadline(p)
  <2>1. /\ m \in Nat /\ BUFFER_SECS > GRACE_SECS + m /\ BUFFER_SECS > ADOPT_DELAY_SECS + m
        /\ s <= m /\ s \in Nat /\ d \in Nat /\ now + BUFFER_SECS < d
    BY <1>3, <1>4, <1>5, Setbacks
  <2>2. BUFFER_SECS \in Nat /\ ADOPT_DELAY_SECS \in Nat /\ now \in Nat /\ GRACE_SECS \in Nat
    BY <1>3, Constants, MoreConstants
  <2>3. MaxOf(1, ADOPT_DELAY_SECS) \in {1, ADOPT_DELAY_SECS}
    BY DEF MaxOf
  <2> HIDE DEF m, s, d
  <2>4. now + ADOPT_DELAY_SECS + s < d /\ now + 1 + s < d
    BY <2>1, <2>2
  <2>5. now + MaxOf(1, ADOPT_DELAY_SECS) + s < d
    BY <2>3, <2>4
  <2> QED BY <2>5 DEF s, d
<1>8. Adopts(p)'
  <2>1. MaxOf(1, ADOPT_DELAY_SECS)' = MaxOf(1, ADOPT_DELAY_SECS) /\ MaxOf(1, ADOPT_DELAY_SECS) \in Nat
    BY Constants DEF MaxOf
  <2>2. now' + Waited' + MaxOf(1, ADOPT_DELAY_SECS) + Spare' < Deadline(p)'
    BY <1>1, <1>3, <1>5, <1>6, <1>7, <2>1
  <2> QED BY <2>1, <2>2 DEF Adopts, Enough
<1>9. Settles(p)'
  BY <1>1 DEF Settles
<1> QED BY <1>8, <1>9

\* Every other step.
LEMMA StepOnTime ==
  ASSUME NEW p, StepOf(p)
  PROVE  Adopts(p)' /\ Settles(p)'
<1>1. CASE Thinking
  BY <1>1, LookOnTime, ScanOnTime, DrawErrorsOnTime, CallFailsOnTime, ReadBalanceOnTime, BuildOnTime,
     SettleThrowsOnTime, ConfirmOnTime, FinalCheckOnTime, NotThere
     DEF Thinking, ReadReserve, SendDraw
<1>2. CASE Writing
  BY <1>2, WritingOnTime
<1>3. CASE StopHook \/ StartTick \/ StartHook \/ HookExits \/ Exit \/ Restart
  BY <1>3, StopHookOnTime, StartTickOnTime, StartHookOnTime, HookExitsOnTime, ExitOnTime,
     RestartOnTime
<1>4. CASE Lands
  <2>1. PICK tx \in txs : DrawLands(tx) \/ SettleLands(tx) \/ Gone(tx)
    BY <1>4 DEF Lands
  <2>2. ~DrawLands(tx)
    BY DEF StepOf
  <2> QED BY <2>1, <2>2, NoSettleLands, GoneOnTime
<1>5. CASE Tick
  BY <1>5, TickOnTime
<1>6. CASE Stall \/ Unbind
  BY <1>6 DEF Stall, Unbind, StepOf, Keeping
<1>7. CASE HookTrades \/ Bind \/ UNCHANGED vars \/ \E q \in Positions : Open(q) \/ Cancel(q) \/ Claim(q)
  <2>1. UNCHANGED <<now, txs, hook, mem, file, pc, task, pace>>
    BY <1>7 DEF HookTrades, Bind, Open, Cancel, Claim, TraderMoves, RunnerOnly, vars, chain
  <2>2. Book' = Book /\ (Lost' <=> Lost)
    BY <2>1 DEF Book, Active, Loaded, Lost, InFlight, Tx
  <2> QED BY <2>1, <2>2, StaysOnTime
<1>8. [Next]_vars
  BY DEF StepOf
<1> QED BY <1>1, <1>2, <1>3, <1>4, <1>5, <1>6, <1>7, <1>8, StepKinds DEF Happens

\* Every step leaves time for what is left to do.
LEMMA OnTimeSteps ==
  ASSUME RoomForFailures, ~SPAWN_INTERRUPTED, ~LATE_DRAWS, LaggingReads = {}, MoneyInv, TimeOK,
         [Next]_vars
  PROVE  OnTime'
<1> SUFFICES ASSUME Keeping', NEW p \in Positions, Trading(p)'
             PROVE  Adopts(p)' /\ Settles(p)'
  BY DEF OnTime
<1>1. CASE \E tx \in txs : DrawLands(tx)
  BY <1>1, DrawLandsOnTime
<1>2. CASE ~\E tx \in txs : DrawLands(tx)
  BY <1>2, StepOnTime DEF StepOf
<1> QED BY <1>1, <1>2

\* What is in time is not late.
LEMMA NeverLateSteps ==
  ASSUME RoomForFailures, MoneyInv, TimeOK, [Next]_vars, StepsInv', PaceOK', OnTime'
  PROVE  NeverLate'
<1> SUFFICES ASSUME pace' # "any", ~mem'.alerted, NEW p \in Has("trading")'
             PROVE  now' < Deadline(p)'
  BY DEF NeverLate
<1>1. /\ p \in Positions /\ Status(p)' = "trading" /\ Trading(p)' /\ StepsInv /\ PaceOK /\ HookInv
      /\ Deadline(p)' \in Nat
  BY DeadlineMoves DEF Has, Trading, Status, MoneyInv, HookInv, TimeOK
<1>2. CASE ~Told'
  <2>1. Keeping' /\ Adopts(p)' /\ Settles(p)'
    BY <1>1, <1>2 DEF OnTime, Keeping
  <2>2. /\ now' \in Nat /\ Spare' \in Nat /\ Waited' \in {0, 1} /\ GRACE_SECS \in Nat
        /\ ADOPT_DELAY_SECS \in Nat /\ task'.sent \in Nat
    <3>1. Spare' \in Nat
      BY <1>1, StepFaults, SpareMoves, SpareIs DEF PaceOK
    <3> QED BY <3>1, Constants, MoreConstants DEF StepsInv, ChainOK, TaskOK, Task, Waited
  <2>3. CASE Book'.p # p
    <3>1. now' + Waited' + MaxOf(1, ADOPT_DELAY_SECS)' + Spare' < Deadline(p)'
      BY <2>1, <2>3 DEF Adopts, Enough
    <3>2. MaxOf(1, ADOPT_DELAY_SECS)' \in Nat
      BY <2>2 DEF MaxOf
    <3> QED BY <1>1, <2>2, <3>1, <3>2
  <2>4. CASE Book'.p = p
    <3>1. CASE InStop'
      <4>1. now' <= task'.sent + GRACE_SECS /\ task'.sent + GRACE_SECS + Spare' < Deadline(p)'
        BY <2>1, <2>4, <3>1 DEF Settles, Enough
      <4> QED BY <1>1, <2>2, <4>1
    <3>2. CASE ~(InStop')
      <4>1. now' + Waited' + Grace' + Spare' < Deadline(p)' /\ Grace' \in {0, GRACE_SECS}
        BY <2>1, <2>4, <3>2 DEF Settles, Enough, Grace
      <4> QED BY <1>1, <2>2, <4>1
    <3> QED BY <3>1, <3>2
  <2> QED BY <2>3, <2>4
<1>3. CASE Told'
  <2>1. pc' = "down"
    BY <1>3 DEF Told
  <2>2. pace # "any" /\ ~mem.alerted
    BY <1>1, BookMoves, PaceMoves
  <2>3. ~\E tx \in txs : DrawLands(tx)
    BY <2>1, DrawLanding
  <2>4. Trading(p) /\ Deadline(p)' = Deadline(p)
    BY <1>1, <2>3, TradedBefore
  <2>5. now' = now
    BY <2>1, <2>2, StepClock DEF Tick, InGrace, RunnerOnly
  <2>6. now < Deadline(p)
    BY <1>1, <2>2, <2>4 DEF TimeOK, NeverLate, Has, Trading, Status
  <2> QED BY <2>4, <2>5, <2>6
<1> QED BY <1>2, <1>3

\* The invariant of a runner that keeps up.
LEMMA TimeInvHolds ==
  ASSUME RoomForFailures, ~SPAWN_INTERRUPTED, ~LATE_DRAWS, LaggingReads = {}
  PROVE  Spec => []TimeInv
<1>1. Init => TimeOK
  <2> SUFFICES ASSUME Init
               PROVE  TimeOK
    OBVIOUS
  <2>1. /\ faults = 0 /\ pace = "due" /\ bound /\ pc = "down"
        /\ \A p \in Positions : made[p] = 0 /\ Status(p) = "absent"
    BY DEF Init, Status
  <2>2. PaceOK /\ BookIsOfIt /\ DrawnEarly /\ OnTime /\ NeverLate
    BY <2>1, MoreConstants DEF PaceOK, BookIsOfIt, DrawnEarly, OnTime, NeverLate, Trading, Has, Status
  <2>3. Solvent
    BY <2>1, MoreConstants DEF Solvent, Trading
  <2> QED BY <2>2, <2>3 DEF TimeOK
<1>2. MoneyInv /\ MoneyInv' /\ TimeOK /\ [Next]_vars => TimeOK'
  <2> SUFFICES ASSUME MoneyInv, MoneyInv', TimeOK, [Next]_vars
               PROVE  TimeOK'
    OBVIOUS
  <2>1. PaceOK'
    BY PaceSteps DEF TimeOK, MoneyInv, HookInv
  <2>2. BookIsOfIt' /\ Solvent'
    BY BookIsOfItSteps, SolventSteps DEF TimeOK
  <2>3. DrawnEarly'
    BY DrawnEarlySteps
  <2>4. OnTime'
    BY OnTimeSteps
  <2>5. StepsInv'
    BY DEF MoneyInv, HookInv
  <2>6. NeverLate'
    BY <2>1, <2>4, <2>5, NeverLateSteps
  <2> QED BY <2>1, <2>2, <2>3, <2>4, <2>6 DEF TimeOK
<1>3. Spec => []MoneyInv
  BY MoneyInvHolds
<1>4. TimeInv <=> MoneyInv /\ TimeOK
  BY DEF TimeInv
<1> QED BY <1>1, <1>2, <1>3, <1>4, PTL DEF Spec

\* A runner that keeps up with the clock settles before the deadline, if its buffer before the
\* deadline covers the hook's grace period, or the delay of an adopted position, and what
\* every failure sets it back: a hook that is stopped again, a settle that has to expire.
THEOREM SdkRunnerIsNeverLate ==
  ASSUME RoomForFailures, ~SPAWN_INTERRUPTED, ~LATE_DRAWS, LaggingReads = {}
  PROVE  Spec => []NeverLate
<1>1. TimeInv => NeverLate
  BY DEF TimeInv, TimeOK
<1> QED BY <1>1, TimeInvHolds, PTL
=============================================================================
