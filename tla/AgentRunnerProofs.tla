-------------------------- MODULE AgentRunnerProofs --------------------------
(***************************************************************************)
(* What the agent runner promises (RunnerProperties), for any number of    *)
(* positions, any schedule, prices and failures: a position keeps to the   *)
(* program's life, never has two swaps on their way, its book says what    *)
(* the chain did for it, and it is settled in time.                        *)
(***************************************************************************)
EXTENDS RunnerProperties, FiniteSetTheorems, TLAPS

Statuses == {"absent", "open", "trading", "settled", "defaulted", "cancelled"}
BookRecord == [kept : BOOLEAN, sol : Nat, usdc : Nat, cycles : Nat, settle_at : Int,
               pending : Nat]
Swap == [of : Positions, side : {"SOL", "USDC"}, in : Nat,
         status : {"signed", "sent", "landed", "failed", "expired"}]

LoopRecord == [pass : {"due", "trade", "draw"}, todo : SUBSET Positions, skew : Int,
               partial : BOOLEAN, seen : [Positions -> Statuses]]
TaskRecord == [p : Positions \cup {"none"}, after : {"end", "leg2", "settle"},
               emergency : BOOLEAN, paying : Int, sent : Nat]

TypeOK ==
  /\ now \in Nat
  /\ position \in [Positions -> Statuses] /\ drawn_at \in [Positions -> Nat]
  /\ wallet \in [sol : Int, usdc : Int]
  /\ swaps \in Seq(Swap)
  /\ draws \subseteq [p : Positions, at : Nat]
  /\ settles \subseteq [p : Positions, amount : Int, emergency : BOOLEAN, at : Nat]
  /\ held \in [Positions -> [sol : Int, usdc : Int, cycles : Int]]
  /\ books \in [Positions -> BookRecord] /\ disk \in [Positions -> BookRecord]
  /\ loop \in LoopRecord
  /\ task \in TaskRecord

\* Where the runner works on the book of the position of its task.
Resolving == {"status", "height", "lookup", "recheck"}
Swapping  == {"send", "confirm", "meta"}
Deciding  == {"act", "trade", "leg2", "unwind"}
Paying    == {"balance", "settle", "settling"}
Working   == Resolving \cup Swapping \cup Deciding \cup Paying
InTick    == Working \cup {"books", "draws", "drawing"}

TaskOK ==
  /\ pc \in InTick \cup {"idle", "down"}
  /\ pc \in Working \cup {"drawing"} => task.p \in Positions

Drawn  == {"trading", "settled", "defaulted"}
Closed == {"settled", "defaulted"}

\* Every change of the books is in the file; a tick's list holds kept books, and the one
\* under work is not on it.
FilesAgree ==
  /\ pc # "down" => books = disk
  /\ pc \in Working \cup {"books"} => \A p \in loop.todo : disk[p].kept
  /\ pc \in Working => disk[task.p].kept /\ task.p \notin loop.todo

\* A book is kept for drawn positions only, and its pending swap was paid from it.
BookOK(p) ==
  /\ ~disk[p].kept => disk[p] = NoBook
  /\ disk[p].kept => position[p] \in Drawn
  /\ disk[p].pending # 0 =>
       LET s == swaps[disk[p].pending]
       IN  /\ disk[p].pending \in DOMAIN swaps /\ s.of = p
           /\ s.in <= IF s.side = "SOL" THEN disk[p].sol ELSE disk[p].usdc

\* A swap that was sent is pending in its position's book, unless the position was
\* closed and its book dropped.
SwapOK(s) ==
  LET p == swaps[s].of
  IN  /\ position[p] \in Drawn
      /\ swaps[s].status = "sent" =>
           disk[p].pending = s \/ (~disk[p].kept /\ position[p] \in Closed)

\* What the tick saw of a position is still good enough for what it will do with it.
SeenOK(p) ==
  pc \in InTick =>
    /\ disk[p].kept /\ loop.seen[p] # "trading" => position[p] \in Closed
    /\ loop.seen[p] = "open" => ~disk[p].kept /\ \A s \in DOMAIN swaps : swaps[s].of # p
    /\ loop.seen[p] = "trading" => position[p] \in Drawn
    /\ loop.seen[p] = "trading" /\ ~disk[p].kept =>
         \A s \in DOMAIN swaps : swaps[s].of = p => swaps[s].status # "sent"

\* What the runner knows at each step of the swap pending in the book under work.
PendingOK ==
  LET b == disk[task.p]
      s == swaps[b.pending]
  IN  /\ pc \in Resolving \cup Swapping => b.pending # 0
      /\ pc \in Deciding => b.pending = 0
      /\ pc \in {"lookup", "meta"} => s.status = "landed"
      /\ pc = "recheck" => s.status \notin {"signed", "sent"}
      /\ pc = "send" => s.status \in {"signed", "expired"}

DrawingOK == pc = "drawing" => loop.seen[task.p] = "open"

\* What holds also if books get lost or scans lag.
PendingIsOf(p) ==
  LET n == disk[p].pending IN n # 0 => n \in DOMAIN swaps /\ swaps[n].of = p

Typed ==
  /\ TypeOK /\ TaskOK /\ FilesAgree /\ PendingOK /\ DrawingOK
  /\ \A p \in Positions : PendingIsOf(p)

SwapsInv ==
  /\ TypeOK /\ TaskOK /\ FilesAgree /\ PendingOK /\ DrawingOK
  /\ \A p \in Positions : BookOK(p) /\ SeenOK(p)
  /\ \A s \in DOMAIN swaps : SwapOK(s)
  /\ OneSwapAtATime

\* What a book says that the chain did for its position.
Outcome(b) ==
  LET t == IF b.pending # 0 /\ swaps[b.pending].status = "landed"
           THEN Record(b, swaps[b.pending]) ELSE b
  IN  [sol |-> t.sol, usdc |-> t.usdc, cycles |-> t.cycles]

HeldOK(p) ==
  /\ position[p] \in {"absent", "open"} => held[p] = [sol |-> 0, usdc |-> 0, cycles |-> 0]
  /\ Trading(p) /\ ~disk[p].kept => held[p] = [sol |-> PRINCIPAL, usdc |-> 0, cycles |-> 0]
  /\ Trading(p) /\ disk[p].kept => held[p] = Outcome(disk[p])

BooksInv == SwapsInv /\ \A p \in Positions : HeldOK(p)

\* A book whose settlement is due for some clock error, and where the runner acts on it.
DueBy(t, n) == \E e \in ClockErrors : n + e >= t \/ n + e >= DEADLINE - SETTLE_BUFFER_SECS
SettlingNow ==
  \/ pc \in Paying \cup {"unwind"}
  \/ pc \in Swapping /\ task.after = "settle"

SkewOK == pc \in InTick => loop.skew \in ClockErrors

\* Other than in an emergency the runner settles what is due, without a pending swap, and
\* pays what the book holds.
SettlingOK ==
  ~task.emergency =>
    /\ SettlingNow => DueBy(disk[task.p].settle_at, now)
    /\ pc \in Paying => disk[task.p].pending = 0
    /\ pc \in {"settle", "settling"} => task.paying <= disk[task.p].sol

\* While its transaction is in flight no swap that sells SOL can begin or land.
SettleOK(tx) ==
  /\ position[tx.p] \in Drawn
  /\ Trading(tx.p) /\ ~tx.emergency =>
       /\ disk[tx.p].kept /\ DueBy(disk[tx.p].settle_at, now)
       /\ pc = "trade" => task.p # tx.p
       /\ disk[tx.p].pending # 0 =>
            LET s == swaps[disk[tx.p].pending]
            IN  s.side = "USDC" \/ s.status \notin {"signed", "sent"}
       /\ tx.amount <= held[tx.p].sol

MoneyInv ==
  /\ BooksInv /\ SkewOK /\ SettlingOK
  /\ \A tx \in settles : SettleOK(tx)
-----------------------------------------------------------------------------
(* Types *)

\* What a swap brings is a number, and a book stays one when it is recorded.
LEMMA SwapAmounts ==
  ASSUME NEW s \in Swap
  PROVE  SolDelta(s) \in Int /\ UsdcDelta(s) \in Int
<1>1. s.in \in Nat /\ PRICE \in Nat \ {0}
  BY RunnerAssumption DEF Swap
<1>2. s.in \div PRICE \in Nat /\ s.in * PRICE \in Nat
  BY <1>1
<1> QED BY <1>1, <1>2 DEF SolDelta, UsdcDelta

LEMMA RecordedIsBook ==
  ASSUME NEW b \in BookRecord, NEW s \in Swap
  PROVE  Record(b, s) \in BookRecord /\ Cleared(b) \in BookRecord
<1>1. MaxOf(0, b.sol + SolDelta(s)) \in Nat /\ MaxOf(0, b.usdc + UsdcDelta(s)) \in Nat
  BY SwapAmounts DEF BookRecord, MaxOf
<1>2. (IF s.side = "SOL" THEN b.cycles + 1 ELSE b.cycles) \in Nat
  BY DEF BookRecord
<1>3. Record(b, s) \in BookRecord
  BY <1>1, <1>2 DEF BookRecord, Record
<1>4. Cleared(b) \in BookRecord
  BY DEF BookRecord, Cleared
<1> QED BY <1>3, <1>4

\* The book under work and its pending swap.
LEMMA BookUnderWork ==
  ASSUME Typed
  PROVE  /\ pc \in Working => /\ task.p \in Positions /\ Book = disk[task.p]
                              /\ Book \in BookRecord /\ Book.kept
         /\ pc \in Resolving \cup Swapping =>
              /\ Book.pending \in DOMAIN swaps
              /\ Pending \in Swap /\ Pending.of = task.p
<1>1. ASSUME pc \in Working
      PROVE  task.p \in Positions /\ Book = disk[task.p] /\ Book \in BookRecord /\ Book.kept
  BY <1>1
     DEF Typed, TypeOK, TaskOK, FilesAgree, Working, Resolving, Swapping, Deciding, Paying, Book
<1>2. ASSUME pc \in Resolving \cup Swapping
      PROVE  Book.pending \in DOMAIN swaps /\ Pending \in Swap /\ Pending.of = task.p
  <2>1. task.p \in Positions /\ Book = disk[task.p] /\ disk[task.p].pending # 0
    BY <1>1, <1>2 DEF Typed, PendingOK, Working
  <2>2. Book.pending \in DOMAIN swaps /\ Pending.of = task.p
    BY <2>1 DEF Typed, PendingIsOf, Pending
  <2>3. \A i \in DOMAIN swaps : swaps[i] \in Swap
    BY DEF Typed, TypeOK
  <2> QED BY <2>2, <2>3 DEF Pending
<1> QED BY <1>1, <1>2

LEMMA Constants ==
  /\ PRINCIPAL \in Nat /\ OWN_SOL \in Nat /\ PRICE \in Nat \ {0}
  /\ SIZE_BPS \in 0..BPS_DENOMINATOR /\ BPS_DENOMINATOR \in Nat \ {0}
  /\ DEADLINE \in Nat /\ HOLD_SECS \in Nat /\ SETTLE_BUFFER_SECS \in Nat
  /\ LAST_CALL_SECS \in Nat /\ DRAW_MARGIN_SECS \in Nat /\ ADOPT_DELAY_SECS \in Nat
  /\ ClockErrors \subseteq Int /\ ClockErrors # {}
BY RunnerAssumption

\* With books that outlive the runner and scans that are up to date more is known.
LEMMA SwapsTyped ==
  ASSUME SwapsInv
  PROVE  Typed
BY DEF SwapsInv, BookOK, PendingIsOf, Typed

\* A book is saved as a book.
LEMMA SavedBooks ==
  ASSUME Typed, NEW p \in Positions, NEW b \in BookRecord, SaveBook(p, b)
  PROVE  /\ books' \in [Positions -> BookRecord] /\ disk' \in [Positions -> BookRecord]
BY DEF Typed, TypeOK, SaveBook, Save
-----------------------------------------------------------------------------
(* The steps on the book under work come in four kinds *)

KeepsBook ==
  /\ UNCHANGED files
  /\ task' \in {task, [task EXCEPT !.emergency = PastLastCall],
                [task EXCEPT !.paying = MinOf(Book.sol, wallet.sol)]}
  /\ PendingOK'

RecordsBook ==
  /\ SaveBook(task.p, Record(Book, Pending)) /\ UNCHANGED task
  /\ pc \in Resolving \cup Swapping /\ pc' \notin Resolving \cup Swapping
  /\ Pending.status = "landed"

ClearsBook ==
  /\ SaveBook(task.p, Cleared(Book)) /\ UNCHANGED task
  /\ pc \in Resolving \cup Swapping /\ pc' \notin Resolving \cup Swapping
  /\ Pending.status # "sent"
  /\ FailingLookups = {} => Pending.status # "landed"

BookStep ==
  /\ UNCHANGED <<now, chain, loop, pace>>
  /\ pc \in Working /\ pc' \in Working \cup {"books"}
  /\ KeepsBook \/ RecordsBook \/ ClearsBook

SendsSwap ==
  /\ pc = "send" /\ pc' \in {"confirm", "books"} /\ Pending.status = "signed"
  /\ SetSwap(Book.pending, "sent")
  /\ UNCHANGED <<now, position, drawn_at, wallet, draws, settles, held, files, loop, task, pace>>

\* Whatever the runner learns of a pending swap, it keeps the book, records the swap
\* because it landed, or clears it because it will not land.
LEMMA BookSteps ==
  ASSUME Typed,
         \/ ReadStatus \/ ReadHeight \/ ReadLanded \/ Recheck \/ Act \/ NoTrade \/ Send
         \/ Confirm \/ ReadMeta \/ UnwindFails \/ ReadBalance
  PROVE  BookStep \/ SendsSwap
<1> USE DEF Working, Resolving, Swapping, Deciding, Paying, BookStep, PendingOK, Quiet,
            NoFault, chain, files, AskOn
<1>1. PendingOK /\ (pc \in Working => Book = disk[task.p])
      /\ (pc \in Resolving \cup Swapping => Pending.status \in
            {"signed", "sent", "landed", "failed", "expired"})
  BY BookUnderWork DEF Typed, Swap
<1>2. CASE ReadStatus
  BY <1>1, <1>2 DEF ReadStatus, ClearSwap, Unresolved, KeepsBook, ClearsBook, Pending
<1>3. CASE ReadHeight
  BY <1>1, <1>3 DEF ReadHeight, Unresolved, KeepsBook, Pending
<1>4. CASE ReadLanded
  BY <1>1, <1>4 DEF ReadLanded, BookSwap, Unresolved, KeepsBook, RecordsBook, Pending
<1>5. CASE Recheck
  BY <1>1, <1>5 DEF Recheck, BookSwap, ClearSwap, RecordsBook, ClearsBook, Pending
<1>6. CASE Act
  BY <1>1, <1>6 DEF Act, KeepsBook
<1>7. CASE NoTrade
  BY <1>1, <1>7 DEF NoTrade, KeepsBook
<1>8. CASE Send
  BY <1>1, <1>8 DEF Send, SwapInFlight, SwapFails, KeepsBook, ClearsBook, SendsSwap, Pending
<1>9. CASE Confirm
  BY <1>1, <1>9 DEF Confirm, SwapInFlight, SwapFails, KeepsBook, ClearsBook, Pending
<1>10. CASE ReadMeta
  BY <1>1, <1>10 DEF ReadMeta, SwapInFlight, SwapFails, KeepsBook, RecordsBook, ClearsBook, Pending
<1>11. CASE UnwindFails
  BY <1>1, <1>11 DEF UnwindFails, KeepsBook
<1>12. CASE ReadBalance
  BY <1>1, <1>12 DEF ReadBalance, KeepsBook
<1> QED
  BY <1>2, <1>3, <1>4, <1>5, <1>6, <1>7, <1>8, <1>9, <1>10, <1>11, <1>12
-----------------------------------------------------------------------------
(* Types are kept *)

\* A record that only stays a record if its fields are in their sets.
LEMMA TaskFields ==
  ASSUME TypeOK, NEW b \in BOOLEAN, NEW n \in Int
  PROVE  /\ [task EXCEPT !.emergency = b] \in TaskRecord
         /\ [task EXCEPT !.paying = n] \in TaskRecord
BY DEF TypeOK, TaskRecord

LEMMA LoopFields ==
  ASSUME TypeOK, NEW p \in Positions, NEW st \in Statuses
  PROVE  /\ [loop EXCEPT !.todo = @ \ {p}] \in LoopRecord
         /\ [loop EXCEPT !.seen[p] = st] \in LoopRecord
         /\ [loop EXCEPT !.seen[p] = st].todo = loop.todo
         /\ [loop EXCEPT !.seen[p] = st].skew = loop.skew
         /\ [loop EXCEPT !.seen[p] = st].seen = [loop.seen EXCEPT ![p] = st]
<1>1. loop.seen \in [Positions -> Statuses]
  BY DEF TypeOK, LoopRecord
<1>2. [loop.seen EXCEPT ![p] = st] \in [Positions -> Statuses]
  BY <1>1
<1>3. [loop EXCEPT !.seen[p] = st] = [loop EXCEPT !.seen = [loop.seen EXCEPT ![p] = st]]
  BY DEF TypeOK, LoopRecord
<1> QED BY <1>2, <1>3 DEF TypeOK, LoopRecord

LEMMA BookStepSaves ==
  ASSUME Typed, pc \in Working, RecordsBook \/ ClearsBook
  PROVE  \E b \in BookRecord : SaveBook(task.p, b) /\ b.kept /\ b.pending = 0
<1>1. Book \in BookRecord /\ Book.kept /\ Pending \in Swap
  BY BookUnderWork DEF RecordsBook, ClearsBook
<1>2. CASE RecordsBook
  <2>1. Record(Book, Pending) \in BookRecord
    BY <1>1, RecordedIsBook
  <2>2. Record(Book, Pending).kept /\ Record(Book, Pending).pending = 0
    BY <1>1 DEF Record, BookRecord
  <2> QED BY <1>2, <2>1, <2>2 DEF RecordsBook
<1>3. CASE ClearsBook
  <2>1. Cleared(Book) \in BookRecord /\ Cleared(Book).kept /\ Cleared(Book).pending = 0
    BY <1>1, RecordedIsBook DEF Cleared, BookRecord
  <2> QED BY <1>3, <2>1 DEF ClearsBook
<1> QED BY <1>2, <1>3

LEMMA BookStepKeepsTypes ==
  ASSUME Typed, BookStep
  PROVE  Typed' /\ task'.p = task.p
<1> USE DEF InTick, Working, Resolving, Swapping, Deciding, Paying
<1>1. /\ TypeOK /\ TaskOK /\ FilesAgree /\ PendingOK /\ DrawingOK
      /\ \A p \in Positions : PendingIsOf(p)
      /\ UNCHANGED <<now, chain, swaps, loop>>
      /\ pc \in Working /\ pc' \in Working \cup {"books"}
  BY DEF Typed, BookStep, chain
<1>2. Book \in BookRecord /\ task.p \in Positions /\ Book = disk[task.p] /\ Book.kept
  BY <1>1, BookUnderWork
<1>3. /\ task' \in TaskRecord
      /\ task'.p = task.p
  <2>1. PastLastCall \in BOOLEAN
    BY DEF PastLastCall
  <2>2. MinOf(Book.sol, wallet.sol) \in Int
    BY <1>1, <1>2 DEF MinOf, BookRecord, TypeOK
  <2>3. task' \in {task, [task EXCEPT !.emergency = PastLastCall],
                   [task EXCEPT !.paying = MinOf(Book.sol, wallet.sol)]}
    BY DEF BookStep, KeepsBook, RecordsBook, ClearsBook
  <2>4. task \in TaskRecord
    BY <1>1 DEF TypeOK
  <2> QED BY <1>1, <2>1, <2>2, <2>3, <2>4, TaskFields DEF TaskRecord
<1>4. TaskOK' /\ DrawingOK'
  BY <1>1, <1>2, <1>3 DEF TaskOK, DrawingOK
<1>5. CASE KeepsBook
  <2>1. UNCHANGED <<disk, books>> /\ PendingOK'
    BY <1>5 DEF KeepsBook, files
  <2>2. TypeOK'
    BY <1>1, <1>3, <2>1 DEF TypeOK, chain
  <2>3. FilesAgree' /\ \A p \in Positions : PendingIsOf(p)'
    BY <1>1, <1>3, <2>1 DEF FilesAgree, PendingIsOf
  <2> QED BY <1>3, <1>4, <2>1, <2>2, <2>3 DEF Typed
<1>6. CASE RecordsBook \/ ClearsBook
  <2>1. PICK b \in BookRecord : SaveBook(task.p, b) /\ b.kept /\ b.pending = 0
    BY <1>1, <1>2, <1>6, BookStepSaves
  <2>2. books' \in [Positions -> BookRecord] /\ disk' \in [Positions -> BookRecord]
    BY <1>2, <2>1, SavedBooks
  <2>3. /\ books' = disk' /\ disk'[task.p] = b
        /\ \A q \in Positions : q # task.p => disk'[q] = disk[q]
    BY <1>1, <1>2, <2>1 DEF TypeOK, SaveBook, Save, FilesAgree
  <2>4. TypeOK'
    BY <1>1, <1>3, <2>2 DEF TypeOK, chain
  <2>5. pc' \notin Resolving \cup Swapping
    BY <1>6 DEF RecordsBook, ClearsBook
  <2>6. FilesAgree' /\ PendingOK'
    BY <1>1, <1>2, <1>3, <2>1, <2>3, <2>5 DEF FilesAgree, PendingOK, TypeOK, LoopRecord
  <2>7. \A p \in Positions : PendingIsOf(p)'
    BY <1>1, <2>1, <2>3 DEF PendingIsOf
  <2> QED BY <1>3, <1>4, <2>4, <2>6, <2>7 DEF Typed
<1> QED BY <1>5, <1>6 DEF BookStep

LEMMA SendsSwapKeepsTypes ==
  ASSUME Typed, SendsSwap
  PROVE  /\ Typed' /\ Book.pending \in DOMAIN swaps /\ DOMAIN swaps' = DOMAIN swaps
         /\ swaps'[Book.pending] = [swaps[Book.pending] EXCEPT !.status = "sent"]
         /\ \A s \in DOMAIN swaps : s # Book.pending => swaps'[s] = swaps[s]
<1> USE DEF InTick, Working, Resolving, Swapping, Deciding, Paying
<1> DEFINE n == Book.pending
           sent == [swaps[n] EXCEPT !.status = "sent"]
<1>1. /\ TypeOK /\ TaskOK /\ FilesAgree /\ PendingOK /\ DrawingOK
      /\ \A p \in Positions : PendingIsOf(p)
  BY DEF Typed
<1>2. n \in DOMAIN swaps /\ swaps[n] \in Swap
  BY BookUnderWork DEF SendsSwap, Pending
<1>3. sent \in Swap /\ sent.of = swaps[n].of
  BY <1>2 DEF Swap
<1>4. /\ UNCHANGED <<now, position, drawn_at, wallet, draws, settles, held, disk, books, loop,
         task>>
      /\ pc = "send" /\ pc' \in {"confirm", "books"} /\ swaps' = [swaps EXCEPT ![n] = sent]
  BY DEF SendsSwap, SetSwap, files
<1> HIDE DEF n, sent
<1>5. /\ swaps' \in Seq(Swap) /\ DOMAIN swaps' = DOMAIN swaps
      /\ swaps'[n] = sent /\ \A s \in DOMAIN swaps : s # n => swaps'[s] = swaps[s]
  BY <1>1, <1>2, <1>3, <1>4 DEF TypeOK
<1>6. TypeOK' /\ TaskOK' /\ FilesAgree' /\ PendingOK' /\ DrawingOK'
  BY <1>1, <1>4, <1>5 DEF TypeOK, TaskOK, FilesAgree, PendingOK, DrawingOK
<1>7. \A p \in Positions : PendingIsOf(p)'
  BY <1>1, <1>3, <1>4, <1>5 DEF PendingIsOf
<1> QED BY <1>2, <1>5, <1>6, <1>7 DEF Typed, n, sent

\* Starting a swap appends it, signed, and makes it the pending one.
LEMMA BegunSwapKeepsTypes ==
  ASSUME Typed, NEW side \in {"SOL", "USDC"}, NEW amount \in Nat,
         NEW after \in {"end", "leg2", "settle"},
         pc \in Deciding, BeginSwap(side, amount, after)
  PROVE  LET new == [of |-> task.p, side |-> side, in |-> amount, status |-> "signed"]
             n == Len(swaps) + 1
         IN  /\ new \in Swap /\ n \in Nat \ {0} /\ n \notin DOMAIN swaps
             /\ swaps' \in Seq(Swap) /\ DOMAIN swaps' = DOMAIN swaps \cup {n}
             /\ swaps'[n] = new /\ \A s \in DOMAIN swaps : swaps'[s] = swaps[s]
             /\ disk' = [disk EXCEPT ![task.p] = [Book EXCEPT !.pending = n]]
             /\ books' = [books EXCEPT ![task.p] = [Book EXCEPT !.pending = n]]
             /\ Typed'
<1> DEFINE new == [of |-> task.p, side |-> side, in |-> amount, status |-> "signed"]
           n == Len(swaps) + 1
<1>1. task.p \in Positions /\ Book \in BookRecord /\ Book = disk[task.p]
  BY BookUnderWork DEF Working
<1>2. swaps \in Seq(Swap) /\ new \in Swap
  BY <1>1 DEF Typed, TypeOK, Swap
<1>3. n \in Nat \ {0} /\ DOMAIN swaps = 1..Len(swaps) /\ n \notin DOMAIN swaps
  BY <1>2
<1>4. swaps' = Append(swaps, new)
  BY DEF BeginSwap
<1>5. /\ swaps' \in Seq(Swap) /\ DOMAIN swaps' = DOMAIN swaps \cup {n}
      /\ swaps'[n] = new /\ \A s \in DOMAIN swaps : swaps'[s] = swaps[s]
  BY <1>2, <1>3, <1>4
<1>6. [Book EXCEPT !.pending = n] \in BookRecord
  BY <1>1, <1>3 DEF BookRecord
<1>7. /\ disk' = [disk EXCEPT ![task.p] = [Book EXCEPT !.pending = n]]
      /\ books' = [books EXCEPT ![task.p] = [Book EXCEPT !.pending = n]]
  BY DEF BeginSwap, SaveBook, Save, Typed, FilesAgree, Deciding
<1>8. books' \in [Positions -> BookRecord] /\ disk' \in [Positions -> BookRecord]
  BY <1>6, <1>7 DEF Typed, TypeOK
<1>9. task' \in TaskRecord
  BY DEF TaskRecord, LoopRecord, BeginSwap, Typed, TypeOK
<1>10. TypeOK' /\ TaskOK'
  BY <1>1, <1>5, <1>8, <1>9
     DEF TaskRecord, LoopRecord, BeginSwap, Typed, TypeOK, TaskOK, InTick, Working, Swapping
<1> DEFINE b == [Book EXCEPT !.pending = n]
<1>11. /\ FilesAgree /\ PendingOK /\ \A p \in Positions : PendingIsOf(p)
       /\ disk \in [Positions -> BookRecord] /\ Book.kept /\ pc \in Working
       /\ loop.todo \subseteq Positions
  BY BookUnderWork DEF Typed, TypeOK, LoopRecord, Working
<1>12. /\ disk'[task.p] = b /\ \A q \in Positions : q # task.p => disk'[q] = disk[q]
       /\ books' = disk' /\ b.pending = n /\ b.kept
  BY <1>1, <1>7, <1>11 DEF FilesAgree, BookRecord, Working, Deciding
<1>13. UNCHANGED loop /\ pc' = "send" /\ task'.p = task.p
  BY DEF BeginSwap, Typed, TypeOK, TaskRecord
<1>14. new.of = task.p /\ new.status = "signed"
  OBVIOUS
<1> HIDE DEF b, new, n
<1>15. FilesAgree' /\ PendingOK' /\ DrawingOK'
  BY <1>1, <1>3, <1>5, <1>11, <1>12, <1>13, <1>14
     DEF FilesAgree, PendingOK, DrawingOK, Working, Resolving, Swapping, Deciding, Paying
<1>16. \A p \in Positions : PendingIsOf(p)'
  BY <1>5, <1>11, <1>12, <1>14 DEF PendingIsOf
<1>17. Typed'
  BY <1>10, <1>15, <1>16 DEF Typed
<1> QED BY <1>2, <1>3, <1>5, <1>7, <1>17 DEF n, new

\* What a strategy asks for is in the book, and so is what a settlement unwinds.
LEMMA SharesFit ==
  ASSUME NEW x \in Nat
  PROVE  (x * SIZE_BPS) \div BPS_DENOMINATOR \in 0..x
<1>1. SIZE_BPS \in Nat /\ SIZE_BPS <= BPS_DENOMINATOR /\ BPS_DENOMINATOR \in Nat \ {0}
  BY Constants
<1>2. x * SIZE_BPS \in Nat /\ x * BPS_DENOMINATOR \in Nat
  BY <1>1
<1>3. x * SIZE_BPS <= x * BPS_DENOMINATOR
  BY <1>1
<1>4. ASSUME NEW y \in Nat, y <= x * BPS_DENOMINATOR
      PROVE  y \div BPS_DENOMINATOR \in Nat /\ y \div BPS_DENOMINATOR <= x
  BY <1>1, <1>4
<1> QED BY <1>2, <1>3, <1>4

LEMMA BegunFromBook ==
  ASSUME Typed, Trade \/ SecondLeg \/ Unwind
  PROVE  \E side \in {"SOL", "USDC"}, amount \in Nat, after \in {"end", "leg2", "settle"} :
           /\ BeginSwap(side, amount, after) /\ pc \in {"trade", "leg2", "unwind"}
           /\ amount <= IF side = "SOL" THEN Book.sol ELSE Book.usdc
           /\ side = "SOL" => pc = "trade"
           /\ after = "settle" <=> pc = "unwind"
<1>1. pc \in {"trade", "leg2", "unwind"} /\ Book \in BookRecord
  BY BookUnderWork DEF Working, Deciding, Trade, SecondLeg, Unwind
<1>2. Book.sol \in Nat /\ Book.usdc \in Nat
  BY <1>1 DEF BookRecord
<1>3. CASE Trade
  <2> DEFINE size == (Book.sol * SIZE_BPS) \div BPS_DENOMINATOR
             sell == [side |-> "SOL", in |-> size, after |-> "end"]
             buy  == [side |-> "USDC", in |-> Book.usdc, after |-> "end"]
  <2>1. size \in Nat /\ size <= Book.sol
    BY <1>2, SharesFit
  <2>2. PICK t \in Trades(Book) : BeginSwap(t.side, t.in, t.after)
    BY <1>3 DEF Trade
  <2>3. t \in {sell, buy, [sell EXCEPT !.after = "leg2"]}
    BY DEF Trades
  <2>4. /\ t.side \in {"SOL", "USDC"} /\ t.after \in {"end", "leg2"}
        /\ t.in \in Nat /\ t.in <= IF t.side = "SOL" THEN Book.sol ELSE Book.usdc
    BY <1>2, <2>1, <2>3
  <2> QED BY <1>3, <2>2, <2>4 DEF Trade
<1>4. CASE SecondLeg
  BY <1>2, <1>4 DEF SecondLeg
<1>5. CASE Unwind
  BY <1>2, <1>5 DEF Unwind
<1> QED BY <1>3, <1>4, <1>5

NewBookStep(p) ==
  \/ Adopt(p)
  \/ p = task.p /\ DrawReturns

\* A new book is one.
LEMMA NewBookKeepsTypes ==
  ASSUME Typed, NEW p \in Positions, NewBookStep(p)
  PROVE  /\ \E b \in BookRecord : /\ SaveBook(p, b)
                                  /\ b.kept /\ b.sol = PRINCIPAL /\ b.usdc = 0
                                  /\ b.cycles = 0 /\ b.pending = 0
         /\ Typed'
<1>1. /\ TypeOK /\ TaskOK /\ FilesAgree /\ PendingOK /\ DrawingOK
      /\ \A q \in Positions : PendingIsOf(q)
  BY DEF Typed
<1>2. Clock \in Int
  BY <1>1 DEF TaskRecord, LoopRecord, Clock, TypeOK
<1>3. \A d \in Nat : SettleTime(d) \in Int
  BY Constants DEF SettleTime, MinOf
<1>4. \A d \in Int : SettleTime(d) \in Int
  BY Constants DEF SettleTime, MinOf
<1>5. \A t \in Int :
        LET b == NewBook(t)
        IN  /\ b \in BookRecord /\ b.kept /\ b.sol = PRINCIPAL /\ b.usdc = 0
            /\ b.cycles = 0 /\ b.pending = 0
  BY Constants DEF NewBook, BookRecord
<1> DEFINE Saves == \E b \in BookRecord : /\ SaveBook(p, b)
                                           /\ b.kept /\ b.sol = PRINCIPAL /\ b.usdc = 0
                                           /\ b.cycles = 0 /\ b.pending = 0
<1>6. ASSUME Adopt(p) PROVE Saves /\ TypeOK' /\ TaskOK'
  <2> DEFINE t == MaxOf(Clock, MinOf(MaxOf(SettleTime(drawn_at[p]), Clock + ADOPT_DELAY_SECS),
                                     DEADLINE - SETTLE_BUFFER_SECS))
  <2>1. drawn_at[p] \in Nat
    BY <1>1 DEF TypeOK
  <2>2. SettleTime(drawn_at[p]) \in Int /\ Clock + ADOPT_DELAY_SECS \in Int
        /\ DEADLINE - SETTLE_BUFFER_SECS \in Int
    BY <1>2, <1>3, <2>1, Constants
  <2>3. t \in Int
    BY <1>2, <2>2 DEF MinOf, MaxOf
  <2>4. SaveBook(p, NewBook(t))
    BY <1>6 DEF Adopt
  <2>5. NewBook(t) \in BookRecord
    BY <1>5, <2>3
  <2>6. books' \in [Positions -> BookRecord] /\ disk' \in [Positions -> BookRecord]
    BY <2>4, <2>5, SavedBooks
  <2>7. TypeOK' /\ TaskOK'
    BY <1>1, <1>6, <2>6
       DEF TaskRecord, LoopRecord, Adopt, Goto, Visit, TypeOK, TaskOK, InTick, Working, Resolving,
       Swapping, Deciding, Paying, chain
  <2> QED BY <1>5, <2>3, <2>4, <2>7
<1>7. ASSUME p = task.p, DrawReturns PROVE Saves /\ TypeOK' /\ TaskOK'
  <2> DEFINE t == SettleTime(Clock)
  <2>1. t \in Int /\ SaveBook(p, NewBook(t))
    BY <1>2, <1>4, <1>7 DEF DrawReturns
  <2>2. NewBook(t) \in BookRecord
    BY <1>5, <2>1
  <2>3. books' \in [Positions -> BookRecord] /\ disk' \in [Positions -> BookRecord]
    BY <2>1, <2>2, SavedBooks
  <2>4. loop' \in LoopRecord
    BY <1>1, <1>7, LoopFields DEF DrawReturns, Statuses
  <2>5. TypeOK' /\ TaskOK'
    BY <1>1, <1>7, <2>3, <2>4 DEF DrawReturns, Goto, TypeOK, TaskOK, InTick, Working, Resolving,
       Swapping, Deciding, Paying, chain
  <2> QED BY <1>5, <2>1, <2>5
<1>8. PICK b \in BookRecord :
        /\ SaveBook(p, b) /\ b.kept /\ b.sol = PRINCIPAL /\ b.usdc = 0
        /\ b.cycles = 0 /\ b.pending = 0 /\ TypeOK' /\ TaskOK'
  BY <1>6, <1>7 DEF NewBookStep
<1>9. pc \in {"draws", "drawing"} /\ pc' = "draws" /\ UNCHANGED swaps
  BY DEF NewBookStep, Adopt, DrawReturns, Goto, chain
<1>10. books' = disk' /\ disk'[p] = b /\ \A q \in Positions : q # p => disk'[q] = disk[q]
  BY <1>1, <1>8, <1>9 DEF SaveBook, Save, FilesAgree, TypeOK
<1>11. FilesAgree' /\ PendingOK' /\ DrawingOK' /\ \A q \in Positions : PendingIsOf(q)'
  BY <1>1, <1>8, <1>9, <1>10 DEF FilesAgree, PendingOK, DrawingOK, PendingIsOf, Working, Resolving,
     Swapping, Deciding, Paying
<1> QED BY <1>8, <1>11 DEF Typed

NoBookStep(p) ==
  \/ DropBook(p)
  \/ p = task.p /\ SettleReturns

LEMMA NoBookKeepsTypes ==
  ASSUME Typed, NEW p \in Positions, NoBookStep(p)
  PROVE  /\ SaveBook(p, NoBook) /\ Typed'
         /\ pc' = "books" /\ loop'.todo = loop.todo \ {p}
<1>1. SaveBook(p, NoBook)
  BY DEF NoBookStep, DropBook, SettleReturns
<1>2. NoBook \in BookRecord
  BY DEF NoBook, BookRecord
<1>3. books' \in [Positions -> BookRecord] /\ disk' \in [Positions -> BookRecord]
  BY <1>1, <1>2, SavedBooks
<1>4. loop' \in LoopRecord
  BY LoopFields DEF NoBookStep, DropBook, SettleReturns, Visit, Typed, TaskOK, Goto, Working,
     Paying, Statuses
<1>5. TypeOK' /\ TaskOK'
  BY <1>1, <1>3, <1>4 DEF NoBookStep, DropBook, SettleReturns, Goto, Typed, TypeOK, TaskOK,
     InTick, Working, Resolving, Swapping, Deciding, Paying, chain
<1>6. /\ TypeOK /\ TaskOK /\ FilesAgree /\ \A q \in Positions : PendingIsOf(q)
  BY DEF Typed
<1>7. loop'.todo = loop.todo \ {p} /\ pc \in {"books", "settling"}
  <2>1. CASE DropBook(p)
    BY <1>6, <2>1 DEF DropBook, Goto, Visit, TypeOK, LoopRecord
  <2>2. CASE p = task.p /\ SettleReturns
    <3>1. p \notin loop.todo /\ pc = "settling"
      BY <1>6, <2>2 DEF SettleReturns, Goto, FilesAgree, Working, Paying
    <3> QED BY <1>6, <2>2, <3>1, LoopFields DEF SettleReturns, Statuses
  <2> QED BY <2>1, <2>2 DEF NoBookStep
<1>8. pc' = "books" /\ UNCHANGED <<swaps, task>>
  BY DEF NoBookStep, DropBook, SettleReturns, Goto, chain
<1>9. books' = disk' /\ disk'[p] = NoBook /\ \A q \in Positions : q # p => disk'[q] = disk[q]
  BY <1>1, <1>6, <1>7 DEF SaveBook, Save, FilesAgree, TypeOK, Working, Paying
<1>10. FilesAgree' /\ PendingOK' /\ DrawingOK'
  <2>1. \A q \in loop.todo : disk[q].kept
    BY <1>6, <1>7 DEF FilesAgree, Working, Paying
  <2> QED
    BY <1>6, <1>7, <1>8, <1>9, <2>1 DEF FilesAgree, PendingOK, DrawingOK, Working, Resolving,
       Swapping, Deciding, Paying, TypeOK, LoopRecord
<1>11. \A q \in Positions : PendingIsOf(q)'
  BY <1>6, <1>8, <1>9 DEF PendingIsOf, NoBook
<1> QED BY <1>1, <1>5, <1>7, <1>8, <1>10, <1>11 DEF Typed

Sending(p) == SendSettle \/ SettleErrors \/ SendDraw(p) \/ DrawErrors

LEMMA SendingKeepsTypes ==
  ASSUME Typed, NEW p \in Positions, Sending(p)
  PROVE  /\ Typed' /\ pc \in InTick /\ loop'.seen = loop.seen
         /\ UNCHANGED <<position, swaps, books, disk>>
<1> USE DEF InTick, Working, Resolving, Swapping, Deciding, Paying
<1>1. /\ TypeOK /\ TaskOK /\ FilesAgree /\ PendingOK /\ DrawingOK
      /\ \A q \in Positions : PendingIsOf(q)
  BY DEF Typed
<1>2. ASSUME SendSettle PROVE TypeOK' /\ TaskOK'
  <2>1. task' = [task EXCEPT !.sent = now] /\ task.p \in Positions /\ now \in Nat
    BY <1>1, <1>2 DEF SendSettle, Goto, TaskOK, TypeOK
  <2>2. SettleTx' \in [p : Positions, amount : Int, emergency : BOOLEAN, at : Nat]
    BY <1>1, <2>1 DEF TaskRecord, LoopRecord, SettleTx, TypeOK
  <2> QED BY <1>1, <1>2, <2>1, <2>2
             DEF TaskRecord, LoopRecord, SendSettle, Goto, TypeOK, TaskOK, files
<1>3. ASSUME SettleErrors PROVE TypeOK' /\ TaskOK'
  BY <1>1, <1>3 DEF SettleErrors, TypeOK, TaskOK, Goto, files
<1>4. ASSUME SendDraw(p) PROVE TypeOK' /\ TaskOK'
  <2>1. task' = [task EXCEPT !.p = p, !.sent = now] /\ now \in Nat
    BY <1>1, <1>4 DEF SendDraw, TypeOK
  <2>2. DrawTx' \in [p : Positions, at : Nat] /\ task'.p = p
    BY <1>1, <2>1 DEF DrawTx, TypeOK
  <2> QED BY <1>1, <1>4, <2>1, <2>2
             DEF TaskRecord, LoopRecord, SendDraw, Goto, Visit, TypeOK, TaskOK, files
<1>5. ASSUME DrawErrors PROVE TypeOK' /\ TaskOK'
  BY <1>1, <1>5 DEF DrawErrors, TypeOK, TaskOK, Goto, files
<1>6. UNCHANGED <<position, swaps, books, disk>> /\ pc \in InTick
      /\ loop'.seen = loop.seen /\ loop'.todo \subseteq loop.todo
  BY <1>1 DEF Sending, SendSettle, SettleErrors, SendDraw, DrawErrors, Goto, Visit, TypeOK,
     LoopRecord, files
<1>7. FilesAgree' /\ PendingOK' /\ DrawingOK'
  <2>1. CASE SendSettle \/ SettleErrors
    BY <1>1, <1>6, <2>1
       DEF SendSettle, SettleErrors, Goto, FilesAgree, PendingOK, DrawingOK, TypeOK, TaskRecord
  <2>2. CASE SendDraw(p)
    <3>1. pc' = "drawing" /\ pc = "draws" /\ task'.p = p /\ loop.seen[p] = "open"
      BY <1>1, <2>2 DEF SendDraw, Goto, TypeOK, TaskRecord
    <3> QED BY <1>1, <1>6, <3>1 DEF FilesAgree, PendingOK, DrawingOK
  <2>3. CASE DrawErrors
    BY <1>1, <1>6, <2>3 DEF DrawErrors, Goto, FilesAgree, PendingOK, DrawingOK
  <2> QED BY <2>1, <2>2, <2>3 DEF Sending
<1>8. \A q \in Positions : PendingIsOf(q)'
  BY <1>1, <1>6 DEF PendingIsOf
<1> QED BY <1>2, <1>3, <1>4, <1>5, <1>6, <1>7, <1>8 DEF Sending, Typed
-----------------------------------------------------------------------------
(* The invariant is kept *)

\* Steps that move the runner through its lists leave the chain and the files alone.
ListStep ==
  \/ StartTick \/ NextPass \/ EndTick
  \/ \E p \in Positions : NotDueYet(p) \/ TakeBook(p) \/ PassOver(p)

LEMMA ListStepKeepsTypes ==
  ASSUME Typed, ListStep
  PROVE  Typed' /\ UNCHANGED <<now, chain, files>>
<1> USE DEF TaskOK, InTick, Working, Resolving, Swapping, Deciding, Paying
<1>1. /\ TypeOK /\ TaskOK /\ FilesAgree /\ PendingOK /\ DrawingOK
      /\ \A p \in Positions : PendingIsOf(p)
  BY DEF Typed
<1>2. /\ loop' \in LoopRecord /\ task' \in TaskRecord
      /\ UNCHANGED <<now, chain, files>>
      /\ pc' \in InTick \cup {"idle"} /\ (pc' \in Working \cup {"drawing"} => task'.p \in Positions)
  <2>1. CASE StartTick
    <3>1. PICK skew \in ClockErrors, partial \in BOOLEAN, missed \in SUBSET Missable :
            loop' = [pass |-> "due", todo |-> Kept, skew |-> skew, partial |-> partial,
                     seen |-> [p \in Positions |-> IF partial /\ ~books[p].kept THEN "absent"
                                                   ELSE IF p \in missed THEN "open"
                                                   ELSE position[p]]]
      BY <2>1 DEF StartTick
    <3>2. \A p \in Positions : loop'.seen[p] \in Statuses
      BY <1>1, <3>1 DEF TypeOK, Statuses
    <3>3. loop' \in LoopRecord
      BY <3>1, <3>2, Constants DEF Kept, LoopRecord
    <3> QED BY <1>1, <2>1, <3>3 DEF StartTick, Goto, TypeOK
  <2>2. CASE NextPass
    <3>1. NoLoop \in LoopRecord /\ NoTask \in TaskRecord
      BY DEF NoLoop, NoTask, LoopRecord, TaskRecord, Statuses
    <3>2. /\ [loop EXCEPT !.pass = "trade", !.todo = Kept] \in LoopRecord
          /\ [loop EXCEPT !.pass = "draw",
                          !.todo = {p \in Positions : loop.seen[p] # "absent"}] \in LoopRecord
      BY <1>1 DEF TypeOK, LoopRecord, Kept
    <3> QED BY <1>1, <2>2, <3>1, <3>2 DEF NextPass, TypeOK
  <2>3. CASE EndTick
    <3>1. NoLoop \in LoopRecord /\ NoTask \in TaskRecord
      BY DEF NoLoop, NoTask, LoopRecord, TaskRecord, Statuses
    <3> QED BY <2>3, <3>1 DEF EndTick, Goto
  <2>4. ASSUME NEW p \in Positions, NotDueYet(p) \/ TakeBook(p) \/ PassOver(p)
        PROVE  /\ loop' \in LoopRecord /\ task' \in TaskRecord
               /\ UNCHANGED <<now, chain, files>>
               /\ pc' \in InTick \cup {"idle"}
               /\ pc' \in Working \cup {"drawing"} => task'.p \in Positions
    <3>1. loop' \in LoopRecord
      BY <1>1, <2>4, LoopFields DEF NotDueYet, TakeBook, PassOver, Visit, Statuses
    <3>2. CASE TakeBook(p)
      <4>1. task' \in TaskRecord /\ task'.p = p
        BY <3>2 DEF TakeBook, TaskRecord
      <4> QED BY <3>1, <3>2, <4>1 DEF TakeBook, Goto
    <3>3. CASE ~TakeBook(p)
      BY <1>1, <2>4, <3>1, <3>3 DEF NotDueYet, PassOver, Goto, TypeOK
    <3> QED BY <3>2, <3>3
  <2> QED BY <2>1, <2>2, <2>3, <2>4 DEF ListStep
<1>3. TypeOK' /\ TaskOK' /\ UNCHANGED <<now, chain, files>>
  BY <1>1, <1>2 DEF TypeOK, TaskOK, chain, files
<1>4. FilesAgree' /\ PendingOK' /\ DrawingOK'
  <2>1. CASE StartTick
    BY <1>1, <1>3, <2>1 DEF StartTick, Goto, FilesAgree, PendingOK, DrawingOK, Kept, files
  <2>2. CASE NextPass
    <3>1. loop.pass = "due" => loop'.todo = Kept
      BY <1>1, <2>2 DEF NextPass, TypeOK, LoopRecord
    <3> QED BY <1>1, <1>3, <2>2, <3>1 DEF NextPass, FilesAgree, PendingOK, DrawingOK, Kept, files
  <2>3. CASE EndTick
    BY <1>1, <1>3, <2>3 DEF EndTick, Goto, FilesAgree, PendingOK, DrawingOK, files
  <2>4. ASSUME NEW p \in Positions, NotDueYet(p) \/ PassOver(p)
        PROVE  FilesAgree' /\ PendingOK' /\ DrawingOK'
    <3>1. loop'.todo = loop.todo \ {p}
      BY <1>1, <2>4 DEF NotDueYet, PassOver, Visit, TypeOK, LoopRecord
    <3> QED
      BY <1>1, <1>3, <2>4, <3>1
         DEF NotDueYet, PassOver, Goto, FilesAgree, PendingOK, DrawingOK, files
  <2>5. ASSUME NEW p \in Positions, TakeBook(p)
        PROVE  FilesAgree' /\ PendingOK' /\ DrawingOK'
    <3>1. loop'.todo = loop.todo \ {p} /\ p \in loop.todo /\ task'.p = p
      BY <1>1, <2>5 DEF TakeBook, Visit, TypeOK, LoopRecord
    <3> QED
      BY <1>1, <1>3, <2>5, <3>1 DEF TakeBook, Goto, FilesAgree, PendingOK, DrawingOK, files
  <2> QED BY <2>1, <2>2, <2>3, <2>4, <2>5 DEF ListStep
<1>5. \A p \in Positions : PendingIsOf(p)'
  BY <1>1, <1>3 DEF PendingIsOf, chain, files
<1> QED BY <1>3, <1>4, <1>5 DEF Typed

LEMMA ListStepKeepsSwaps ==
  ASSUME ~SCANS_LAG, SwapsInv, ListStep
  PROVE  SwapsInv'
<1> USE DEF InTick, Working, Resolving, Swapping, Deciding, Paying
<1>1. /\ TypeOK' /\ TaskOK' /\ FilesAgree' /\ PendingOK' /\ DrawingOK'
      /\ UNCHANGED <<now, chain, files>>
  BY SwapsTyped, ListStepKeepsTypes DEF Typed
<1>2. /\ TypeOK /\ TaskOK /\ FilesAgree /\ PendingOK /\ DrawingOK
      /\ \A p \in Positions : BookOK(p) /\ SeenOK(p)
      /\ \A s \in DOMAIN swaps : SwapOK(s)
  BY DEF SwapsInv
<1>3. \A p \in Positions : SeenOK(p)'
  <2>1. CASE StartTick
    <3> SUFFICES ASSUME NEW p \in Positions PROVE SeenOK(p)'
      OBVIOUS
    <3>1. loop'.seen[p] = IF loop'.partial /\ ~books[p].kept THEN "absent" ELSE position[p]
      BY <2>1 DEF StartTick, Missable
    <3>2. books = disk
      BY <1>2, <2>1 DEF StartTick, Goto, FilesAgree
    <3>3. BookOK(p) /\ \A s \in DOMAIN swaps : swaps[s].of = p => SwapOK(s)
      BY <1>2
    <3>4. 0 \notin DOMAIN swaps
      BY <1>2 DEF TypeOK
    <3>5. disk[p].kept => loop'.seen[p] = position[p] /\ position[p] \in Drawn
      BY <3>1, <3>2, <3>3 DEF BookOK
    <3>6. ~disk[p].kept => disk[p].pending = 0
      BY <3>3 DEF BookOK, NoBook
    <3>7. loop'.seen[p] \in {"absent", position[p]}
      BY <3>1
    <3>8. loop'.seen[p] = "open" => ~disk[p].kept /\ \A s \in DOMAIN swaps : swaps[s].of # p
      BY <3>3, <3>5, <3>7 DEF SwapOK, Drawn
    <3>9. loop'.seen[p] = "trading" /\ ~disk[p].kept =>
            \A s \in DOMAIN swaps : swaps[s].of = p => swaps[s].status # "sent"
      BY <3>3, <3>4, <3>6, <3>7 DEF SwapOK, Closed
    <3> QED BY <1>1, <3>5, <3>7, <3>8, <3>9 DEF SeenOK, Drawn, Closed, chain, files
  <2>2. CASE ~StartTick
    <3>1. loop'.seen = loop.seen \/ pc' = "idle"
      BY <1>2, <2>2 DEF ListStep, NextPass, EndTick, Goto, NotDueYet, TakeBook, PassOver, Visit,
         TypeOK, LoopRecord
    <3>2. pc \in InTick
      BY <2>2 DEF ListStep, NextPass, EndTick, Goto, NotDueYet, TakeBook, PassOver
    <3> QED BY <1>1, <1>2, <3>1, <3>2 DEF SeenOK, chain, files
  <2> QED BY <2>1, <2>2
<1>4. /\ \A p \in Positions : BookOK(p)'
      /\ \A s \in DOMAIN swaps' : SwapOK(s)'
      /\ OneSwapAtATime'
  BY <1>1, <1>2 DEF SwapsInv, BookOK, SwapOK, OneSwapAtATime, chain, files
<1> QED BY <1>1, <1>3, <1>4 DEF SwapsInv

LEMMA SwapNumbers ==
  ASSUME Typed
  PROVE  0 \notin DOMAIN swaps /\ \A s \in DOMAIN swaps : swaps[s] \in Swap
BY DEF Typed, TypeOK

\* Keeping, recording or clearing the book under work leaves no swap on its way unbooked.
LEMMA BookStepKeepsSwaps ==
  ASSUME SwapsInv, BookStep
  PROVE  SwapsInv'
<1> USE DEF InTick, Working, Resolving, Swapping, Deciding, Paying
<1>1. /\ TypeOK /\ TaskOK /\ FilesAgree /\ PendingOK /\ DrawingOK
      /\ \A p \in Positions : BookOK(p) /\ SeenOK(p)
      /\ \A s \in DOMAIN swaps : SwapOK(s)
      /\ OneSwapAtATime
  BY DEF SwapsInv
<1>2. /\ task.p \in Positions /\ Book = disk[task.p] /\ Book \in BookRecord /\ Book.kept
      /\ pc \in Resolving \cup Swapping =>
           Book.pending \in DOMAIN swaps /\ Pending \in Swap /\ Pending.of = task.p
  BY SwapsTyped, BookUnderWork DEF BookStep
<1>3. /\ TypeOK' /\ TaskOK' /\ FilesAgree' /\ PendingOK' /\ DrawingOK' /\ task'.p = task.p
  BY SwapsTyped, BookStepKeepsTypes DEF Typed
<1>4. UNCHANGED <<now, position, swaps, loop>> /\ pc \in Working /\ pc' \in Working \cup {"books"}
  BY DEF BookStep, chain
<1>5. CASE KeepsBook
  <2>1. UNCHANGED <<disk, books>>
    BY <1>5 DEF KeepsBook, files
  <2>2. \A p \in Positions : BookOK(p)' /\ SeenOK(p)'
    BY <1>1, <1>4, <2>1 DEF BookOK, SeenOK
  <2>3. (\A s \in DOMAIN swaps' : SwapOK(s)') /\ OneSwapAtATime'
    BY <1>1, <1>4, <2>1 DEF SwapOK, OneSwapAtATime
  <2> QED BY <1>3, <2>2, <2>3 DEF SwapsInv
<1>6. CASE RecordsBook \/ ClearsBook
  <2> DEFINE p0 == task.p
  <2>1. PICK b \in BookRecord : SaveBook(p0, b) /\ b.kept /\ b.pending = 0
    BY <1>4, <1>6, SwapsTyped, BookStepSaves
  <2>2. /\ disk'[p0] = b /\ \A q \in Positions : q # p0 => disk'[q] = disk[q]
        /\ \A q \in Positions : disk'[q].kept = disk[q].kept
    BY <1>1, <1>2, <1>4, <2>1 DEF TypeOK, SaveBook, Save, FilesAgree
  <2>3. swaps[disk[p0].pending].status # "sent"
    BY <1>2, <1>6 DEF RecordsBook, ClearsBook, Pending
  <2>4. \A p \in Positions : BookOK(p)' /\ SeenOK(p)'
    <3> SUFFICES ASSUME NEW p \in Positions PROVE BookOK(p)' /\ SeenOK(p)'
      OBVIOUS
    <3>1. CASE p = p0
      BY <1>1, <1>2, <1>4, <2>1, <2>2, <3>1 DEF BookOK, SeenOK
    <3>2. CASE p # p0
      BY <1>1, <1>4, <2>2, <3>2 DEF BookOK, SeenOK
    <3> QED BY <3>1, <3>2
  <2>5. \A s \in DOMAIN swaps' : SwapOK(s)'
    <3> SUFFICES ASSUME NEW s \in DOMAIN swaps PROVE SwapOK(s)'
      BY <1>4
    <3>1. swaps[s].of \in Positions
      BY SwapsTyped, SwapNumbers DEF Swap
    <3> QED BY <1>1, <1>2, <1>4, <2>2, <2>3, <3>1 DEF SwapOK
  <2>6. OneSwapAtATime'
    BY <1>1, <1>4 DEF OneSwapAtATime
  <2> QED BY <1>3, <2>4, <2>5, <2>6 DEF SwapsInv
<1> QED BY <1>5, <1>6 DEF BookStep

\* The swap that is sent is the pending one, and the only one of its position.
LEMMA SendsSwapKeepsSwaps ==
  ASSUME SwapsInv, SendsSwap
  PROVE  SwapsInv'
<1> USE DEF InTick, Working, Resolving, Swapping, Deciding, Paying
<1>1. /\ TypeOK /\ TaskOK /\ FilesAgree /\ PendingOK /\ DrawingOK
      /\ \A p \in Positions : BookOK(p) /\ SeenOK(p)
      /\ \A s \in DOMAIN swaps : SwapOK(s)
      /\ OneSwapAtATime
  BY DEF SwapsInv
<1> DEFINE n == Book.pending
<1>2. /\ task.p \in Positions /\ Book = disk[task.p] /\ Book \in BookRecord /\ Book.kept
      /\ n \in DOMAIN swaps /\ swaps[n] \in Swap /\ swaps[n].of = task.p
  BY SwapsTyped, BookUnderWork DEF SendsSwap, Pending
<1>3. TypeOK' /\ TaskOK' /\ FilesAgree' /\ PendingOK' /\ DrawingOK'
  BY SwapsTyped, SendsSwapKeepsTypes DEF Typed
<1>4. UNCHANGED <<position, disk, books, loop, task>> /\ pc = "send" /\ pc' \in {"confirm", "books"}
  BY DEF SendsSwap, files
<1>5. /\ DOMAIN swaps' = DOMAIN swaps
      /\ swaps'[n] = [swaps[n] EXCEPT !.status = "sent"]
      /\ \A s \in DOMAIN swaps : s # n => swaps'[s] = swaps[s]
  BY SwapsTyped, SendsSwapKeepsTypes
<1> HIDE DEF n
<1>6. /\ swaps'[n].of = swaps[n].of /\ swaps'[n].side = swaps[n].side
      /\ swaps'[n].in = swaps[n].in /\ swaps'[n].status = "sent"
  BY <1>2, <1>5 DEF Swap
<1>7. \A s \in DOMAIN swaps : /\ swaps'[s].of = swaps[s].of /\ swaps'[s].side = swaps[s].side
                              /\ swaps'[s].in = swaps[s].in
                              /\ swaps'[s].status = "sent" => swaps[s].status = "sent" \/ s = n
  BY <1>5, <1>6
<1>8. \A p \in Positions : BookOK(p)'
  <2> SUFFICES ASSUME NEW p \in Positions PROVE BookOK(p)'
    OBVIOUS
  <2> QED BY <1>1, <1>4, <1>5, <1>7 DEF BookOK
<1>9. \A p \in Positions : SeenOK(p)'
  <2> SUFFICES ASSUME NEW p \in Positions PROVE SeenOK(p)'
    OBVIOUS
  <2> QED BY <1>1, <1>2, <1>4, <1>5, <1>7 DEF SeenOK
<1>10. \A s \in DOMAIN swaps' : SwapOK(s)'
  BY <1>1, <1>2, <1>4, <1>5, <1>7 DEF SwapOK, n
<1>11. OneSwapAtATime'
  <2> SUFFICES ASSUME NEW s1 \in DOMAIN swaps, NEW s2 \in DOMAIN swaps,
                      swaps'[s1].status = "sent", swaps'[s2].status = "sent",
                      swaps'[s1].of = swaps'[s2].of
               PROVE  s1 = s2
    BY <1>5 DEF OneSwapAtATime
  <2>1. \A s \in DOMAIN swaps : swaps[s].status = "sent" /\ swaps[s].of = task.p => s = n
    BY <1>1, <1>2 DEF SwapOK, n
  <2> QED BY <1>1, <1>2, <1>7, <2>1 DEF OneSwapAtATime
<1> QED BY <1>3, <1>8, <1>9, <1>10, <1>11 DEF SwapsInv

\* A swap begins only when its position has none on its way.
LEMMA BegunSwapKeepsSwaps ==
  ASSUME SwapsInv, Trade \/ SecondLeg \/ Unwind
  PROVE  SwapsInv'
<1> USE DEF InTick, Working, Resolving, Swapping, Deciding, Paying
<1>1. /\ TypeOK /\ TaskOK /\ FilesAgree /\ PendingOK /\ DrawingOK
      /\ \A p \in Positions : BookOK(p) /\ SeenOK(p)
      /\ \A s \in DOMAIN swaps : SwapOK(s)
      /\ OneSwapAtATime
  BY DEF SwapsInv
<1>2. PICK side \in {"SOL", "USDC"}, amount \in Nat, after \in {"end", "leg2", "settle"} :
        /\ BeginSwap(side, amount, after) /\ pc \in {"trade", "leg2", "unwind"}
        /\ amount <= IF side = "SOL" THEN Book.sol ELSE Book.usdc
  BY SwapsTyped, BegunFromBook
<1>3. task.p \in Positions /\ Book = disk[task.p] /\ Book \in BookRecord /\ Book.kept
  BY <1>2, SwapsTyped, BookUnderWork
<1> DEFINE p0 == task.p
           n == Len(swaps) + 1
           new == [of |-> p0, side |-> side, in |-> amount, status |-> "signed"]
           b == [Book EXCEPT !.pending = n]
<1>4. /\ n \in Nat \ {0} /\ n \notin DOMAIN swaps
      /\ DOMAIN swaps' = DOMAIN swaps \cup {n}
      /\ swaps'[n] = new /\ \A s \in DOMAIN swaps : swaps'[s] = swaps[s]
      /\ disk' = [disk EXCEPT ![p0] = b] /\ books' = [books EXCEPT ![p0] = b]
      /\ TypeOK' /\ TaskOK' /\ FilesAgree' /\ PendingOK' /\ DrawingOK'
  BY <1>2, SwapsTyped, BegunSwapKeepsTypes DEF Typed
<1>5. /\ UNCHANGED <<position, loop>> /\ pc' = "send" /\ task'.p = p0 /\ Book.pending = 0
  BY <1>1, <1>2 DEF BeginSwap, TypeOK, TaskRecord
<1>6. /\ b.pending = n /\ b.kept /\ b.sol = Book.sol /\ b.usdc = Book.usdc
  BY <1>3 DEF BookRecord
<1>7. /\ disk'[p0] = b /\ \A q \in Positions : q # p0 => disk'[q] = disk[q]
  BY <1>1, <1>3, <1>4 DEF TypeOK
<1>8. new.of = p0 /\ new.side = side /\ new.in = amount /\ new.status = "signed"
  OBVIOUS
<1> HIDE DEF b, new, n
<1>9. \A p \in Positions : BookOK(p)'
  <2> SUFFICES ASSUME NEW p \in Positions PROVE BookOK(p)'
    OBVIOUS
  <2>1. CASE p = p0
    BY <1>1, <1>2, <1>3, <1>4, <1>5, <1>6, <1>7, <1>8, <2>1 DEF BookOK
  <2>2. CASE p # p0
    BY <1>1, <1>4, <1>5, <1>7, <2>2 DEF BookOK
  <2> QED BY <2>1, <2>2
<1>10. \A p \in Positions : SeenOK(p)'
  <2> SUFFICES ASSUME NEW p \in Positions PROVE SeenOK(p)'
    OBVIOUS
  <2>1. CASE p = p0
    BY <1>1, <1>2, <1>3, <1>5, <1>6, <1>7, <2>1 DEF SeenOK
  <2>2. CASE p # p0
    BY <1>1, <1>2, <1>4, <1>5, <1>7, <1>8, <2>2 DEF SeenOK
  <2> QED BY <2>1, <2>2
<1>11. \A s \in DOMAIN swaps : swaps[s].of = p0 => swaps[s].status # "sent"
  BY <1>1, <1>3, <1>5, SwapsTyped, SwapNumbers DEF SwapOK
<1>12. \A s \in DOMAIN swaps' : SwapOK(s)'
  <2> SUFFICES ASSUME NEW s \in DOMAIN swaps' PROVE SwapOK(s)'
    OBVIOUS
  <2>1. CASE s = n
    BY <1>1, <1>3, <1>4, <1>5, <1>8, <2>1 DEF SwapOK, BookOK
  <2>2. CASE s \in DOMAIN swaps
    BY <1>1, <1>4, <1>5, <1>7, <1>11, <2>2, SwapsTyped, SwapNumbers DEF SwapOK, Swap
  <2> QED BY <1>4, <2>1, <2>2
<1>13. OneSwapAtATime'
  BY <1>1, <1>4, <1>8 DEF OneSwapAtATime
<1> QED BY <1>4, <1>9, <1>10, <1>12, <1>13 DEF SwapsInv

\* A book is made only for a position that has none and no swap on its way.
LEMMA NewBookKeepsSwaps ==
  ASSUME SwapsInv, NEW p \in Positions, NewBookStep(p)
  PROVE  SwapsInv'
<1> USE DEF InTick, Working, Resolving, Swapping, Deciding, Paying
<1>1. /\ TypeOK /\ TaskOK /\ FilesAgree /\ PendingOK /\ DrawingOK
      /\ \A q \in Positions : BookOK(q) /\ SeenOK(q)
      /\ \A s \in DOMAIN swaps : SwapOK(s)
      /\ OneSwapAtATime
  BY DEF SwapsInv
<1>2. TypeOK' /\ TaskOK' /\ FilesAgree' /\ PendingOK' /\ DrawingOK'
  BY SwapsTyped, NewBookKeepsTypes DEF Typed
<1>3. PICK b \in BookRecord : SaveBook(p, b) /\ b.kept /\ b.pending = 0
  BY SwapsTyped, NewBookKeepsTypes
<1>4. /\ pc \in {"draws", "drawing"} /\ pc' = "draws" /\ UNCHANGED <<position, swaps, task>>
      /\ loop'.seen[p] = "trading"
      /\ \A q \in Positions : q # p => loop'.seen[q] = loop.seen[q]
  <2>1. CASE Adopt(p)
    BY <1>1, <2>1 DEF Adopt, Goto, Visit, chain, TypeOK, LoopRecord
  <2>2. CASE p = task.p /\ DrawReturns
    <3>1. loop'.seen = [loop.seen EXCEPT ![p] = "trading"]
      BY <1>1, <2>2, LoopFields DEF DrawReturns, Statuses
    <3> QED BY <1>1, <2>2, <3>1 DEF DrawReturns, Goto, chain, TypeOK, LoopRecord
  <2> QED BY <2>1, <2>2 DEF NewBookStep
<1>5. books' = disk' /\ disk'[p] = b /\ \A q \in Positions : q # p => disk'[q] = disk[q]
  BY <1>1, <1>3, <1>4 DEF SaveBook, Save, FilesAgree, TypeOK
<1>6. \A s \in DOMAIN swaps : swaps[s].of = p => swaps[s].status # "sent"
  <2>1. CASE Adopt(p)
    BY <1>1, <1>4, <2>1 DEF Adopt, SeenOK, FilesAgree
  <2>2. CASE p = task.p /\ DrawReturns
    BY <1>1, <2>2 DEF DrawReturns, Goto, DrawingOK, SeenOK
  <2> QED BY <2>1, <2>2 DEF NewBookStep
<1>7. position[p] \in Drawn
  <2>1. CASE Adopt(p)
    BY <1>1, <1>4, <2>1 DEF Adopt, SeenOK
  <2>2. CASE p = task.p /\ DrawReturns
    BY <2>2 DEF DrawReturns, Drawn
  <2> QED BY <2>1, <2>2 DEF NewBookStep
<1>8. \A q \in Positions : BookOK(q)' /\ SeenOK(q)'
  <2> SUFFICES ASSUME NEW q \in Positions PROVE BookOK(q)' /\ SeenOK(q)'
    OBVIOUS
  <2>1. CASE q = p
    BY <1>3, <1>4, <1>5, <1>7, <2>1 DEF BookOK, SeenOK
  <2>2. CASE q # p
    BY <1>1, <1>4, <1>5, <2>2 DEF BookOK, SeenOK
  <2> QED BY <2>1, <2>2
<1>9. \A s \in DOMAIN swaps' : SwapOK(s)'
  <2> SUFFICES ASSUME NEW s \in DOMAIN swaps PROVE SwapOK(s)'
    BY <1>4
  <2> QED BY <1>1, <1>4, <1>5, <1>6, SwapsTyped, SwapNumbers DEF SwapOK, Swap
<1>10. OneSwapAtATime'
  BY <1>1, <1>4 DEF OneSwapAtATime
<1> QED BY <1>2, <1>8, <1>9, <1>10 DEF SwapsInv

\* A book is dropped only when its position was closed.
LEMMA NoBookKeepsSwaps ==
  ASSUME SwapsInv, NEW p \in Positions, NoBookStep(p)
  PROVE  SwapsInv'
<1> USE DEF InTick, Working, Resolving, Swapping, Deciding, Paying
<1>1. /\ TypeOK /\ TaskOK /\ FilesAgree /\ PendingOK /\ DrawingOK
      /\ \A q \in Positions : BookOK(q) /\ SeenOK(q)
      /\ \A s \in DOMAIN swaps : SwapOK(s)
      /\ OneSwapAtATime
  BY DEF SwapsInv
<1>2. /\ TypeOK' /\ TaskOK' /\ FilesAgree' /\ PendingOK' /\ DrawingOK'
      /\ SaveBook(p, NoBook) /\ loop'.todo = loop.todo \ {p}
  BY SwapsTyped, NoBookKeepsTypes DEF Typed
<1>3. /\ pc \in {"books", "settling"} /\ pc' = "books" /\ UNCHANGED <<position, swaps, task>>
      /\ loop'.seen[p] \notin {"open", "trading"}
      /\ \A q \in Positions : q # p => loop'.seen[q] = loop.seen[q]
      /\ position[p] \in Closed
  <2>1. CASE DropBook(p)
    <3>1. p \in loop.todo /\ loop' = [loop EXCEPT !.todo = @ \ {p}] /\ loop.seen[p] # "trading"
          /\ pc = "books"
      BY <2>1 DEF DropBook, Visit, Goto
    <3>2. disk[p].kept
      BY <1>1, <3>1 DEF FilesAgree
    <3>3. position[p] \in Closed /\ loop.seen[p] # "open"
      BY <1>1, <3>1, <3>2 DEF SeenOK
    <3> QED BY <1>1, <2>1, <3>1, <3>3 DEF DropBook, Goto, chain, TypeOK, LoopRecord
  <2>2. CASE p = task.p /\ SettleReturns
    <3>1. loop'.seen = [loop.seen EXCEPT ![p] = "settled"]
      BY <1>1, <2>2, LoopFields DEF SettleReturns, Statuses
    <3> QED BY <1>1, <2>2, <3>1 DEF SettleReturns, Goto, chain, TypeOK, LoopRecord, Closed
  <2> QED BY <2>1, <2>2 DEF NoBookStep
<1>4. books' = disk' /\ disk'[p] = NoBook /\ \A q \in Positions : q # p => disk'[q] = disk[q]
  BY <1>1, <1>2, <1>3 DEF SaveBook, Save, FilesAgree, TypeOK
<1>5. NoBook.pending = 0 /\ ~NoBook.kept
  BY DEF NoBook
<1>6. \A q \in Positions : BookOK(q)' /\ SeenOK(q)'
  <2> SUFFICES ASSUME NEW q \in Positions PROVE BookOK(q)' /\ SeenOK(q)'
    OBVIOUS
  <2>1. CASE q = p
    BY <1>3, <1>4, <1>5, <2>1 DEF BookOK, SeenOK
  <2>2. CASE q # p
    BY <1>1, <1>3, <1>4, <2>2 DEF BookOK, SeenOK
  <2> QED BY <2>1, <2>2
<1>7. \A s \in DOMAIN swaps' : SwapOK(s)'
  <2> SUFFICES ASSUME NEW s \in DOMAIN swaps PROVE SwapOK(s)'
    BY <1>3
  <2> QED BY <1>1, <1>3, <1>4, <1>5, SwapsTyped, SwapNumbers DEF SwapOK, Swap
<1>8. OneSwapAtATime'
  BY <1>1, <1>3 DEF OneSwapAtATime
<1> QED BY <1>2, <1>6, <1>7, <1>8 DEF SwapsInv

\* Sending draws and settlements, or learning that they failed, changes no book.
LEMMA SendingKeepsSwaps ==
  ASSUME SwapsInv, NEW p \in Positions, Sending(p)
  PROVE  SwapsInv'
<1>1. /\ \A q \in Positions : BookOK(q) /\ SeenOK(q)
      /\ \A s \in DOMAIN swaps : SwapOK(s)
      /\ OneSwapAtATime
  BY DEF SwapsInv
<1>2. /\ TypeOK' /\ TaskOK' /\ FilesAgree' /\ PendingOK' /\ DrawingOK'
      /\ pc \in InTick /\ loop'.seen = loop.seen /\ UNCHANGED <<position, swaps, books, disk>>
  BY SwapsTyped, SendingKeepsTypes DEF Typed
<1>3. \A q \in Positions : BookOK(q)' /\ SeenOK(q)'
  BY <1>1, <1>2 DEF BookOK, SeenOK
<1>4. (\A s \in DOMAIN swaps' : SwapOK(s)') /\ OneSwapAtATime'
  BY <1>1, <1>2 DEF SwapOK, OneSwapAtATime
<1> QED BY <1>2, <1>3, <1>4 DEF SwapsInv

\* A process that starts finds its books in the file, or none at all.
LEMMA RestartKeepsTypes ==
  ASSUME Typed, Restart \/ Exit \/ SkipTick
  PROVE  /\ Typed' /\ UNCHANGED <<now, chain>> /\ pc' \in {"idle", "down"}
         /\ UNCHANGED disk \/ (STATE_MAY_BE_LOST /\ disk' = NoBooks /\ Fault /\ pc = "down")
<1> USE DEF InTick, Working, Resolving, Swapping, Deciding, Paying
<1>1. /\ TypeOK /\ TaskOK /\ FilesAgree /\ PendingOK /\ DrawingOK
      /\ \A q \in Positions : PendingIsOf(q)
  BY DEF Typed
<1>2. UNCHANGED <<now, chain>> /\ pc' \in {"idle", "down"}
  BY DEF Restart, Exit, SkipTick, Goto
<1>3. UNCHANGED disk \/ (STATE_MAY_BE_LOST /\ disk' = NoBooks /\ Fault /\ pc = "down")
  BY <1>1 DEF Restart, Exit, SkipTick, Goto, FilesAgree, files
<1>4. pc' = "idle" => books' = disk'
  BY <1>1 DEF Restart, Exit, SkipTick, Goto, FilesAgree, files
<1>5. NoLoop \in LoopRecord /\ NoTask \in TaskRecord
  BY DEF NoLoop, NoTask, LoopRecord, TaskRecord, Statuses
<1>6. NoBooks \in [Positions -> BookRecord] /\ \A q \in Positions : NoBooks[q].pending = 0
  BY DEF NoBooks, NoBook, BookRecord
<1>7. /\ loop' \in LoopRecord /\ task' \in TaskRecord
      /\ books' \in [Positions -> BookRecord] /\ disk' \in [Positions -> BookRecord]
  BY <1>1, <1>3, <1>5, <1>6 DEF Restart, Exit, SkipTick, files, TypeOK
<1>8. TypeOK' /\ TaskOK' /\ FilesAgree' /\ PendingOK' /\ DrawingOK'
  BY <1>1, <1>2, <1>4, <1>7 DEF TypeOK, TaskOK, FilesAgree, PendingOK, DrawingOK, chain
<1>9. \A q \in Positions : PendingIsOf(q)'
  BY <1>1, <1>2, <1>3, <1>6 DEF PendingIsOf, chain
<1> QED BY <1>2, <1>3, <1>8, <1>9 DEF Typed

\* A process that starts finds its books in the file; one that ends lost nothing.
LEMMA RestartKeepsSwaps ==
  ASSUME ~STATE_MAY_BE_LOST, SwapsInv, Restart \/ Exit \/ SkipTick
  PROVE  SwapsInv' /\ UNCHANGED <<now, chain, disk>>
<1>1. /\ \A q \in Positions : BookOK(q) /\ SeenOK(q)
      /\ \A s \in DOMAIN swaps : SwapOK(s)
      /\ OneSwapAtATime
  BY DEF SwapsInv
<1>2. /\ TypeOK' /\ TaskOK' /\ FilesAgree' /\ PendingOK' /\ DrawingOK'
      /\ UNCHANGED <<now, chain, disk>> /\ pc' \in {"idle", "down"}
  BY SwapsTyped, RestartKeepsTypes DEF Typed
<1>3. \A q \in Positions : SeenOK(q)'
  BY <1>2 DEF SeenOK, InTick, Working, Resolving, Swapping, Deciding, Paying
<1>4. (\A q \in Positions : BookOK(q)') /\ (\A s \in DOMAIN swaps' : SwapOK(s)') /\ OneSwapAtATime'
  BY <1>1, <1>2 DEF BookOK, SwapOK, OneSwapAtATime, chain
<1> QED BY <1>2, <1>3, <1>4 DEF SwapsInv

\* On the chain positions only move on: one that was drawn stays drawn, one that was
\* closed stays closed.
PositionStep ==
  \/ Tick \/ Trader \/ Lands \/ Lost

LEMMA PositionStepKeepsTypes ==
  ASSUME Typed, PositionStep
  PROVE  /\ Typed' /\ UNCHANGED <<swaps, files, pc, loop, task>>
         /\ \A p \in Positions : \/ position'[p] = position[p]
                                 \/ position[p] \in {"absent", "open"}
                                 \/ position[p] = "trading" /\ position'[p] \in Closed
         /\ \A p \in Positions : position[p] = "open" /\ position'[p] # "open" =>
              position'[p] \in {"cancelled", "trading"}
<1> USE DEF Closed, Statuses
<1>1. /\ TypeOK /\ TaskOK /\ FilesAgree /\ PendingOK /\ DrawingOK
      /\ \A p \in Positions : PendingIsOf(p)
  BY DEF Typed
<1> DEFINE MovesOn == /\ TypeOK' /\ UNCHANGED <<swaps, files, pc, loop, task>>
                      /\ \A p \in Positions : \/ position'[p] = position[p]
                                              \/ position[p] \in {"absent", "open"}
                                              \/ position[p] = "trading" /\ position'[p] \in Closed
                      /\ \A p \in Positions : position[p] = "open" /\ position'[p] # "open" =>
                           position'[p] \in {"cancelled", "trading"}
<1>2. ASSUME Tick PROVE MovesOn
  BY <1>1, <1>2 DEF Tick, ChainOnly, Alive, TypeOK, files
<1>3. ASSUME NEW p \in Positions, Open(p) \/ Cancel(p) \/ Claim(p)
      PROVE  MovesOn
  BY <1>1, <1>3 DEF Open, Cancel, Claim, TraderMoves, ChainOnly, TypeOK, files
<1>4. ASSUME NEW tx \in draws, DrawLands(tx)
      PROVE  /\ TypeOK' /\ UNCHANGED <<swaps, files, pc, loop, task>>
             /\ position[tx.p] = "open" /\ position' = [position EXCEPT ![tx.p] = "trading"]
  <2>1. tx.p \in Positions
    BY <1>1 DEF TypeOK
  <2>2. held' \in [Positions -> [sol : Int, usdc : Int, cycles : Int]]
    <3>1. held[tx.p] \in [sol : Int, usdc : Int, cycles : Int] /\ PRINCIPAL \in Int
      BY <1>1, <2>1, Constants DEF TypeOK
    <3>2. [held[tx.p] EXCEPT !.sol = PRINCIPAL] \in [sol : Int, usdc : Int, cycles : Int]
      BY <3>1
    <3>3. held' = [held EXCEPT ![tx.p] = [held[tx.p] EXCEPT !.sol = PRINCIPAL]]
      BY <1>4 DEF DrawLands
    <3> QED BY <1>1, <2>1, <3>2, <3>3 DEF TypeOK
  <2>3. wallet' \in [sol : Int, usdc : Int]
    <3>1. wallet' = [wallet EXCEPT !.sol = wallet.sol + PRINCIPAL]
      BY <1>4 DEF DrawLands
    <3>2. wallet.sol + PRINCIPAL \in Int
      BY <1>1, Constants DEF TypeOK
    <3> QED BY <1>1, <3>1, <3>2 DEF TypeOK
  <2> QED BY <1>1, <1>4, <2>1, <2>2, <2>3 DEF DrawLands, ChainOnly, TypeOK, files
<1>5. ASSUME NEW tx \in settles, SettleLands(tx)
      PROVE  /\ TypeOK' /\ UNCHANGED <<swaps, files, pc, loop, task>>
             /\ position[tx.p] = "trading" /\ position' = [position EXCEPT ![tx.p] = "settled"]
  <2>1. tx.p \in Positions /\ tx.amount \in Int
    BY <1>1 DEF TypeOK
  <2>2. held' \in [Positions -> [sol : Int, usdc : Int, cycles : Int]]
    <3> DEFINE left == held[tx.p].sol - tx.amount
    <3>1. held[tx.p] \in [sol : Int, usdc : Int, cycles : Int]
      BY <1>1, <2>1 DEF TypeOK
    <3>2. left \in Int
      BY <2>1, <3>1
    <3>3. [held[tx.p] EXCEPT !.sol = left] \in [sol : Int, usdc : Int, cycles : Int]
      BY <3>1, <3>2
    <3>4. held' = [held EXCEPT ![tx.p] = [held[tx.p] EXCEPT !.sol = left]]
      BY <1>5 DEF SettleLands
    <3> QED BY <1>1, <2>1, <3>3, <3>4 DEF TypeOK
  <2>3. wallet' \in [sol : Int, usdc : Int]
    <3>1. wallet' = [wallet EXCEPT !.sol = wallet.sol - tx.amount]
      BY <1>5 DEF SettleLands
    <3> QED BY <1>1, <2>1, <3>1 DEF TypeOK
  <2> QED BY <1>1, <1>5, <2>1, <2>2, <2>3 DEF SettleLands, ChainOnly, TypeOK, files
<1>6. ASSUME Lost PROVE MovesOn
  BY <1>1, <1>6 DEF Lost, ChainOnly, TypeOK, files
<1>7. ASSUME Lands PROVE MovesOn
  BY <1>1, <1>4, <1>5, <1>7 DEF Lands, TypeOK
<1>8. MovesOn
  BY <1>2, <1>3, <1>6, <1>7 DEF PositionStep, Trader
<1>9. TaskOK' /\ FilesAgree' /\ PendingOK' /\ DrawingOK' /\ \A p \in Positions : PendingIsOf(p)'
  BY <1>1, <1>8 DEF TaskOK, FilesAgree, PendingOK, DrawingOK, PendingIsOf, files
<1> QED BY <1>8, <1>9 DEF Typed

LEMMA PositionStepKeepsSwaps ==
  ASSUME SwapsInv, PositionStep
  PROVE  SwapsInv'
<1>1. /\ TypeOK /\ TaskOK /\ FilesAgree /\ PendingOK /\ DrawingOK
      /\ \A q \in Positions : BookOK(q) /\ SeenOK(q)
      /\ \A s \in DOMAIN swaps : SwapOK(s)
      /\ OneSwapAtATime
  BY DEF SwapsInv
<1>2. /\ TypeOK' /\ TaskOK' /\ FilesAgree' /\ PendingOK' /\ DrawingOK'
      /\ UNCHANGED <<swaps, disk, books, pc, loop, task>>
      /\ \A p \in Positions : /\ position[p] \in Drawn => position'[p] \in Drawn
                              /\ position[p] \in Closed => position'[p] \in Closed
  BY SwapsTyped, PositionStepKeepsTypes DEF Typed, files, Drawn, Closed
<1>3. \A q \in Positions : BookOK(q)' /\ SeenOK(q)'
  BY <1>1, <1>2 DEF BookOK, SeenOK
<1>4. (\A s \in DOMAIN swaps' : SwapOK(s)') /\ OneSwapAtATime'
  BY <1>1, <1>2, SwapsTyped, SwapNumbers DEF SwapOK, OneSwapAtATime, Swap
<1> QED BY <1>2, <1>3, <1>4 DEF SwapsInv

\* On the chain a swap ends one way or another, and is what it was otherwise.
LEMMA SwapEndKeepsTypes ==
  ASSUME Typed, NEW s \in DOMAIN swaps, SwapLands(s) \/ SwapEnds(s)
  PROVE  /\ Typed' /\ UNCHANGED <<position, files, pc, loop, task>>
         /\ DOMAIN swaps' = DOMAIN swaps /\ \A r \in DOMAIN swaps : r # s => swaps'[r] = swaps[r]
         /\ \E status \in {"landed", "failed", "expired"} :
              /\ swaps'[s] = [swaps[s] EXCEPT !.status = status]
              /\ status # "expired" => swaps[s].status = "sent"
         /\ swaps[s].status \in {"signed", "sent"}
<1>1. /\ TypeOK /\ TaskOK /\ FilesAgree /\ PendingOK /\ DrawingOK
      /\ \A p \in Positions : PendingIsOf(p)
      /\ swaps[s] \in Swap /\ swaps[s].of \in Positions
  BY SwapNumbers DEF Typed, Swap
<1>2. PICK status \in {"landed", "failed", "expired"} :
        /\ SetSwap(s, status)
        /\ status # "expired" => swaps[s].status = "sent"
        /\ swaps[s].status \in {"signed", "sent"}
  BY DEF SwapLands, SwapEnds
<1>3. [swaps[s] EXCEPT !.status = status] \in Swap
  BY <1>1 DEF Swap
<1>4. /\ swaps' \in Seq(Swap) /\ DOMAIN swaps' = DOMAIN swaps
      /\ swaps'[s] = [swaps[s] EXCEPT !.status = status]
      /\ \A r \in DOMAIN swaps : r # s => swaps'[r] = swaps[r]
  BY <1>1, <1>2, <1>3 DEF SetSwap, TypeOK
<1>5. held' \in [Positions -> [sol : Int, usdc : Int, cycles : Int]]
      /\ wallet' \in [sol : Int, usdc : Int]
  <2>1. CASE SwapLands(s)
    <3>1. SolDelta(swaps[s]) \in Int /\ UsdcDelta(swaps[s]) \in Int
      BY <1>1, SwapAmounts
    <3> DEFINE h == held[swaps[s].of]
               h1 == [sol |-> h.sol + SolDelta(swaps[s]), usdc |-> h.usdc + UsdcDelta(swaps[s]),
                      cycles |-> IF swaps[s].side = "SOL" THEN h.cycles + 1 ELSE h.cycles]
    <3>2. h1 \in [sol : Int, usdc : Int, cycles : Int]
      BY <1>1, <3>1 DEF TypeOK
    <3>3. held' = [held EXCEPT ![swaps[s].of] = h1]
      BY <2>1 DEF SwapLands
    <3>4. wallet' \in [sol : Int, usdc : Int]
      BY <1>1, <2>1, <3>1 DEF SwapLands, TypeOK
    <3> QED BY <1>1, <3>2, <3>3, <3>4 DEF TypeOK
  <2>2. CASE SwapEnds(s)
    BY <1>1, <2>2 DEF SwapEnds, TypeOK
  <2> QED BY <2>1, <2>2
<1>6. TypeOK' /\ UNCHANGED <<position, disk, books, pc, loop, task>>
  BY <1>1, <1>4, <1>5 DEF SwapLands, SwapEnds, ChainOnly, TypeOK, files
<1>7. \A r \in DOMAIN swaps :
        /\ swaps'[r].of = swaps[r].of
        /\ \/ swaps'[r].status = swaps[r].status
           \/ /\ swaps[r].status \in {"signed", "sent"} /\ swaps'[r].status # "sent"
              /\ swaps[r].status = "signed" => swaps'[r].status = "expired"
              /\ swaps'[r].status \notin {"signed", "sent"}
  BY <1>1, <1>2, <1>4 DEF Swap
<1>8. TaskOK' /\ FilesAgree' /\ DrawingOK' /\ \A p \in Positions : PendingIsOf(p)'
  BY <1>1, <1>4, <1>6, <1>7 DEF TaskOK, FilesAgree, DrawingOK, PendingIsOf
<1>9. PendingOK'
  <2>1. pc \in Resolving \cup Swapping => disk[task.p].pending \in DOMAIN swaps
    BY <1>1 DEF TaskOK, PendingOK, PendingIsOf, Working
  <2> QED BY <1>1, <1>6, <1>7, <2>1 DEF PendingOK, Resolving, Swapping
<1> QED BY <1>1, <1>2, <1>4, <1>6, <1>8, <1>9 DEF Typed, files

LEMMA SwappedKeepsSwaps ==
  ASSUME SwapsInv, Swapped
  PROVE  SwapsInv'
<1> USE DEF InTick, Working, Resolving, Swapping, Deciding, Paying
<1>1. /\ TypeOK /\ TaskOK /\ FilesAgree /\ PendingOK /\ DrawingOK
      /\ \A q \in Positions : BookOK(q) /\ SeenOK(q)
      /\ \A s \in DOMAIN swaps : SwapOK(s)
      /\ OneSwapAtATime
  BY DEF SwapsInv
<1>2. PICK s \in DOMAIN swaps : SwapLands(s) \/ SwapEnds(s)
  BY DEF Swapped
<1>3. /\ TypeOK' /\ TaskOK' /\ FilesAgree' /\ PendingOK' /\ DrawingOK'
      /\ UNCHANGED <<position, disk, books, pc, loop, task>> /\ DOMAIN swaps' = DOMAIN swaps
  BY <1>2, SwapsTyped, SwapEndKeepsTypes DEF Typed, files
<1>4. \A r \in DOMAIN swaps : /\ swaps'[r].of = swaps[r].of /\ swaps'[r].side = swaps[r].side
                              /\ swaps'[r].in = swaps[r].in
                              /\ \/ swaps'[r].status = swaps[r].status
                                 \/ /\ swaps[r].status \in {"signed", "sent"}
                                    /\ swaps'[r].status \in {"landed", "failed", "expired"}
                                    /\ swaps[r].status = "signed" => swaps'[r].status = "expired"
  <2>1. PICK status \in {"landed", "failed", "expired"} :
              /\ swaps'[s] = [swaps[s] EXCEPT !.status = status]
              /\ status # "expired" => swaps[s].status = "sent"
    BY <1>2, SwapsTyped, SwapEndKeepsTypes
  <2>2. swaps[s] \in Swap /\ swaps[s].status \in {"signed", "sent"}
        /\ \A r \in DOMAIN swaps : r # s => swaps'[r] = swaps[r]
    BY <1>2, SwapsTyped, SwapEndKeepsTypes, SwapNumbers
  <2>3. swaps'[s].of = swaps[s].of /\ swaps'[s].side = swaps[s].side
        /\ swaps'[s].in = swaps[s].in /\ swaps'[s].status = status
    BY <2>1, <2>2 DEF Swap
  <2> QED BY <2>1, <2>2, <2>3
<1>5. \A q \in Positions : BookOK(q)'
  BY <1>1, <1>3, <1>4 DEF BookOK
<1>6. \A q \in Positions : SeenOK(q)'
  BY <1>1, <1>3, <1>4 DEF SeenOK
<1>7. \A r \in DOMAIN swaps' : SwapOK(r)'
  BY <1>1, <1>3, <1>4 DEF SwapOK
<1>8. OneSwapAtATime'
  BY <1>1, <1>3, <1>4 DEF OneSwapAtATime
<1> QED BY <1>3, <1>5, <1>6, <1>7, <1>8 DEF SwapsInv
-----------------------------------------------------------------------------
LEMMA TypedInit == Init => Typed
<1> SUFFICES ASSUME Init PROVE Typed
  OBVIOUS
<1>1. swaps = <<>> /\ DOMAIN swaps = {} /\ pc = "down" /\ disk = NoBooks /\ books = NoBooks
  BY DEF Init
<1>2. NoBook \in BookRecord /\ ~NoBook.kept /\ NoBook.pending = 0
  BY DEF NoBook, BookRecord
<1>3. \A p \in Positions : disk[p] = NoBook
  BY <1>1 DEF NoBooks
<1>4. TypeOK
  <2>1. loop \in LoopRecord /\ task \in TaskRecord
    BY DEF Init, NoLoop, NoTask, LoopRecord, TaskRecord, Statuses
  <2>2. books \in [Positions -> BookRecord] /\ disk \in [Positions -> BookRecord]
    BY <1>1, <1>2 DEF NoBooks
  <2>3. swaps \in Seq(Swap)
    BY <1>1
  <2> QED BY <2>1, <2>2, <2>3, Constants DEF Init, TypeOK, Statuses
<1>5. TaskOK /\ FilesAgree /\ PendingOK /\ DrawingOK
  BY <1>1
     DEF TaskOK, FilesAgree, PendingOK, DrawingOK, Working, Resolving, Swapping, Deciding, Paying
<1>6. \A p \in Positions : PendingIsOf(p)
  BY <1>2, <1>3 DEF PendingIsOf
<1> QED BY <1>4, <1>5, <1>6 DEF Typed

\* Types, and what the runner knows of its own files and of the swap it works on, hold
\* whatever gets lost.
LEMMA TypedNext ==
  ASSUME Typed, [Next]_vars
  PROVE  Typed'
<1>1. CASE UNCHANGED vars
  <2>1. UNCHANGED <<now, position, drawn_at, wallet, swaps, draws, settles, held, books, disk,
                    pc, loop, task>>
    BY <1>1 DEF vars, chain, files
  <2>2. TypeOK' /\ TaskOK' /\ FilesAgree' /\ PendingOK' /\ DrawingOK'
    BY <2>1 DEF Typed, TypeOK, TaskOK, FilesAgree, PendingOK, DrawingOK
  <2>3. \A p \in Positions : PendingIsOf(p)'
    BY <2>1 DEF Typed, PendingIsOf
  <2> QED BY <2>2, <2>3 DEF Typed
<1>2. CASE Runner
  <2>1. TaskOK
    BY DEF Typed
  <2>2. CASE ListStep \/ Restart
    BY <2>2, ListStepKeepsTypes, RestartKeepsTypes
  <2>3. CASE (\E p \in Positions : DropBook(p)) \/ SettleReturns
    BY <2>1, <2>3, NoBookKeepsTypes DEF NoBookStep, SettleReturns, Goto, TaskOK, Working, Paying
  <2>4. CASE (\E p \in Positions : Adopt(p)) \/ DrawReturns
    BY <2>1, <2>4, NewBookKeepsTypes DEF NewBookStep, DrawReturns, Goto, TaskOK
  <2>5. CASE \/ ReadStatus \/ ReadHeight \/ ReadLanded \/ Recheck \/ Act \/ NoTrade \/ Send
             \/ Confirm \/ ReadMeta \/ UnwindFails \/ ReadBalance
    BY <2>5, BookSteps, BookStepKeepsTypes, SendsSwapKeepsTypes
  <2>6. CASE Trade \/ SecondLeg \/ Unwind
    BY <2>6, BegunFromBook, BegunSwapKeepsTypes DEF Deciding
  <2>7. CASE (\E p \in Positions : SendDraw(p)) \/ SendSettle \/ SettleErrors \/ DrawErrors
    BY <2>1, <2>7, SendingKeepsTypes
       DEF Sending, SendSettle, SettleErrors, DrawErrors, Goto, TaskOK, Working, Paying
  <2> QED BY <1>2, <2>2, <2>3, <2>4, <2>5, <2>6, <2>7 DEF Runner, ListStep
<1>3. CASE SkipTick \/ Exit
  BY <1>3, RestartKeepsTypes
<1>4. CASE PositionStep
  BY <1>4, PositionStepKeepsTypes
<1>5. CASE Swapped
  BY <1>5, SwapEndKeepsTypes DEF Swapped
<1> QED BY <1>1, <1>2, <1>3, <1>4, <1>5 DEF Next, PositionStep

LEMMA SwapsInvInit == Init => SwapsInv
<1> SUFFICES ASSUME Init PROVE SwapsInv
  OBVIOUS
<1>1. TypeOK /\ TaskOK /\ FilesAgree /\ PendingOK /\ DrawingOK
  BY TypedInit DEF Typed
<1>2. DOMAIN swaps = {} /\ pc = "down"
  BY DEF Init
<1>3. \A p \in Positions : disk[p] = NoBook /\ ~NoBook.kept /\ NoBook.pending = 0
  BY DEF Init, NoBooks, NoBook
<1>4. \A p \in Positions : BookOK(p)
  BY <1>3 DEF BookOK
<1>5. \A p \in Positions : SeenOK(p)
  BY <1>2 DEF SeenOK, Working, Resolving, Swapping, Deciding, Paying, InTick
<1>6. (\A s \in DOMAIN swaps : SwapOK(s)) /\ OneSwapAtATime
  BY <1>2 DEF OneSwapAtATime
<1> QED BY <1>1, <1>4, <1>5, <1>6 DEF SwapsInv

LEMMA SwapsInvNext ==
  ASSUME ~STATE_MAY_BE_LOST, ~SCANS_LAG, SwapsInv, [Next]_vars
  PROVE  SwapsInv'
<1>1. CASE UNCHANGED vars
  <2>1. UNCHANGED <<now, position, drawn_at, wallet, swaps, draws, settles, held, books, disk,
                    pc, loop, task>>
    BY <1>1 DEF vars, chain, files
  <2>2. TypeOK' /\ TaskOK' /\ FilesAgree' /\ PendingOK' /\ DrawingOK'
    BY SwapsTyped, TypedNext DEF Typed
  <2>3. (\A p \in Positions : BookOK(p)' /\ SeenOK(p)')
    BY <2>1 DEF SwapsInv, BookOK, SeenOK
  <2>4. (\A s \in DOMAIN swaps' : SwapOK(s)') /\ OneSwapAtATime'
    BY <2>1 DEF SwapsInv, SwapOK, OneSwapAtATime
  <2> QED BY <2>2, <2>3, <2>4 DEF SwapsInv
<1>2. CASE Runner
  <2>1. CASE ListStep
    BY <2>1, ListStepKeepsSwaps
  <2>2. CASE Restart
    BY <2>2, RestartKeepsSwaps
  <2>3. CASE \E p \in Positions : DropBook(p)
    BY <2>3, NoBookKeepsSwaps DEF NoBookStep
  <2>4. CASE SettleReturns
    BY <2>4, NoBookKeepsSwaps DEF NoBookStep, SettleReturns, Goto, SwapsInv, TaskOK, Working, Paying
  <2>5. CASE \/ ReadStatus \/ ReadHeight \/ ReadLanded \/ Recheck \/ Act \/ NoTrade \/ Send
             \/ Confirm \/ ReadMeta \/ UnwindFails \/ ReadBalance
    BY <2>5, SwapsTyped, BookSteps, BookStepKeepsSwaps, SendsSwapKeepsSwaps
  <2>6. CASE Trade \/ SecondLeg \/ Unwind
    BY <2>6, BegunSwapKeepsSwaps
  <2>7. CASE SendSettle \/ SettleErrors
    BY <2>7, SendingKeepsSwaps DEF Sending, SendSettle, SettleErrors, Goto, SwapsInv, TaskOK,
       Working, Paying
  <2>8. CASE DrawErrors
    BY <2>8, SendingKeepsSwaps DEF Sending, DrawErrors, Goto, SwapsInv, TaskOK
  <2>9. CASE \E p \in Positions : SendDraw(p)
    BY <2>9, SendingKeepsSwaps DEF Sending
  <2>10. CASE \E p \in Positions : Adopt(p)
    BY <2>10, NewBookKeepsSwaps DEF NewBookStep
  <2>11. CASE DrawReturns
    BY <2>11, NewBookKeepsSwaps DEF NewBookStep, DrawReturns, Goto, SwapsInv, TaskOK
  <2> QED
    BY <1>2, <2>1, <2>2, <2>3, <2>4, <2>5, <2>6, <2>7, <2>8, <2>9, <2>10, <2>11
       DEF Runner, ListStep
<1>3. CASE SkipTick \/ Exit
  BY <1>3, RestartKeepsSwaps
<1>4. CASE PositionStep
  BY <1>4, PositionStepKeepsSwaps
<1>5. CASE Swapped
  BY <1>5, SwappedKeepsSwaps
<1> QED BY <1>1, <1>2, <1>3, <1>4, <1>5 DEF Next, PositionStep

\* While the state file outlives the runner and scans are up to date, no position ever
\* has two swaps on their way (RunnerProperties): whatever crashes, answers lost and
\* blockhashes that expire late, a swap begins only when the one before it has ended.
THEOREM SwapsNeverOverlap ==
  ASSUME ~STATE_MAY_BE_LOST, ~SCANS_LAG
  PROVE  Spec => []OneSwapAtATime
<1>1. SwapsInv /\ [Next]_vars => SwapsInv'
  BY SwapsInvNext
<1>2. SwapsInv => OneSwapAtATime
  BY DEF SwapsInv
<1> QED BY SwapsInvInit, <1>1, <1>2, PTL DEF Spec
-----------------------------------------------------------------------------
(* The life of a position *)

\* What the life of a position rests on, also if books get lost: the runner works on
\* positions, and what it sends is about positions.
LifeInv ==
  /\ now \in Nat /\ position \in [Positions -> Statuses]
  /\ \A tx \in draws \cup settles : tx.p \in Positions
  /\ "p" \in DOMAIN task
  /\ pc \in Working => task.p \in Positions

\* Of what the runner itself does, only sending a draw or a settlement reaches the chain.
LEMMA RunnerKeepsLifeInv ==
  ASSUME LifeInv, Runner \/ SkipTick \/ Exit
  PROVE  LifeInv' /\ UNCHANGED <<now, position>>
<1> USE DEF Working, Resolving, Swapping, Deciding, Paying, Goto, AskOn, Quiet, chain
<1> DEFINE SameTask == /\ DOMAIN task' = DOMAIN task /\ task'.p = task.p
                       /\ pc' \in Working => pc \in Working
           FewerTxs == draws' \subseteq draws /\ settles' \subseteq settles
           SameLife == UNCHANGED <<now, position>>
<1>1. ASSUME SameTask, FewerTxs, SameLife
      PROVE  LifeInv'
  BY <1>1 DEF LifeInv
<1>2. "p" \in DOMAIN task /\ "p" \in DOMAIN NoTask
  BY DEF LifeInv, NoTask
<1>3. CASE \/ ReadStatus \/ ReadHeight \/ ReadLanded \/ Recheck \/ Act \/ NoTrade
           \/ Confirm \/ ReadMeta \/ UnwindFails \/ ReadBalance
  <2>1. UNCHANGED chain /\ SameLife /\ pc \in Working
    BY <1>3 DEF ReadStatus, ReadHeight, ReadLanded, Recheck, Act, NoTrade, Confirm, ReadMeta,
       UnwindFails, ReadBalance, Unresolved, BookSwap, ClearSwap, SwapFails, SwapInFlight
  <2>2. \/ UNCHANGED task
        \/ \E e : task' = [task EXCEPT !.emergency = e]
        \/ \E n : task' = [task EXCEPT !.paying = n]
    BY <1>3 DEF ReadStatus, ReadHeight, ReadLanded, Recheck, Act, NoTrade, Confirm, ReadMeta,
       UnwindFails, ReadBalance, Unresolved, BookSwap, ClearSwap, SwapFails, SwapInFlight
  <2>3. SameTask /\ FewerTxs
    BY <1>2, <2>1, <2>2
  <2> QED BY <1>1, <2>1, <2>3
<1>4. CASE Trade \/ SecondLeg \/ Unwind \/ Send
  <2>1. SameLife /\ FewerTxs /\ pc \in Working
    BY <1>4 DEF Trade, SecondLeg, Unwind, BeginSwap, Send, SwapFails, SwapInFlight
  <2>2. UNCHANGED task \/ \E a : task' = [task EXCEPT !.after = a]
    BY <1>4 DEF Trade, SecondLeg, Unwind, BeginSwap, Send, SwapFails, SwapInFlight
  <2> QED BY <1>1, <1>2, <2>1, <2>2
<1>5. CASE \/ StartTick \/ SkipTick \/ Restart \/ SettleReturns \/ SettleErrors
           \/ DrawReturns \/ DrawErrors
  <2>1. UNCHANGED <<now, position, task>> /\ FewerTxs
    BY <1>5 DEF StartTick, SkipTick, Restart, SettleReturns, SettleErrors, DrawReturns, DrawErrors
  <2>2. pc' \in Working => pc \in Working
    BY <1>5 DEF StartTick, SkipTick, Restart, SettleReturns, SettleErrors, DrawReturns, DrawErrors
  <2> QED BY <1>1, <2>1, <2>2
<1>6. ASSUME NEW p \in Positions, DropBook(p) \/ NotDueYet(p) \/ Adopt(p) \/ PassOver(p)
      PROVE  LifeInv' /\ SameLife
  BY <1>1, <1>6 DEF DropBook, NotDueYet, Adopt, PassOver
<1>7. CASE NextPass \/ EndTick \/ Exit
  BY <1>2, <1>7 DEF NextPass, EndTick, Exit, NoTask, LifeInv
<1>8. ASSUME NEW p \in Positions, TakeBook(p)
      PROVE  LifeInv' /\ SameLife
  BY <1>8 DEF TakeBook, LifeInv
<1>9. CASE SendSettle
  <2>1. DOMAIN task' = DOMAIN task /\ task'.p = task.p /\ task.p \in Positions
    BY <1>2, <1>9 DEF SendSettle, LifeInv
  <2>2. SettleTx'.p \in Positions
    BY <2>1 DEF SettleTx
  <2> QED BY <1>9, <2>1, <2>2 DEF SendSettle, LifeInv
<1>10. ASSUME NEW p \in Positions, SendDraw(p)
       PROVE  LifeInv' /\ SameLife
  <2>1. DOMAIN task' = DOMAIN task /\ task'.p = p
    BY <1>2, <1>10 DEF SendDraw
  <2>2. DrawTx'.p \in Positions
    BY <2>1 DEF DrawTx
  <2> QED BY <1>10, <2>1, <2>2 DEF SendDraw, LifeInv
<1> QED
  BY <1>3, <1>4, <1>5, <1>6, <1>7, <1>8, <1>9, <1>10 DEF Runner

\* Every other step of the model is a step of a position's life, or none.
LEMMA LifeStep ==
  ASSUME LifeInv, [Next]_vars
  PROVE  LifeInv' /\ [Lifecycle!Next]_(Lifecycle!vars)
<1> DEFINE deadline == [p \in Positions |-> DEADLINE]
<1> USE DEF Lifecycle!Next, Lifecycle!vars, Lifecycle!Move, ChainOnly
<1>1. CASE UNCHANGED vars
  BY <1>1 DEF vars, chain, files, LifeInv
<1>2. CASE Runner \/ SkipTick \/ Exit
  BY <1>2, RunnerKeepsLifeInv
<1>3. CASE Tick
  <2>1. LifeInv'
    BY <1>3 DEF Tick, Alive, LifeInv
  <2>2. Lifecycle!Pass
    BY <1>3 DEF Tick, LifeInv, Lifecycle!Pass
  <2> QED BY <2>1, <2>2
<1>4. ASSUME NEW p \in Positions, Open(p)
      PROVE  LifeInv' /\ Lifecycle!Next
  <2>1. Lifecycle!Open(p)
    BY <1>4 DEF Open, TraderMoves, Lifecycle!Open, LifeInv
  <2> QED BY <1>4, <2>1 DEF Open, TraderMoves, LifeInv, Statuses
<1>5. ASSUME NEW p \in Positions, Cancel(p)
      PROVE  LifeInv' /\ Lifecycle!Next
  <2>1. Lifecycle!Cancel(p)
    BY <1>5 DEF Cancel, TraderMoves, Lifecycle!Cancel
  <2> QED BY <1>5, <2>1 DEF Cancel, TraderMoves, LifeInv, Statuses
<1>6. ASSUME NEW p \in Positions, Claim(p)
      PROVE  LifeInv' /\ Lifecycle!Next
  <2>1. Lifecycle!Default(p)
    BY <1>6 DEF Claim, TraderMoves, Lifecycle!Default
  <2> QED BY <1>6, <2>1 DEF Claim, TraderMoves, LifeInv, Statuses
<1>7. ASSUME NEW tx \in draws, DrawLands(tx)
      PROVE  LifeInv' /\ Lifecycle!Next
  <2>1. tx.p \in Positions
    BY DEF LifeInv
  <2>2. Lifecycle!Draw(tx.p)
    BY <1>7, <2>1 DEF DrawLands, Lifecycle!Draw
  <2> QED BY <1>7, <2>1, <2>2 DEF DrawLands, LifeInv, Statuses
<1>8. ASSUME NEW tx \in settles, SettleLands(tx)
      PROVE  LifeInv' /\ Lifecycle!Next
  <2>1. tx.p \in Positions
    BY DEF LifeInv
  <2>2. Lifecycle!Settle(tx.p)
    BY <1>8, <2>1 DEF SettleLands, Lifecycle!Settle
  <2> QED BY <1>8, <2>1, <2>2 DEF SettleLands, LifeInv, Statuses
<1>9. CASE Lost
  BY <1>9 DEF Lost, LifeInv
<1>10. CASE Swapped
  BY <1>10 DEF Swapped, SwapLands, SwapEnds, LifeInv
<1> QED
  BY <1>1, <1>2, <1>3, <1>4, <1>5, <1>6, <1>7, <1>8, <1>9, <1>10
     DEF Next, Trader, Lands

\* Whatever the runner, its RPC nodes, the traders and time do, and even if the state file
\* is lost, what the runner's model lets happen to a position is what the program lets
\* happen (RunnerProperties, PositionLifecycle; ProgramProofs shows that the program
\* does): no theorem about the runner rests on a step that the program would refuse.
THEOREM RunnerFollowsLifecycle == Spec => FollowsLifecycle
<1>1. Init => LifeInv /\ Lifecycle!Init
  BY Constants DEF Init, LifeInv, Lifecycle!Init, Working, Resolving, Swapping, Deciding, Paying,
     NoTask, Statuses
<1>2. LifeInv /\ [Next]_vars => LifeInv' /\ [Lifecycle!Next]_(Lifecycle!vars)
  BY LifeStep
<1> QED BY <1>1, <1>2, PTL DEF Spec, FollowsLifecycle, Lifecycle!Spec
-----------------------------------------------------------------------------
(* The books tell the truth *)

\* Nothing happens to the money of a position while its account, its book and its holdings
\* stay what they are and no swap lands.
LEMMA HoldingsStay ==
  ASSUME BooksInv, UNCHANGED <<position, held, disk>>,
         \A s \in DOMAIN swaps : \/ swaps'[s] = swaps[s]
                                 \/ /\ swaps[s].status # "landed"
                                    /\ swaps'[s].status # "landed"
  PROVE  \A p \in Positions : HeldOK(p)'
<1> SUFFICES ASSUME NEW p \in Positions PROVE HeldOK(p)'
  OBVIOUS
<1>1. HeldOK(p) /\ BookOK(p)
  BY DEF BooksInv, SwapsInv
<1>2. Outcome(disk[p])' = Outcome(disk[p])
  BY <1>1 DEF Outcome, BookOK
<1> QED BY <1>1, <1>2 DEF HeldOK, Trading

\* A landed swap is recorded as what it was, and one that is cleared had not landed.
LEMMA BookStepKeepsHoldings ==
  ASSUME FailingLookups = {}, BooksInv, BookStep
  PROVE  \A p \in Positions : HeldOK(p)'
<1>1. UNCHANGED <<position, held, swaps>>
  BY DEF BookStep, chain
<1>2. CASE KeepsBook
  BY <1>1, <1>2, HoldingsStay DEF KeepsBook, files
<1>3. CASE RecordsBook \/ ClearsBook
  <2> SUFFICES ASSUME NEW p \in Positions PROVE HeldOK(p)'
    OBVIOUS
  <2>1. /\ task.p \in Positions /\ Book = disk[task.p] /\ Book \in BookRecord /\ Book.kept
        /\ pc \in Working /\ Book.pending # 0
    BY <1>3, SwapsTyped, BookUnderWork, SwapNumbers DEF BookStep, RecordsBook, ClearsBook, BooksInv
  <2>2. HeldOK(p) /\ disk \in [Positions -> BookRecord] /\ books = disk
    BY <2>1 DEF BooksInv, SwapsInv, TypeOK, FilesAgree, Working, Resolving, Swapping, Deciding,
       Paying
  <2>3. CASE p # task.p
    <3>1. disk'[p] = disk[p]
      BY <1>3, <2>2, <2>3 DEF RecordsBook, ClearsBook, SaveBook, Save
    <3> QED BY <1>1, <2>2, <3>1 DEF HeldOK, Trading, Outcome
  <2>4. CASE p = task.p
    <3>1. PICK b : disk'[p] = b /\ b.kept /\ b.pending = 0
                   /\ [sol |-> b.sol, usdc |-> b.usdc, cycles |-> b.cycles] = Outcome(Book)
      <4>1. CASE RecordsBook
        <5>1. disk'[p] = Record(Book, Pending)
          BY <2>2, <2>4, <4>1 DEF RecordsBook, SaveBook, Save
        <5>2. Record(Book, Pending).kept /\ Record(Book, Pending).pending = 0
          BY <2>1 DEF Record, BookRecord
        <5>3. Outcome(Book) = [sol |-> Record(Book, Pending).sol,
                               usdc |-> Record(Book, Pending).usdc,
                               cycles |-> Record(Book, Pending).cycles]
          BY <2>1, <4>1 DEF RecordsBook, Outcome, Pending
        <5> QED BY <5>1, <5>2, <5>3
      <4>2. CASE ClearsBook
        <5>1. disk'[p] = Cleared(Book)
          BY <2>2, <2>4, <4>2 DEF ClearsBook, SaveBook, Save
        <5>2. /\ Cleared(Book).kept /\ Cleared(Book).pending = 0
              /\ Cleared(Book).sol = Book.sol /\ Cleared(Book).usdc = Book.usdc
              /\ Cleared(Book).cycles = Book.cycles
          BY <2>1 DEF Cleared, BookRecord
        <5>3. Outcome(Book) = [sol |-> Book.sol, usdc |-> Book.usdc, cycles |-> Book.cycles]
          BY <4>2 DEF ClearsBook, Outcome, Pending
        <5> QED BY <5>1, <5>2, <5>3
      <4> QED BY <1>3, <4>1, <4>2
    <3>2. Outcome(disk[p])' = Outcome(Book)
      BY <3>1 DEF Outcome
    <3> QED BY <1>1, <2>1, <2>2, <2>4, <3>1, <3>2 DEF HeldOK, Trading
  <2> QED BY <2>3, <2>4
<1> QED BY <1>2, <1>3 DEF BookStep

\* A swap that begins has not moved anything yet.
LEMMA BegunSwapKeepsHoldings ==
  ASSUME BooksInv, Trade \/ SecondLeg \/ Unwind
  PROVE  \A p \in Positions : HeldOK(p)'
<1> SUFFICES ASSUME NEW p \in Positions PROVE HeldOK(p)'
  OBVIOUS
<1>1. SwapsInv /\ TypeOK /\ HeldOK(p) /\ BookOK(p)
  BY DEF BooksInv, SwapsInv
<1>2. PICK side \in {"SOL", "USDC"}, amount \in Nat, after \in {"end", "leg2", "settle"} :
        BeginSwap(side, amount, after) /\ pc \in {"trade", "leg2", "unwind"}
  BY <1>1, SwapsTyped, BegunFromBook
<1>3. task.p \in Positions /\ Book = disk[task.p] /\ Book \in BookRecord
  BY <1>1, <1>2, SwapsTyped, BookUnderWork DEF Working, Deciding
<1> DEFINE n == Len(swaps) + 1
           b == [Book EXCEPT !.pending = n]
           new == [of |-> task.p, side |-> side, in |-> amount, status |-> "signed"]
<1>4. /\ n \notin DOMAIN swaps /\ swaps'[n] = new /\ \A s \in DOMAIN swaps : swaps'[s] = swaps[s]
      /\ disk' = [disk EXCEPT ![task.p] = b]
  BY <1>1, <1>2, SwapsTyped, BegunSwapKeepsTypes DEF Deciding
<1>5. UNCHANGED <<position, held>> /\ Book.pending = 0
  BY <1>2 DEF BeginSwap
<1> HIDE DEF n, b, new
<1>6. CASE p # task.p
  <2>1. disk'[p] = disk[p]
    BY <1>1, <1>4, <1>6 DEF TypeOK
  <2>2. Outcome(disk[p])' = Outcome(disk[p])
    BY <1>1, <1>4, <2>1 DEF Outcome, BookOK
  <2> QED BY <1>1, <1>5, <2>1, <2>2 DEF HeldOK, Trading
<1>7. CASE p = task.p
  <2>1. disk'[p] = b /\ swaps'[n].status # "landed"
    BY <1>1, <1>3, <1>4, <1>7 DEF TypeOK, new
  <2>2. /\ b.kept = Book.kept /\ b.sol = Book.sol /\ b.usdc = Book.usdc /\ b.cycles = Book.cycles
        /\ b.pending = n
    BY <1>3 DEF BookRecord, b
  <2>3. Outcome(disk[p])' = Outcome(Book)
    BY <1>5, <2>1, <2>2 DEF Outcome
  <2> QED BY <1>1, <1>3, <1>5, <1>7, <2>1, <2>2, <2>3 DEF HeldOK, Trading
<1> QED BY <1>6, <1>7

\* A new book starts with the principal, which is all that its position holds.
LEMMA NewBookKeepsHoldings ==
  ASSUME BooksInv, NEW p \in Positions, NewBookStep(p)
  PROVE  \A q \in Positions : HeldOK(q)'
<1>1. /\ SwapsInv /\ TypeOK /\ \A q \in Positions : HeldOK(q)
      /\ FilesAgree /\ SeenOK(p) /\ DrawingOK
  BY DEF BooksInv, SwapsInv
<1>2. PICK b \in BookRecord : /\ SaveBook(p, b) /\ b.kept /\ b.sol = PRINCIPAL /\ b.usdc = 0
                              /\ b.cycles = 0 /\ b.pending = 0
  BY <1>1, SwapsTyped, NewBookKeepsTypes
<1>3. UNCHANGED <<position, held, swaps>> /\ pc \in {"draws", "drawing"}
  BY DEF NewBookStep, Adopt, DrawReturns, Goto, chain
<1>4. ~disk[p].kept /\ books = disk
  BY <1>1, <1>3 DEF NewBookStep, Adopt, DrawReturns, Goto, FilesAgree, SeenOK, DrawingOK, InTick
<1>5. disk'[p] = b /\ \A q \in Positions : q # p => disk'[q] = disk[q]
  BY <1>1, <1>2, <1>4 DEF SaveBook, Save, TypeOK
<1>6. Outcome(disk[p])' = [sol |-> PRINCIPAL, usdc |-> 0, cycles |-> 0]
  BY <1>2, <1>5 DEF Outcome
<1>7. HeldOK(p)'
  BY <1>1, <1>2, <1>3, <1>4, <1>5, <1>6 DEF HeldOK, Trading
<1>8. ASSUME NEW q \in Positions, q # p PROVE HeldOK(q)'
  BY <1>1, <1>3, <1>5, <1>8 DEF HeldOK, Trading, Outcome
<1> QED BY <1>7, <1>8

\* The book that is dropped is of a position that was closed.
LEMMA NoBookKeepsHoldings ==
  ASSUME BooksInv, NEW p \in Positions, NoBookStep(p)
  PROVE  \A q \in Positions : HeldOK(q)'
<1>1. /\ SwapsInv /\ TypeOK /\ \A q \in Positions : HeldOK(q)
      /\ FilesAgree /\ SeenOK(p)
  BY DEF BooksInv, SwapsInv
<1>2. UNCHANGED <<position, held, swaps>> /\ SaveBook(p, NoBook) /\ books = disk
  BY <1>1 DEF NoBookStep, DropBook, SettleReturns, Goto, chain, FilesAgree
<1>3. position[p] \in Closed
  BY <1>1 DEF NoBookStep, DropBook, SettleReturns, Goto, Visit, FilesAgree, SeenOK, InTick, Closed
<1>4. \A q \in Positions : q # p => disk'[q] = disk[q]
  BY <1>1, <1>2 DEF SaveBook, Save, TypeOK
<1>5. HeldOK(p)'
  BY <1>2, <1>3 DEF HeldOK, Trading, Closed
<1>6. ASSUME NEW q \in Positions, q # p PROVE HeldOK(q)'
  BY <1>1, <1>2, <1>4, <1>6 DEF HeldOK, Trading, Outcome
<1> QED BY <1>5, <1>6

\* A draw hands over the principal; settling, claiming and cancelling end it.
LEMMA PositionStepKeepsHoldings ==
  ASSUME BooksInv, PositionStep
  PROVE  \A p \in Positions : HeldOK(p)'
<1>1. /\ TypeOK /\ \A p \in Positions : HeldOK(p) /\ BookOK(p)
  BY DEF BooksInv, SwapsInv
<1>2. UNCHANGED <<swaps, disk>>
  BY SwapsTyped, PositionStepKeepsTypes DEF BooksInv, files
<1>3. CASE Tick \/ Lost
  BY <1>2, <1>3, HoldingsStay DEF Tick, Lost
<1>4. ASSUME NEW q \in Positions, Open(q) \/ Cancel(q) \/ Claim(q)
      PROVE  \A p \in Positions : HeldOK(p)'
  <2> SUFFICES ASSUME NEW p \in Positions PROVE HeldOK(p)'
    OBVIOUS
  <2>1. UNCHANGED held
    BY <1>4 DEF Open, Cancel, Claim, TraderMoves
  <2>2. \/ position'[p] = position[p]
        \/ position[p] = "absent" /\ position'[p] = "open"
        \/ position'[p] \in {"cancelled", "defaulted"}
    BY <1>1, <1>4 DEF Open, Cancel, Claim, TraderMoves, TypeOK
  <2> QED BY <1>1, <1>2, <2>1, <2>2 DEF HeldOK, Trading, Outcome
<1>5. ASSUME NEW tx \in draws, DrawLands(tx)
      PROVE  \A p \in Positions : HeldOK(p)'
  <2>1. tx.p \in Positions /\ position[tx.p] = "open" /\ ~disk[tx.p].kept
    BY <1>1, <1>5 DEF DrawLands, TypeOK, BookOK, Drawn
  <2>2. held[tx.p] = [sol |-> 0, usdc |-> 0, cycles |-> 0]
    BY <1>1, <2>1 DEF HeldOK
  <2>3. held'[tx.p] = [sol |-> PRINCIPAL, usdc |-> 0, cycles |-> 0]
    BY <1>1, <1>5, <2>1, <2>2 DEF DrawLands, TypeOK
  <2>4. position'[tx.p] = "trading"
    BY <1>1, <1>5, <2>1 DEF DrawLands, TypeOK
  <2>5. HeldOK(tx.p)'
    BY <1>2, <2>1, <2>3, <2>4 DEF HeldOK
  <2>6. ASSUME NEW p \in Positions, p # tx.p PROVE HeldOK(p)'
    <3>1. position'[p] = position[p] /\ held'[p] = held[p]
      BY <1>1, <1>5, <2>6 DEF DrawLands, TypeOK
    <3> QED BY <1>1, <1>2, <3>1 DEF HeldOK, Trading, Outcome
  <2> QED BY <2>5, <2>6
<1>6. ASSUME NEW tx \in settles, SettleLands(tx)
      PROVE  \A p \in Positions : HeldOK(p)'
  <2>1. tx.p \in Positions
    BY <1>1 DEF TypeOK
  <2>2. position'[tx.p] = "settled"
    BY <1>1, <1>6, <2>1 DEF SettleLands, TypeOK
  <2>3. HeldOK(tx.p)'
    BY <2>2 DEF HeldOK, Trading
  <2>4. ASSUME NEW p \in Positions, p # tx.p PROVE HeldOK(p)'
    <3>1. position'[p] = position[p] /\ held'[p] = held[p]
      BY <1>1, <1>6, <2>4 DEF SettleLands, TypeOK
    <3> QED BY <1>1, <1>2, <3>1 DEF HeldOK, Trading, Outcome
  <2> QED BY <2>3, <2>4
<1> QED BY <1>3, <1>4, <1>5, <1>6 DEF PositionStep, Trader, Lands

\* A swap that lands is the one pending in the book, and the book can pay for it.
LEMMA SwapLandsAsBooked ==
  ASSUME BooksInv, NEW s \in DOMAIN swaps, SwapLands(s)
  PROVE  \A p \in Positions : HeldOK(p)'
<1> SUFFICES ASSUME NEW p \in Positions PROVE HeldOK(p)'
  OBVIOUS
<1>1. /\ SwapsInv /\ TypeOK /\ HeldOK(p) /\ BookOK(p) /\ SwapOK(s)
      /\ swaps[s] \in Swap /\ s # 0
  BY SwapsTyped, SwapNumbers DEF BooksInv, SwapsInv
<1>2. UNCHANGED <<position, disk>> /\ swaps[s].status = "sent"
  BY DEF SwapLands, ChainOnly, files
<1>3. swaps'[s] = [swaps[s] EXCEPT !.status = "landed"]
      /\ \A r \in DOMAIN swaps : r # s => swaps'[r] = swaps[r]
  BY <1>1 DEF SwapLands, SetSwap, TypeOK
<1>4. CASE p # swaps[s].of
  <2>1. held'[p] = held[p]
    BY <1>1, <1>4 DEF SwapLands, TypeOK
  <2>2. disk[p].pending # 0 => disk[p].pending \in DOMAIN swaps \ {s}
    BY <1>1, <1>4 DEF BookOK
  <2>3. Outcome(disk[p])' = Outcome(disk[p])
    BY <1>2, <1>3, <2>2 DEF Outcome
  <2> QED BY <1>1, <1>2, <2>1, <2>3 DEF HeldOK, Trading
<1>5. CASE p = swaps[s].of /\ ~Trading(p)
  BY <1>1, <1>2, <1>5 DEF HeldOK, Trading, SwapOK, Drawn
<1>6. CASE p = swaps[s].of /\ Trading(p)
  <2> DEFINE b == disk[p]
  <2>1. b \in BookRecord /\ b.pending = s /\ b.kept
    BY <1>1, <1>2, <1>6 DEF SwapOK, BookOK, NoBook, Trading, Closed, TypeOK
  <2>2. held[p] = [sol |-> b.sol, usdc |-> b.usdc, cycles |-> b.cycles]
    BY <1>1, <1>2, <1>6, <2>1 DEF HeldOK, Outcome
  <2>3. held'[p] = [sol |-> b.sol + SolDelta(swaps[s]), usdc |-> b.usdc + UsdcDelta(swaps[s]),
                    cycles |-> IF swaps[s].side = "SOL" THEN b.cycles + 1 ELSE b.cycles]
    BY <1>1, <1>6, <2>2 DEF SwapLands, TypeOK
  <2>4. b.sol + SolDelta(swaps[s]) \in Nat /\ b.usdc + UsdcDelta(swaps[s]) \in Nat
    <3>1. /\ swaps[s].in \in Nat /\ swaps[s].side \in {"SOL", "USDC"}
          /\ b.sol \in Nat /\ b.usdc \in Nat
          /\ swaps[s].in <= IF swaps[s].side = "SOL" THEN b.sol ELSE b.usdc
      BY <1>1, <2>1 DEF BookOK, Swap, BookRecord
    <3>2. swaps[s].in \div PRICE \in Nat /\ swaps[s].in * PRICE \in Nat
      BY <3>1, Constants
    <3> HIDE DEF b
    <3> QED BY <3>1, <3>2 DEF SolDelta, UsdcDelta
  <2>5. LET t == swaps'[s]
        IN  /\ SolDelta(t) = SolDelta(swaps[s]) /\ UsdcDelta(t) = UsdcDelta(swaps[s])
                              /\ t.side = swaps[s].side /\ t.status = "landed"
    BY <1>1, <1>3 DEF Swap, SolDelta, UsdcDelta
  <2>6. /\ Record(b, swaps'[s]).sol = b.sol + SolDelta(swaps[s])
        /\ Record(b, swaps'[s]).usdc = b.usdc + UsdcDelta(swaps[s])
        /\ Record(b, swaps'[s]).cycles = IF swaps[s].side = "SOL" THEN b.cycles + 1 ELSE b.cycles
    BY <2>1, <2>4, <2>5 DEF Record, BookRecord, MaxOf
  <2>7. Outcome(disk[p])' = held'[p]
    BY <1>1, <1>2, <2>1, <2>3, <2>5, <2>6 DEF Outcome
  <2> QED BY <1>2, <1>6, <2>1, <2>7 DEF HeldOK, Trading
<1> QED BY <1>4, <1>5, <1>6

\* Sending a swap, and its failing or expiring, moves nothing.
LEMMA SwapsMoveNothing ==
  ASSUME BooksInv, SendsSwap \/ \E s \in DOMAIN swaps : SwapEnds(s)
  PROVE  \A p \in Positions : HeldOK(p)'
<1>1. UNCHANGED <<position, held, disk>>
  BY DEF SendsSwap, SwapEnds, ChainOnly, files
<1>2. PICK n \in DOMAIN swaps, status \in {"sent", "failed", "expired"} :
        SetSwap(n, status) /\ swaps[n].status \in {"signed", "sent"}
  <2>1. CASE SendsSwap
    BY <2>1, SwapsTyped, BookUnderWork DEF SendsSwap, Pending, BooksInv, Swapping
  <2>2. CASE \E s \in DOMAIN swaps : SwapEnds(s)
    BY <2>2 DEF SwapEnds
  <2> QED BY <2>1, <2>2
<1>3. swaps \in Seq(Swap) /\ swaps[n] \in Swap
  BY SwapsTyped, SwapNumbers DEF BooksInv, SwapsInv, TypeOK
<1>4. swaps'[n].status = status /\ \A r \in DOMAIN swaps : r # n => swaps'[r] = swaps[r]
  BY <1>2, <1>3 DEF SetSwap, Swap
<1> QED BY <1>1, <1>2, <1>4, HoldingsStay

LEMMA BooksInvInit == Init => BooksInv
<1> SUFFICES ASSUME Init PROVE BooksInv
  OBVIOUS
<1> QED BY SwapsInvInit DEF Init, BooksInv, HeldOK, Trading

LEMMA BooksInvNext ==
  ASSUME ~STATE_MAY_BE_LOST, ~SCANS_LAG, FailingLookups = {}, BooksInv, [Next]_vars
  PROVE  BooksInv'
<1>1. SwapsInv /\ SwapsInv'
  BY SwapsInvNext DEF BooksInv
<1>2. CASE UNCHANGED vars
  BY <1>2, HoldingsStay, <1>1 DEF vars, chain, files, BooksInv
<1>3. CASE Runner
  <2>1. CASE ListStep
    BY <1>1, <2>1, SwapsTyped, ListStepKeepsTypes, HoldingsStay DEF chain, files, BooksInv
  <2>2. CASE Restart
    BY <1>1, <2>2, RestartKeepsSwaps, HoldingsStay DEF chain, BooksInv
  <2>3. CASE \E p \in Positions : DropBook(p)
    BY <1>1, <2>3, NoBookKeepsHoldings DEF NoBookStep, BooksInv
  <2>4. CASE SettleReturns
    BY <1>1, <2>4, NoBookKeepsHoldings DEF NoBookStep, SettleReturns, Goto, SwapsInv, TaskOK,
       Working, Paying, BooksInv
  <2>5. CASE \/ ReadStatus \/ ReadHeight \/ ReadLanded \/ Recheck \/ Act \/ NoTrade \/ Send
             \/ Confirm \/ ReadMeta \/ UnwindFails \/ ReadBalance
    BY <1>1, <2>5, SwapsTyped, BookSteps, BookStepKeepsHoldings, SwapsMoveNothing DEF BooksInv
  <2>6. CASE Trade \/ SecondLeg \/ Unwind
    BY <1>1, <2>6, BegunSwapKeepsHoldings DEF BooksInv
  <2>7. CASE SendSettle \/ SettleErrors \/ DrawErrors \/ \E p \in Positions : SendDraw(p)
    <3>1. UNCHANGED <<position, held, swaps, disk>>
      BY <2>7 DEF SendSettle, SettleErrors, DrawErrors, SendDraw, files
    <3> QED BY <1>1, <3>1, HoldingsStay DEF BooksInv
  <2>8. CASE \E p \in Positions : Adopt(p)
    BY <1>1, <2>8, NewBookKeepsHoldings DEF NewBookStep, BooksInv
  <2>9. CASE DrawReturns
    BY <1>1, <2>9, NewBookKeepsHoldings DEF NewBookStep, DrawReturns, Goto, SwapsInv, TaskOK,
       BooksInv
  <2> QED
    BY <1>3, <2>1, <2>2, <2>3, <2>4, <2>5, <2>6, <2>7, <2>8, <2>9 DEF Runner, ListStep
<1>4. CASE SkipTick \/ Exit
  BY <1>1, <1>4, RestartKeepsSwaps, HoldingsStay DEF chain, BooksInv
<1>5. CASE PositionStep
  BY <1>1, <1>5, PositionStepKeepsHoldings DEF BooksInv
<1>6. CASE Swapped
  BY <1>1, <1>6, SwapLandsAsBooked, SwapsMoveNothing DEF Swapped, BooksInv
<1> QED BY <1>2, <1>3, <1>4, <1>5, <1>6 DEF Next, PositionStep

\* While the state file outlives the runner, scans are up to date and a landed swap can be
\* looked up, the book of a trading position says exactly what the chain did for it
\* (RunnerProperties, state.ts:33), across any number of crashes, lost answers and swaps
\* that land late.
THEOREM BooksAreTrue ==
  ASSUME ~STATE_MAY_BE_LOST, ~SCANS_LAG, FailingLookups = {}
  PROVE  Spec => []BooksTellTheTruth
<1>1. BooksInv /\ [Next]_vars => BooksInv'
  BY BooksInvNext
<1>2. BooksInv => BooksTellTheTruth
  <2> SUFFICES ASSUME BooksInv, NEW p \in Positions, Trading(p), BookOf(p).kept
               PROVE  held[p] = Outcome(BookOf(p))
    BY DEF BooksTellTheTruth, Outcome
  <2>1. BookOf(p) = disk[p]
    BY DEF BookOf, BooksInv, SwapsInv, FilesAgree
  <2> QED BY <2>1 DEF BooksInv, HeldOK
<1> QED BY BooksInvInit, <1>1, <1>2, PTL DEF Spec

\* A step that changes a kept book whose pending swap was sent or landed records that swap.
LEMMA ForgottenStep ==
  ASSUME FailingLookups = {}, SwapsInv, [Next]_vars,
         NEW p \in Positions, pc # "down", pc' # "down", books[p].pending # 0,
         swaps[books[p].pending].status \in {"sent", "landed"}, books'[p].kept
  PROVE  books'[p] \in {books[p], Record(books[p], swaps[books[p].pending])}
<1>1. /\ TypeOK /\ TaskOK /\ PendingOK /\ DrawingOK /\ books = disk /\ BookOK(p) /\ SeenOK(p)
  BY DEF SwapsInv, FilesAgree
<1>2. ASSUME NEW q \in Positions, NEW b, SaveBook(q, b), q # p
      PROVE  books'[p] = books[p]
  BY <1>1, <1>2 DEF SaveBook, Save, TypeOK
<1>3. CASE UNCHANGED books
  BY <1>3
<1>4. CASE BookStep
  <2>1. CASE p # task.p
    BY <1>2, <1>4, <2>1, SwapsTyped, BookUnderWork
       DEF BookStep, KeepsBook, RecordsBook, ClearsBook, files
  <2>2. CASE p = task.p
    BY <1>1, <1>4, <2>2
       DEF BookStep, KeepsBook, RecordsBook, ClearsBook, files, Book, Pending, SaveBook, Save,
           TypeOK
  <2> QED BY <2>1, <2>2
<1>5. CASE Trade \/ SecondLeg \/ Unwind
  <2>1. PICK b : SaveBook(task.p, b) /\ Book.pending = 0 /\ pc \in Working
    BY <1>5 DEF Trade, SecondLeg, Unwind, BeginSwap, Working, Deciding
  <2> QED BY <1>2, <2>1, SwapsTyped, BookUnderWork DEF Book
<1>6. ASSUME NEW q \in Positions, NewBookStep(q)
      PROVE  books'[p] = books[p]
  <2>1. ~disk[q].kept
    BY <1>1, <1>6 DEF SwapsInv, NewBookStep, Adopt, DrawReturns, Goto, SeenOK, DrawingOK, InTick
  <2>2. p # q
    BY <1>1, <2>1 DEF BookOK, NoBook
  <2> QED BY <1>2, <1>6, <2>2, SwapsTyped, NewBookKeepsTypes
<1>7. ASSUME NEW q \in Positions, NoBookStep(q)
      PROVE  books'[p] = books[p]
  <2>1. SaveBook(q, NoBook)
    BY <1>7, SwapsTyped, NoBookKeepsTypes
  <2>2. p # q
    BY <1>1, <2>1 DEF SaveBook, Save, TypeOK, NoBook
  <2> QED BY <1>2, <2>1, <2>2
<1>8. CASE Runner
  <2>1. CASE \/ ListStep \/ SendSettle \/ SettleErrors \/ DrawErrors
             \/ \E q \in Positions : SendDraw(q)
    BY <1>3, <2>1, SwapsTyped, ListStepKeepsTypes
       DEF SendSettle, SettleErrors, DrawErrors, SendDraw, files
  <2>2. CASE Restart
    BY <2>2 DEF Restart, Goto
  <2>3. CASE (\E q \in Positions : DropBook(q)) \/ SettleReturns
    BY <1>1, <1>7, <2>3 DEF NoBookStep, SettleReturns, Goto, TaskOK, Working, Paying
  <2>4. CASE \/ ReadStatus \/ ReadHeight \/ ReadLanded \/ Recheck \/ Act \/ NoTrade \/ Send
             \/ Confirm \/ ReadMeta \/ UnwindFails \/ ReadBalance
    BY <1>3, <1>4, <2>4, SwapsTyped, BookSteps DEF SendsSwap, files
  <2>5. CASE (\E q \in Positions : Adopt(q)) \/ DrawReturns
    BY <1>1, <1>6, <2>5 DEF NewBookStep, DrawReturns, Goto, TaskOK
  <2> QED
    BY <1>5, <1>8, <2>1, <2>2, <2>3, <2>4, <2>5 DEF Runner, ListStep
<1>9. CASE SkipTick \/ Exit
  BY <1>3, <1>9 DEF SkipTick, Exit, files
<1>10. CASE PositionStep
  BY <1>3, <1>10, SwapsTyped, PositionStepKeepsTypes DEF files
<1>11. CASE Swapped
  BY <1>3, <1>11 DEF Swapped, SwapLands, SwapEnds, ChainOnly, files
<1> QED
  BY <1>3, <1>8, <1>9, <1>10, <1>11 DEF Next, PositionStep, vars, files

\* Under the same conditions a pending swap is forgotten only when it did not land and
\* cannot land any more (RunnerProperties; agent.ts:390, orca.ts:185-187).
THEOREM ForgottenSwapsCannotLand ==
  ASSUME ~STATE_MAY_BE_LOST, ~SCANS_LAG, FailingLookups = {}
  PROVE  Spec => ForgottenCannotLand
<1> DEFINE Remembers ==
      \A p \in Positions :
        LET s == books[p].pending
        IN  /\ pc # "down" /\ pc' # "down" /\ s # 0 /\ swaps[s].status \in {"sent", "landed"}
            /\ books'[p].kept
            => books'[p] \in {books[p], Record(books[p], swaps[s])}
<1>1. SwapsInv /\ [Next]_vars => SwapsInv'
  BY SwapsInvNext
<1>2. SwapsInv /\ [Next]_vars => [Remembers]_vars
  BY ForgottenStep
<1> QED BY SwapsInvInit, <1>1, <1>2, PTL DEF Spec, ForgottenCannotLand
-----------------------------------------------------------------------------
(* Settlements spend their own money *)

\* What is due stays due.
LEMMA DueStaysDue ==
  ASSUME NEW t \in Int, NEW n \in Nat, NEW m \in Nat, n <= m, DueBy(t, n)
  PROVE  DueBy(t, m)
BY Constants DEF DueBy

\* For the one error of its clock, the runner takes a book as due exactly when it is.
LEMMA DueIsDue ==
  ASSUME \A e1, e2 \in ClockErrors : e1 = e2, TypeOK, SkewOK, pc \in InTick,
         NEW b \in BookRecord
  PROVE  DueToSettle(b) <=> DueBy(b.settle_at, now)
BY DEF DueToSettle, Clock, DueBy, SkewOK

\* A runner that works on no book is settling none.
LEMMA IdleSettlesNothing ==
  ASSUME pc' \notin Working
  PROVE  SettlingOK'
BY DEF SettlingOK, SettlingNow, Working, Resolving, Swapping, Deciding, Paying

\* Swaps that have ended do not begin again.
SwapsGoOn ==
  \A s \in DOMAIN swaps :
    /\ swaps'[s].side = swaps[s].side
    /\ swaps'[s].status \in {"signed", "sent"} => swaps[s].status \in {"signed", "sent"}

\* A step leaves a settlement of a trading position as harmless as it was.
Harmless(tx) ==
  /\ disk'[tx.p].kept /\ disk'[tx.p].settle_at = disk[tx.p].settle_at
  /\ disk'[tx.p].pending \in {0, disk[tx.p].pending}
  /\ held[tx.p].sol <= held'[tx.p].sol
  /\ pc' = "trade" => task'.p # tx.p

LEMMA SettleStays ==
  ASSUME MoneyInv, NEW tx \in settles, now' \in Nat, now <= now', SwapsGoOn, TypeOK',
         position'[tx.p] = position[tx.p] \/ position'[tx.p] \in Closed,
         /\ Trading(tx.p) /\ Trading(tx.p)' /\ ~tx.emergency
         /\ disk[tx.p].kept /\ DueBy(disk[tx.p].settle_at, now)
         => Harmless(tx)
  PROVE  SettleOK(tx)'
<1>1. SettleOK(tx) /\ tx.p \in Positions /\ tx.amount \in Int /\ BookOK(tx.p) /\ TypeOK
  BY DEF MoneyInv, BooksInv, SwapsInv, TypeOK
<1>2. CASE position'[tx.p] \in Closed
  BY <1>2 DEF SettleOK, Closed, Drawn, Trading
<1>3. CASE position'[tx.p] = position[tx.p] /\ ~(Trading(tx.p) /\ ~tx.emergency)
  BY <1>1, <1>3 DEF SettleOK, Trading
<1>4. CASE position'[tx.p] = position[tx.p] /\ Trading(tx.p) /\ ~tx.emergency
  <2>1. /\ disk[tx.p].kept /\ DueBy(disk[tx.p].settle_at, now) /\ Harmless(tx)
        /\ tx.amount <= held[tx.p].sol
    BY <1>1, <1>4 DEF SettleOK, Trading
  <2>2. DueBy(disk[tx.p].settle_at, now')
    <3>1. disk[tx.p].settle_at \in Int /\ now \in Nat
      BY <1>1 DEF TypeOK, BookRecord
    <3> QED BY <2>1, <3>1, DueStaysDue
  <2>3. tx.amount <= held'[tx.p].sol
    <3>1. held[tx.p].sol \in Int /\ held'[tx.p].sol \in Int
      BY <1>1 DEF TypeOK
    <3> QED BY <1>1, <2>1, <3>1 DEF Harmless
  <2>4. disk'[tx.p].pending # 0 =>
          LET s == swaps'[disk'[tx.p].pending]
          IN  s.side = "USDC" \/ s.status \notin {"signed", "sent"}
    <3>1. SUFFICES ASSUME disk'[tx.p].pending # 0
                   PROVE  LET s == swaps'[disk[tx.p].pending]
                          IN  s.side = "USDC" \/ s.status \notin {"signed", "sent"}
      BY <2>1 DEF Harmless
    <3>2. disk[tx.p].pending # 0 /\ disk[tx.p].pending \in DOMAIN swaps
      BY <1>1, <2>1, <3>1 DEF Harmless, BookOK
    <3> QED BY <1>1, <1>4, <3>2 DEF SettleOK, Trading, SwapsGoOn
  <2> QED BY <1>1, <1>4, <2>1, <2>2, <2>3, <2>4 DEF SettleOK, Trading, Harmless
<1> QED BY <1>2, <1>3, <1>4

\* Whatever the runner learns of a pending swap, it goes on to pay only a book that is due,
\* or in an emergency, and to trade only one that is not.
LEMMA PaysWhatIsDue ==
  ASSUME \A e1, e2 \in ClockErrors : e1 = e2, MoneyInv,
         \/ ReadStatus \/ ReadHeight \/ ReadLanded \/ Recheck \/ Act \/ NoTrade \/ Send
         \/ Confirm \/ ReadMeta \/ UnwindFails \/ ReadBalance
  PROVE  /\ SettlingOK' /\ task'.p = task.p /\ UNCHANGED <<now, loop, position, held, settles>>
         /\ disk'[task.p].settle_at = Book.settle_at /\ disk'[task.p].kept
         /\ disk'[task.p].pending \in {0, Book.pending}
         /\ pc' = "trade" => ~DueBy(Book.settle_at, now)
<1> USE DEF Working, Resolving, Swapping, Deciding, Paying
<1>1. /\ SwapsInv /\ TypeOK /\ SkewOK /\ SettlingOK /\ PendingOK /\ FilesAgree
  BY DEF MoneyInv, BooksInv, SwapsInv
<1>2. BookStep \/ SendsSwap
  BY <1>1, SwapsTyped, BookSteps
<1>3. /\ pc \in Working /\ UNCHANGED <<now, loop, position, held, settles>>
      /\ task.p \in Positions /\ Book = disk[task.p] /\ Book \in BookRecord /\ Book.kept
  BY <1>1, <1>2, SwapsTyped, BookUnderWork DEF BookStep, SendsSwap, chain
<1>4. task'.p = task.p
  BY <1>1, <1>2 DEF BookStep, KeepsBook, RecordsBook, ClearsBook, SendsSwap, TypeOK, TaskRecord
<1>5. DueToSettle(Book) <=> DueBy(Book.settle_at, now)
  BY <1>1, <1>3, DueIsDue DEF InTick
<1> DEFINE Same == disk'[task.p] = Book
           Freed == disk'[task.p].settle_at = Book.settle_at /\ disk'[task.p].kept
                    /\ disk'[task.p].pending = 0
<1>6. ASSUME SaveBook(task.p, Record(Book, Pending)) \/ SaveBook(task.p, Cleared(Book))
      PROVE  Freed
  <2>1. /\ Record(Book, Pending).settle_at = Book.settle_at
        /\ Cleared(Book).settle_at = Book.settle_at
        /\ Record(Book, Pending).pending = 0 /\ Cleared(Book).pending = 0
        /\ Record(Book, Pending).kept /\ Cleared(Book).kept
    BY <1>3 DEF BookRecord, Record, Cleared
  <2>2. disk' = [books EXCEPT ![task.p] = Record(Book, Pending)]
        \/ disk' = [books EXCEPT ![task.p] = Cleared(Book)]
    BY <1>6 DEF SaveBook, Save
  <2> QED BY <1>1, <1>3, <2>1, <2>2 DEF TypeOK
<1>7. ASSUME UNCHANGED files PROVE Same
  BY <1>3, <1>7 DEF files
<1>8. /\ Same \/ Freed
  BY <1>2, <1>6, <1>7 DEF BookStep, KeepsBook, RecordsBook, ClearsBook, SendsSwap
<1> HIDE DEF Same, Freed
<1> DEFINE Pays == \/ pc' \in Paying \cup {"unwind"}
                   \/ pc' \in Swapping /\ task'.after = "settle"
           Rightly == /\ ~task'.emergency /\ Pays => DueBy(Book.settle_at, now)
                      /\ ~task'.emergency /\ pc' \in Paying => disk'[task.p].pending = 0
                      /\ ~task'.emergency /\ pc' \in {"settle", "settling"} =>
                           task'.paying <= disk'[task.p].sol
                      /\ pc' = "trade" => ~DueBy(Book.settle_at, now)
<1>9. Rightly
  <2>1. CASE ReadStatus \/ ReadHeight \/ ReadLanded \/ Recheck
    <3>1. \/ pc' \in {"lookup", "height", "recheck", "act", "books"}
          \/ /\ pc' = "balance" /\ PastLastCall
             /\ task' = [task EXCEPT !.emergency = PastLastCall]
      BY <2>1
         DEF ReadStatus, ReadHeight, ReadLanded, Recheck, AskOn, Unresolved, BookSwap, ClearSwap
    <3>2. task \in TaskRecord
      BY <1>1 DEF TypeOK
    <3>3. [task EXCEPT !.emergency = PastLastCall].emergency = PastLastCall
      BY <3>2 DEF TaskRecord
    <3> QED BY <3>1, <3>3
  <2>2. CASE Act
    <3>1. UNCHANGED files /\ pc = "act" /\ Book.pending = 0
      BY <1>1, <1>3, <2>2 DEF Act, AskOn, PendingOK
    <3>2. /\ pc' \in {"unwind", "balance"} => DueToSettle(Book)
          /\ pc' = "trade" => ~DueToSettle(Book)
          /\ pc' \in {"unwind", "balance", "trade", "books"}
      BY <1>3, <2>2 DEF Act, AskOn, BookRecord
    <3>3. disk'[task.p].pending = 0
      BY <1>7, <3>1 DEF Same
    <3> QED BY <1>5, <3>2, <3>3
  <2>3. CASE NoTrade
    BY <2>3 DEF NoTrade, AskOn
  <2>4. CASE Send \/ Confirm \/ ReadMeta
    <3>1. UNCHANGED task /\ pc \in Swapping
      BY <2>4 DEF Send, Confirm, ReadMeta, SwapFails, SwapInFlight, AskOn
    <3>2. \/ pc' \in {"confirm", "meta", "leg2", "books"}
          \/ pc' = "balance" /\ task.after = "settle" /\ Freed
      BY <1>6, <2>4 DEF Send, Confirm, ReadMeta, SwapFails, SwapInFlight, AskOn
    <3>3. ~task.emergency /\ task.after = "settle" => DueBy(Book.settle_at, now)
      BY <1>1, <1>3, <3>1 DEF SettlingOK, SettlingNow
    <3> QED BY <3>1, <3>2, <3>3 DEF Freed
  <2>5. CASE UnwindFails
    <3>1. /\ pc = "unwind" /\ pc' \in {"balance", "books"} /\ UNCHANGED task
          /\ UNCHANGED files /\ Book.pending = 0
      BY <1>1, <1>3, <2>5 DEF UnwindFails, AskOn, PendingOK
    <3>2. ~task.emergency => DueBy(Book.settle_at, now)
      BY <1>1, <1>3, <3>1 DEF SettlingOK, SettlingNow
    <3>3. disk'[task.p].pending = 0
      BY <1>7, <3>1 DEF Same
    <3> QED BY <3>1, <3>2, <3>3
  <2>6. CASE ReadBalance
    <3> DEFINE returned == MinOf(Book.sol, wallet.sol)
    <3>1. /\ pc = "balance" /\ UNCHANGED files
          /\ \/ pc' = "books"
             \/ pc' = "settle" /\ task' = [task EXCEPT !.paying = returned]
      BY <2>6 DEF ReadBalance, AskOn
    <3>2. returned <= Book.sol /\ disk'[task.p] = Book
      <4>1. Book.sol \in Int /\ wallet.sol \in Int
        BY <1>1, <1>3 DEF TypeOK, BookRecord
      <4> QED BY <1>7, <3>1, <4>1 DEF MinOf, Same
    <3>3. /\ [task EXCEPT !.paying = returned].paying = returned
          /\ [task EXCEPT !.paying = returned].emergency = task.emergency
      BY <1>1 DEF TypeOK, TaskRecord
    <3>4. ~task.emergency => DueBy(Book.settle_at, now) /\ Book.pending = 0
      BY <1>1, <1>3, <3>1 DEF SettlingOK, SettlingNow
    <3> HIDE DEF returned
    <3> QED BY <3>1, <3>2, <3>3, <3>4
  <2> QED BY <2>1, <2>2, <2>3, <2>4, <2>5, <2>6
<1>10. SettlingOK'
  <2>1. disk'[task'.p].settle_at = Book.settle_at
    BY <1>4, <1>8 DEF Same, Freed
  <2>2. disk'[task'.p] = disk'[task.p] /\ now' = now
    BY <1>3, <1>4
  <2>3. ~task'.emergency /\ SettlingNow' => DueBy(disk'[task'.p].settle_at, now')
    BY <1>9, <2>1, <2>2 DEF SettlingNow
  <2>4. /\ ~task'.emergency /\ pc' \in Paying => disk'[task'.p].pending = 0
        /\ ~task'.emergency /\ pc' \in {"settle", "settling"} =>
             task'.paying <= disk'[task'.p].sol
    BY <1>9, <2>2
  <2> QED BY <2>3, <2>4 DEF SettlingOK
<1> QED BY <1>3, <1>4, <1>8, <1>9, <1>10 DEF Same, Freed

\* A swap that begins while a settlement is in flight buys SOL.
LEMMA BegunSwapKeepsMoney ==
  ASSUME MoneyInv, Trade \/ SecondLeg \/ Unwind
  PROVE  SkewOK' /\ SettlingOK' /\ \A tx \in settles' : SettleOK(tx)'
<1> USE DEF Working, Resolving, Swapping, Deciding, Paying, InTick
<1>1. /\ SwapsInv /\ TypeOK /\ SkewOK /\ SettlingOK /\ \A tx \in settles : SettleOK(tx)
      /\ SwapsInv' /\ TypeOK'
  BY BegunSwapKeepsSwaps DEF MoneyInv, BooksInv, SwapsInv
<1>2. PICK side \in {"SOL", "USDC"}, amount \in Nat, after \in {"end", "leg2", "settle"} :
        /\ BeginSwap(side, amount, after) /\ pc \in {"trade", "leg2", "unwind"}
        /\ side = "SOL" => pc = "trade"
        /\ after = "settle" <=> pc = "unwind"
  BY <1>1, SwapsTyped, BegunFromBook
<1>3. task.p \in Positions /\ Book = disk[task.p] /\ Book \in BookRecord /\ Book.kept
  BY <1>1, <1>2, SwapsTyped, BookUnderWork
<1> DEFINE n == Len(swaps) + 1
           b == [Book EXCEPT !.pending = n]
           new == [of |-> task.p, side |-> side, in |-> amount, status |-> "signed"]
<1>4. /\ n \notin DOMAIN swaps /\ swaps'[n] = new /\ \A s \in DOMAIN swaps : swaps'[s] = swaps[s]
      /\ disk' = [disk EXCEPT ![task.p] = b]
  BY <1>1, <1>2, SwapsTyped, BegunSwapKeepsTypes
<1>5. /\ UNCHANGED <<now, position, held, settles, loop>> /\ pc' = "send"
      /\ task' = [task EXCEPT !.after = after]
  BY <1>2 DEF BeginSwap
<1>6. b.kept /\ b.settle_at = Book.settle_at /\ b.pending = n
  BY <1>3 DEF BookRecord
<1>7. disk'[task.p] = b /\ \A p \in Positions : p # task.p => disk'[p] = disk[p]
  BY <1>1, <1>3, <1>4 DEF TypeOK
<1>8. new.side = side
  OBVIOUS
<1> HIDE DEF n, b, new
<1>9. task'.p = task.p /\ task'.after = after /\ task'.emergency = task.emergency
  BY <1>1, <1>5 DEF TypeOK, TaskRecord
<1>10. SkewOK'
  BY <1>1, <1>2, <1>5 DEF SkewOK
<1>11. SettlingOK'
  <2>1. ~task.emergency /\ after = "settle" => DueBy(Book.settle_at, now)
    BY <1>1, <1>2, <1>3 DEF SettlingOK, SettlingNow
  <2> QED BY <1>5, <1>6, <1>7, <1>9, <2>1 DEF SettlingOK, SettlingNow
<1>12. ASSUME NEW tx \in settles PROVE SettleOK(tx)'
  <2>1. SettleOK(tx) /\ tx.p \in Positions
    BY <1>1 DEF TypeOK
  <2>2. CASE tx.p # task.p
    <3>1. disk'[tx.p] = disk[tx.p]
      BY <1>7, <2>1, <2>2
    <3>2. SwapsGoOn
      BY <1>4 DEF SwapsGoOn
    <3>3. /\ now' \in Nat /\ now <= now' /\ position'[tx.p] = position[tx.p]
          /\ held[tx.p].sol <= held'[tx.p].sol
      BY <1>1, <1>5, <2>1 DEF TypeOK
    <3>4. disk[tx.p].kept => Harmless(tx)
      BY <1>5, <3>1, <3>3 DEF Harmless
    <3> QED BY <1>1, <3>2, <3>3, <3>4, SettleStays
  <2>3. CASE tx.p = task.p
    <3>1. Trading(tx.p) /\ ~tx.emergency => side = "USDC"
      BY <1>2, <2>1, <2>3 DEF SettleOK
    <3> QED
      BY <1>3, <1>4, <1>5, <1>6, <1>7, <1>8, <2>1, <2>3, <3>1 DEF SettleOK, Trading
  <2> QED BY <2>2, <2>3
<1> QED BY <1>5, <1>10, <1>11, <1>12

LEMMA SettlesTyped ==
  ASSUME TypeOK, NEW tx \in settles
  PROVE  tx.p \in Positions /\ held[tx.p].sol \in Int /\ now \in Nat
<1>1. settles \subseteq [p : Positions, amount : Int, emergency : BOOLEAN, at : Nat]
  BY DEF TypeOK
<1>2. tx.p \in Positions
  BY <1>1
<1> QED BY <1>2 DEF TypeOK

\* Learning of a pending swap frees no SOL that a settlement in flight is to pay.
LEMMA LearningKeepsMoney ==
  ASSUME \A e1, e2 \in ClockErrors : e1 = e2, MoneyInv,
         \/ ReadStatus \/ ReadHeight \/ ReadLanded \/ Recheck \/ Act \/ NoTrade \/ Send
         \/ Confirm \/ ReadMeta \/ UnwindFails \/ ReadBalance
  PROVE  SkewOK' /\ SettlingOK' /\ \A tx \in settles' : SettleOK(tx)'
<1> USE DEF Working, Resolving, Swapping, Deciding, Paying, InTick
<1>1. /\ SwapsInv /\ TypeOK /\ SkewOK /\ FilesAgree /\ TypeOK'
      /\ BookStep \/ SendsSwap
  BY SwapsTyped, BookSteps, BookStepKeepsSwaps, SendsSwapKeepsSwaps DEF MoneyInv, BooksInv, SwapsInv
<1>2. /\ SettlingOK' /\ task'.p = task.p /\ UNCHANGED <<now, loop, position, held, settles>>
      /\ disk'[task.p].settle_at = Book.settle_at /\ disk'[task.p].kept
      /\ disk'[task.p].pending \in {0, Book.pending}
      /\ pc' = "trade" => ~DueBy(Book.settle_at, now)
  BY PaysWhatIsDue
<1>3. pc \in Working /\ task.p \in Positions /\ Book = disk[task.p] /\ books = disk
  BY <1>1, SwapsTyped, BookUnderWork DEF BookStep, SendsSwap, FilesAgree
<1>4. SkewOK'
  BY <1>1, <1>2, <1>3 DEF SkewOK, BookStep, SendsSwap
<1>5. SwapsGoOn
  <2>1. CASE BookStep
    BY <2>1 DEF BookStep, chain, SwapsGoOn
  <2>2. CASE SendsSwap
    <3>1. /\ swaps \in Seq(Swap) /\ Book.pending \in DOMAIN swaps /\ swaps[Book.pending] \in Swap
          /\ swaps' = [swaps EXCEPT ![Book.pending].status = "sent"]
          /\ swaps[Book.pending].status = "signed"
      BY <1>1, <2>2, SwapsTyped, BookUnderWork DEF SendsSwap, SetSwap, Pending, TypeOK
    <3> QED BY <3>1 DEF SwapsGoOn, Swap
  <2> QED BY <1>1, <2>1, <2>2
<1>6. ASSUME NEW p \in Positions, p # task.p PROVE disk'[p] = disk[p]
  BY <1>1, <1>3, <1>6
     DEF BookStep, SendsSwap, KeepsBook, RecordsBook, ClearsBook, SaveBook, Save, files, TypeOK
<1>7. ASSUME NEW tx \in settles PROVE SettleOK(tx)'
  <2>1. tx.p \in Positions /\ now' \in Nat /\ now <= now' /\ held[tx.p].sol <= held'[tx.p].sol
    <3>1. tx.p \in Positions /\ held[tx.p].sol \in Int /\ now \in Nat
      BY <1>1, SettlesTyped
    <3>2. held' = held /\ now' = now
      BY <1>2
    <3> QED BY <3>1, <3>2
  <2>2. disk[tx.p].kept /\ DueBy(disk[tx.p].settle_at, now) => Harmless(tx)
    <3>1. CASE tx.p = task.p
      BY <1>2, <1>3, <2>1, <3>1 DEF Harmless
    <3>2. CASE tx.p # task.p
      BY <1>2, <1>6, <2>1, <3>2 DEF Harmless
    <3> QED BY <3>1, <3>2
  <2> QED BY <1>1, <1>2, <1>5, <2>1, <2>2, SettleStays
<1> QED BY <1>2, <1>4, <1>7

\* Steps that work on no swap, and neither sell nor trade.
LEMMA RunnerKeepsMoney ==
  ASSUME MoneyInv, ~STATE_MAY_BE_LOST, TypeOK',
         \/ ListStep \/ Restart \/ Exit \/ SkipTick \/ SettleErrors \/ DrawErrors
         \/ \E p \in Positions : NewBookStep(p) \/ NoBookStep(p) \/ SendDraw(p)
  PROVE  SkewOK' /\ SettlingOK' /\ \A tx \in settles' : SettleOK(tx)'
<1> USE DEF Working, Resolving, Swapping, Deciding, Paying, InTick
<1>1. /\ SwapsInv /\ TypeOK /\ SkewOK /\ FilesAgree /\ \A q \in Positions : BookOK(q) /\ SeenOK(q)
      /\ DrawingOK
  BY DEF MoneyInv, BooksInv, SwapsInv
<1>2. /\ UNCHANGED <<now, position, held, swaps>> /\ settles' \subseteq settles
      /\ pc' \notin {"trade"}
  BY DEF ListStep, StartTick, NextPass, EndTick, NotDueYet, TakeBook, PassOver, Restart, Exit,
     SkipTick, NewBookStep, Adopt, DrawReturns, NoBookStep, DropBook, SettleReturns,
     SettleErrors, SendDraw, DrawErrors, Goto, chain
<1>3. SkewOK'
  <2>1. CASE StartTick
    BY <2>1 DEF StartTick, SkewOK
  <2>2. CASE ~StartTick
    <3>1. pc' \in {"idle", "down"} \/ (pc \in InTick /\ loop'.skew = loop.skew)
      <4>1. CASE DrawReturns \/ SettleReturns
        <5>1. task.p \in Positions
          BY <1>1, <4>1 DEF DrawReturns, SettleReturns, Goto, SwapsInv, TaskOK
        <5> QED BY <1>1, <4>1, <5>1, LoopFields DEF DrawReturns, SettleReturns, Goto, Statuses
      <4>2. CASE ~(DrawReturns \/ SettleReturns)
        BY <1>1, <2>2, <4>2
           DEF ListStep, NextPass, EndTick, NotDueYet, TakeBook, PassOver, Restart, Exit, SkipTick,
               NewBookStep, Adopt, NoBookStep, DropBook, SettleErrors, SendDraw, DrawErrors, Goto,
               Visit, TypeOK, LoopRecord
      <4> QED BY <4>1, <4>2
    <3> QED BY <1>1, <3>1 DEF SkewOK
  <2> QED BY <2>1, <2>2
<1>4. SettlingOK'
  <2>1. CASE \E q \in Positions : TakeBook(q)
    BY <2>1 DEF TakeBook, Goto, SettlingOK, SettlingNow
  <2>2. CASE SkipTick
    BY <2>2, IdleSettlesNothing DEF SkipTick
  <2>3. CASE ~SkipTick /\ ~\E q \in Positions : TakeBook(q)
    <3>1. pc' \notin Working
      BY <2>3 DEF ListStep, StartTick, NextPass, EndTick, NotDueYet, PassOver, Restart, Exit,
         NewBookStep, Adopt, DrawReturns, NoBookStep, DropBook, SettleReturns,
         SettleErrors, SendDraw, DrawErrors, Goto
    <3> QED BY <3>1, IdleSettlesNothing
  <2> QED BY <2>1, <2>2, <2>3
<1>5. ASSUME NEW tx \in settles PROVE SettleOK(tx)'
  <2>1. tx.p \in Positions /\ now' \in Nat /\ now <= now' /\ held[tx.p].sol <= held'[tx.p].sol
        /\ position'[tx.p] = position[tx.p]
    <3>1. tx.p \in Positions /\ held[tx.p].sol \in Int /\ now \in Nat
      BY <1>1, SettlesTyped
    <3>2. held' = held /\ now' = now /\ position' = position
      BY <1>2
    <3> QED BY <3>1, <3>2
  <2>2. SwapsGoOn
    BY <1>2 DEF SwapsGoOn
  <2>3. Trading(tx.p) /\ disk[tx.p].kept => disk'[tx.p] = disk[tx.p]
    <3>1. ASSUME NEW p \in Positions, NewBookStep(p)
          PROVE  Trading(tx.p) /\ disk[tx.p].kept => disk'[tx.p] = disk[tx.p]
      <4>1. ~disk[p].kept
        BY <1>1, <3>1 DEF NewBookStep, Adopt, DrawReturns, Goto, SeenOK, DrawingOK, FilesAgree
      <4>2. PICK b : SaveBook(p, b)
        BY <1>1, <3>1, SwapsTyped, NewBookKeepsTypes
      <4>3. books = disk
        BY <1>1, <3>1 DEF NewBookStep, Adopt, DrawReturns, Goto, FilesAgree
      <4> QED BY <1>1, <2>1, <4>1, <4>2, <4>3 DEF SaveBook, Save, TypeOK
    <3>2. ASSUME NEW p \in Positions, NoBookStep(p)
          PROVE  Trading(tx.p) /\ disk[tx.p].kept => disk'[tx.p] = disk[tx.p]
      <4>1. position[p] \in Closed
        BY <1>1, <3>2
           DEF NoBookStep, DropBook, SettleReturns, Goto, Visit, FilesAgree, SeenOK, Closed
      <4>2. SaveBook(p, NoBook) /\ books = disk
        BY <1>1, <3>2 DEF NoBookStep, DropBook, SettleReturns, Goto, FilesAgree
      <4> QED BY <1>1, <2>1, <4>1, <4>2 DEF SaveBook, Save, TypeOK, Trading, Closed
    <3>3. CASE Restart \/ Exit \/ SkipTick
      BY <1>1, <3>3, RestartKeepsSwaps
    <3>4. CASE ListStep
      BY <1>1, <3>4, SwapsTyped, ListStepKeepsTypes DEF files
    <3>5. CASE SettleErrors \/ DrawErrors \/ \E p \in Positions : SendDraw(p)
      BY <3>5 DEF SettleErrors, SendDraw, DrawErrors, files
    <3> QED BY <3>1, <3>2, <3>3, <3>4, <3>5
  <2>4. Trading(tx.p) /\ disk[tx.p].kept => Harmless(tx)
    BY <1>2, <2>1, <2>3 DEF Harmless
  <2> QED BY <1>2, <2>1, <2>2, <2>4, SettleStays
<1> QED BY <1>2, <1>3, <1>4, <1>5

\* A settlement that is sent is due, has no pending swap and pays what its position holds.
LEMMA SendSettleKeepsMoney ==
  ASSUME MoneyInv, SendSettle, TypeOK'
  PROVE  SkewOK' /\ SettlingOK' /\ \A tx \in settles' : SettleOK(tx)'
<1> USE DEF Working, Resolving, Swapping, Deciding, Paying, InTick
<1>1. /\ SwapsInv /\ TypeOK /\ TaskOK /\ SkewOK /\ SettlingOK /\ FilesAgree
      /\ \A p \in Positions : BookOK(p) /\ HeldOK(p)
  BY DEF MoneyInv, BooksInv, SwapsInv
<1>2. /\ pc = "settle" /\ pc' = "settling" /\ task' = [task EXCEPT !.sent = now]
      /\ settles' = settles \cup {SettleTx'}
      /\ UNCHANGED <<now, position, held, swaps, disk, loop>>
  BY DEF SendSettle, Goto, files
<1>3. /\ task'.p = task.p /\ task'.emergency = task.emergency /\ task'.paying = task.paying
      /\ task.p \in Positions /\ disk[task.p].kept
  BY <1>1, <1>2 DEF TypeOK, TaskRecord, TaskOK, FilesAgree
<1>4. SkewOK'
  BY <1>1, <1>2 DEF SkewOK
<1>5. SettlingOK'
  BY <1>1, <1>2, <1>3 DEF SettlingOK, SettlingNow
<1>6. ASSUME NEW tx \in settles PROVE SettleOK(tx)'
  <2>1. tx.p \in Positions /\ now' \in Nat /\ now <= now' /\ held[tx.p].sol <= held'[tx.p].sol
    <3>1. tx.p \in Positions /\ held[tx.p].sol \in Int /\ now \in Nat
      BY <1>1, SettlesTyped
    <3>2. held' = held /\ now' = now
      BY <1>2
    <3> QED BY <3>1, <3>2
  <2>2. SwapsGoOn /\ (disk[tx.p].kept => Harmless(tx))
    BY <1>2, <2>1 DEF SwapsGoOn, Harmless
  <2> QED BY <1>2, <2>1, <2>2, SettleStays
<1>7. ASSUME NEW tx, tx = SettleTx' PROVE SettleOK(tx)'
  <2>1. tx.p = task.p /\ tx.amount = task.paying /\ tx.emergency = task.emergency
    BY <1>3, <1>7 DEF SettleTx
  <2>2. position[tx.p] \in Drawn
    BY <1>1, <1>3, <2>1 DEF BookOK
  <2>3. ~tx.emergency =>
          /\ DueBy(disk[tx.p].settle_at, now) /\ disk[tx.p].pending = 0
          /\ tx.amount <= disk[tx.p].sol
    BY <1>1, <1>2, <2>1 DEF SettlingOK, SettlingNow
  <2>4. Trading(tx.p) /\ ~tx.emergency => held[tx.p].sol = disk[tx.p].sol
    <3>1. disk[tx.p].pending = 0 => Outcome(disk[tx.p]).sol = disk[tx.p].sol
      BY DEF Outcome
    <3>2. Trading(tx.p) => held[tx.p] = Outcome(disk[tx.p])
      BY <1>1, <1>3, <2>1 DEF HeldOK
    <3> QED BY <2>3, <3>1, <3>2
  <2> QED BY <1>2, <1>3, <2>1, <2>2, <2>3, <2>4 DEF SettleOK, Trading
<1> QED BY <1>2, <1>4, <1>5, <1>6, <1>7

\* Time and the chain make nothing less due, and take no SOL from a trading position other
\* than by its settlement.
LEMMA PositionStepKeepsMoney ==
  ASSUME MoneyInv, PositionStep
  PROVE  SkewOK' /\ SettlingOK' /\ \A tx \in settles' : SettleOK(tx)'
<1>1. /\ SwapsInv /\ TypeOK /\ TaskOK /\ SkewOK /\ SettlingOK /\ FilesAgree
      /\ \A tx \in settles : SettleOK(tx)
  BY DEF MoneyInv, BooksInv, SwapsInv
<1>2. /\ TypeOK' /\ UNCHANGED <<swaps, disk, pc, loop, task>>
      /\ \A p \in Positions : \/ position'[p] = position[p]
                              \/ position[p] \in {"absent", "open"}
                              \/ position[p] = "trading" /\ position'[p] \in Closed
  BY <1>1, SwapsTyped, PositionStepKeepsTypes DEF Typed, files
<1>3. now' \in Nat /\ now <= now' /\ settles' \subseteq settles
  <2>1. now' \in {now, now + 1} /\ now \in Nat
    BY <1>1 DEF PositionStep, Tick, Trader, Open, Cancel, Claim, TraderMoves, Lands, DrawLands,
       SettleLands, Lost, TypeOK
  <2>2. settles' \subseteq settles
    BY DEF PositionStep, Tick, Alive, Trader, Open, Cancel, Claim, TraderMoves, Lands, DrawLands,
       SettleLands, Lost
  <2> QED BY <2>1, <2>2
<1>4. SkewOK'
  BY <1>1, <1>2 DEF SkewOK
<1>5. SettlingOK'
  <2>1. ASSUME SettlingNow PROVE disk[task.p].settle_at \in Int
    BY <1>1, <2>1 DEF SettlingNow, TaskOK, TypeOK, BookRecord, Working, Paying, Swapping, Deciding
  <2>2. SettlingNow /\ ~task.emergency => DueBy(disk[task.p].settle_at, now')
    BY <1>1, <1>3, <2>1, DueStaysDue DEF SettlingOK, TypeOK
  <2> QED BY <1>1, <1>2, <2>2 DEF SettlingOK, SettlingNow
<1>6. ASSUME NEW tx \in settles PROVE SettleOK(tx)'
  <2>1. tx.p \in Positions /\ position[tx.p] \in Drawn
    BY <1>1 DEF TypeOK, SettleOK
  <2>2. position'[tx.p] = position[tx.p] \/ position'[tx.p] \in Closed
    BY <1>2, <2>1 DEF Drawn
  <2>3. Trading(tx.p) /\ Trading(tx.p)' => held'[tx.p] = held[tx.p]
    <3>1. CASE Tick \/ Lost \/ Trader
      BY <3>1 DEF Tick, Lost, Trader, Open, Cancel, Claim, TraderMoves
    <3>2. CASE \E d \in draws : DrawLands(d)
      BY <1>1, <2>1, <3>2 DEF DrawLands, Trading, TypeOK
    <3>3. CASE \E s \in settles : SettleLands(s)
      BY <1>1, <2>1, <3>3 DEF SettleLands, Trading, TypeOK
    <3> QED BY <3>1, <3>2, <3>3 DEF PositionStep, Lands
  <2>4. SwapsGoOn
    BY <1>2 DEF SwapsGoOn
  <2>5. held[tx.p].sol \in Int
    BY <1>1, <2>1 DEF TypeOK
  <2>6. /\ Trading(tx.p) /\ Trading(tx.p)' /\ ~tx.emergency
        /\ disk[tx.p].kept /\ DueBy(disk[tx.p].settle_at, now)
        => Harmless(tx)
    BY <1>1, <1>2, <2>3, <2>5 DEF Harmless, SettleOK
  <2> QED BY <1>2, <1>3, <2>2, <2>4, <2>6, SettleStays
<1> QED BY <1>3, <1>4, <1>5, <1>6

\* The swap that lands while a settlement is in flight brings SOL.
LEMMA SwappedKeepsMoney ==
  ASSUME MoneyInv, Swapped
  PROVE  SkewOK' /\ SettlingOK' /\ \A tx \in settles' : SettleOK(tx)'
<1>1. /\ BooksInv /\ SwapsInv /\ TypeOK /\ SkewOK /\ SettlingOK
      /\ \A tx \in settles : SettleOK(tx)
      /\ \A s \in DOMAIN swaps : SwapOK(s)
  BY DEF MoneyInv, BooksInv, SwapsInv
<1>2. PICK s \in DOMAIN swaps : SwapLands(s) \/ SwapEnds(s)
  BY DEF Swapped
<1>3. /\ TypeOK' /\ UNCHANGED <<now, position, disk, pc, loop, task, settles>>
  BY <1>1, <1>2, SwapsTyped, SwapEndKeepsTypes DEF Typed, files, SwapLands, SwapEnds
<1>4. swaps[s] \in Swap /\ swaps[s].of \in Positions /\ s # 0
  BY <1>1, SwapsTyped, SwapNumbers DEF Swap
<1>5. SwapsGoOn
  <2>1. PICK status \in {"landed", "failed", "expired"} :
          swaps'[s] = [swaps[s] EXCEPT !.status = status]
    BY <1>1, <1>2, SwapsTyped, SwapEndKeepsTypes
  <2>2. swaps'[s].status = status /\ swaps'[s].side = swaps[s].side
    BY <1>4, <2>1 DEF Swap
  <2>3. \A r \in DOMAIN swaps : r # s => swaps'[r] = swaps[r]
    BY <1>1, <1>2, SwapsTyped, SwapEndKeepsTypes
  <2> QED BY <2>2, <2>3 DEF SwapsGoOn
<1>6. SkewOK' /\ SettlingOK'
  BY <1>1, <1>3 DEF SkewOK, SettlingOK, SettlingNow
<1>7. ASSUME NEW tx \in settles PROVE SettleOK(tx)'
  <2>1. tx.p \in Positions /\ now' \in Nat /\ now <= now' /\ held[tx.p].sol \in Int
    BY <1>1, <1>3, SettlesTyped
  <2>2. Trading(tx.p) /\ ~tx.emergency => held[tx.p].sol <= held'[tx.p].sol
    <3>1. CASE SwapEnds(s)
      BY <2>1, <3>1 DEF SwapEnds
    <3>2. CASE SwapLands(s) /\ swaps[s].of # tx.p
      <4>1. held'[tx.p] = held[tx.p]
        BY <1>1, <2>1, <3>2 DEF SwapLands, TypeOK
      <4> QED BY <2>1, <4>1
    <3>3. CASE SwapLands(s) /\ swaps[s].of = tx.p /\ Trading(tx.p) /\ ~tx.emergency
      <4>1. disk[tx.p].pending = s /\ swaps[s].status = "sent"
        BY <1>1, <3>3 DEF SwapLands, SwapOK, Trading, Closed
      <4>2. swaps[s].side = "USDC"
        BY <1>1, <1>4, <3>3, <4>1 DEF SettleOK
      <4>3. SolDelta(swaps[s]) \in Nat
        BY <1>4, <4>2, Constants DEF Swap, SolDelta
      <4>4. held'[tx.p].sol = held[tx.p].sol + SolDelta(swaps[s])
        BY <1>1, <2>1, <3>3 DEF SwapLands, TypeOK
      <4> QED BY <2>1, <4>3, <4>4
    <3> QED BY <1>2, <3>1, <3>2, <3>3
  <2>3. Trading(tx.p) /\ ~tx.emergency /\ disk[tx.p].kept => Harmless(tx)
    BY <1>1, <1>3, <2>2 DEF Harmless, SettleOK
  <2> QED BY <1>3, <1>5, <2>1, <2>3, SettleStays
<1> QED BY <1>3, <1>6, <1>7

LEMMA MoneyInvNext ==
  ASSUME ~STATE_MAY_BE_LOST, ~SCANS_LAG, FailingLookups = {},
         \A e1, e2 \in ClockErrors : e1 = e2, MoneyInv, [Next]_vars
  PROVE  MoneyInv'
<1>1. BooksInv /\ BooksInv' /\ TypeOK' /\ TaskOK /\ TypeOK
  BY BooksInvNext DEF MoneyInv, BooksInv, SwapsInv
<1>2. CASE UNCHANGED vars
  <2>1. UNCHANGED <<now, position, swaps, settles, held, disk, pc, loop, task>>
    BY <1>2 DEF vars, chain, files
  <2>2. SkewOK' /\ SettlingOK'
    BY <2>1 DEF MoneyInv, SkewOK, SettlingOK, SettlingNow
  <2>3. \A tx \in settles' : SettleOK(tx)'
    BY <2>1 DEF MoneyInv, SettleOK, Trading
  <2> QED BY <1>1, <2>2, <2>3 DEF MoneyInv
<1>3. CASE Runner
  <2>1. CASE ListStep \/ Restart \/ SettleErrors \/ DrawErrors
    BY <1>1, <2>1, RunnerKeepsMoney DEF MoneyInv
  <2>2. CASE \E p \in Positions : DropBook(p) \/ Adopt(p) \/ SendDraw(p)
    BY <1>1, <2>2, RunnerKeepsMoney DEF NoBookStep, NewBookStep, MoneyInv
  <2>3. CASE SettleReturns \/ DrawReturns
    <3>1. task.p \in Positions
      BY <1>1, <2>3 DEF SettleReturns, DrawReturns, Goto, TaskOK, Working, Paying
    <3> QED BY <1>1, <2>3, <3>1, RunnerKeepsMoney DEF NoBookStep, NewBookStep, MoneyInv
  <2>4. CASE \/ ReadStatus \/ ReadHeight \/ ReadLanded \/ Recheck \/ Act \/ NoTrade \/ Send
             \/ Confirm \/ ReadMeta \/ UnwindFails \/ ReadBalance
    BY <1>1, <2>4, LearningKeepsMoney DEF MoneyInv
  <2>5. CASE Trade \/ SecondLeg \/ Unwind
    BY <1>1, <2>5, BegunSwapKeepsMoney DEF MoneyInv
  <2>6. CASE SendSettle
    BY <1>1, <2>6, SendSettleKeepsMoney DEF MoneyInv
  <2> QED BY <1>3, <2>1, <2>2, <2>3, <2>4, <2>5, <2>6 DEF Runner, ListStep
<1>4. CASE SkipTick \/ Exit
  BY <1>1, <1>4, RunnerKeepsMoney DEF MoneyInv
<1>5. CASE PositionStep
  BY <1>1, <1>5, PositionStepKeepsMoney DEF MoneyInv
<1>6. CASE Swapped
  BY <1>1, <1>6, SwappedKeepsMoney DEF MoneyInv
<1> QED BY <1>2, <1>3, <1>4, <1>5, <1>6 DEF Next, PositionStep

\* If besides the error of the runner's clock does not change from tick to tick, no
\* settlement spends SOL of the agent's own or of another position, other than after the
\* last call (RunnerProperties).
THEOREM SettlementsSpendTheirOwn ==
  ASSUME ~STATE_MAY_BE_LOST, ~SCANS_LAG, FailingLookups = {},
         \A e1, e2 \in ClockErrors : e1 = e2
  PROVE  Spec => SettlesOwnMoney
<1> DEFINE Own == \A tx \in settles :
                    SettleLands(tx) /\ ~tx.emergency => tx.amount <= held[tx.p].sol
<1>1. Init => MoneyInv
  BY BooksInvInit DEF Init, MoneyInv, SkewOK, SettlingOK, SettlingNow, NoTask, Working, Resolving,
     Swapping, Deciding, Paying, InTick
<1>2. MoneyInv /\ [Next]_vars => MoneyInv'
  BY MoneyInvNext
<1>3. MoneyInv => [Own]_vars
  BY DEF MoneyInv, SettleOK, SettleLands, Trading
<1> QED BY <1>1, <1>2, <1>3, PTL DEF Spec, SettlesOwnMoney
-----------------------------------------------------------------------------
(* Never late *)

\* What may keep the runner from settling a position in the tick at hand: a failure, a swap
\* of its USDC, as a settlement begins one, or a sale of SOL that landed and left the wallet
\* short.
Spent(p) ==
  { s \in DOMAIN swaps : \/ swaps[s].side = "USDC" /\ swaps[s].of = p
                         \/ swaps[s].side = "SOL" /\ swaps[s].status = "landed" }
Setbacks(p) == faults + Cardinality(Spent(p))

\* Settlements of other positions, sent since a time and left in flight: each was left by a
\* failure, and may still land when p is to be settled.
LeftOf(p, from) ==
  { tx \in settles : /\ tx.p # p /\ Trading(tx.p) /\ tx.at >= from
                     /\ ~(pc = "settling" /\ tx = SettleTx) }

Excuses(p, from, k) == Setbacks(p) - k - Cardinality(LeftOf(p, from))

\* By how much the setbacks of a position, beyond the first k, exceed the ticks after start
\* that did not settle it; one that has no book takes a tick more.
From(start) == start - TX_LIFE_SECS - 1
Missing(p) == IF disk[p].kept THEN 0 ELSE 1
Slack(p, start, k) == Excuses(p, From(start), k) - Missing(p) - (now - start)

\* The tick will settle the position, or give it a book, unless there is a setback.
InHand == Resolving \cup Paying \cup {"act", "unwind"}
Underway(p) ==
  IF disk[p].kept
  THEN \/ pc \in Working \cup {"books"} /\ p \in loop.todo
       \/ /\ pc \in InHand /\ task.p = p
          /\ pc \in {"settle", "settling"} => task.paying <= wallet.sol
          /\ pc = "settling" => SettleTx \in settles
  ELSE /\ loop.seen[p] = "trading" /\ ~loop.partial
       /\ pc \in {"draws", "drawing"} => p \in loop.todo

LateOK(p, start, k) ==
  Trading(p) /\ now >= start - 1 =>
    /\ Slack(p, start, k) >= 0
    /\ pace = "done" \/ (pc \in InTick /\ ~Underway(p)) => Slack(p, start, k) >= 1

\* From start on every tick is past the last call; draws land before, and no book is missed.
CallAt(start) ==
  \A c \in ClockErrors :
    /\ start + c >= DEADLINE - LAST_CALL_SECS
    /\ DEADLINE - SETTLE_BUFFER_SECS - DRAW_MARGIN_SECS - c + TX_LIFE_SECS < start

InTime(start) ==
  /\ \A tx \in settles : tx.at <= now /\ now <= tx.at + TX_LIFE_SECS /\ position[tx.p] \in Drawn
  /\ \A tx \in draws : now <= tx.at + TX_LIFE_SECS /\ tx.at + TX_LIFE_SECS <= start - 2
  /\ \A p \in Positions : Trading(p) => drawn_at[p] <= start - 2

SeenDrawn ==
  pc \in InTick =>
    /\ \A p \in Positions : loop.seen[p] = "trading" => position[p] \in Drawn
    /\ pc \in Working => loop.seen[task.p] = "trading"

PaceOK ==
  /\ pace \in {"due", "done"}
  /\ pc \in InTick \cup {"down"} => pace = "due"

SeenKept(start) ==
  pc \in InTick /\ now >= start - 1 =>
    \A p \in Positions : Trading(p) /\ disk[p].kept => loop.seen[p] = "trading"

TimingInv(start) ==
  /\ Typed /\ SkewOK /\ PaceOK /\ InTime(start) /\ SeenDrawn /\ SeenKept(start)
  /\ faults \in Nat /\ IsFiniteSet(settles)

PacedInv(start, k) ==
  /\ TimingInv(start)
  /\ \A p \in Positions : /\ now >= From(start) => Excuses(p, From(start), k[p]) >= 0
                          /\ LateOK(p, start, k[p])

LateInv(start, k) == pace = "any" \/ PacedInv(start, k)

LEMMA PlacesAreFinite ==
  ASSUME NEW q \in Seq(Swap), NEW S \in SUBSET DOMAIN q
  PROVE  IsFiniteSet(S) /\ Cardinality(S) \in Nat
<1>1. DOMAIN q = 1..Len(q) /\ Len(q) \in Nat
  OBVIOUS
<1>2. IsFiniteSet(1..Len(q))
  <2>1. 1 \in Int /\ Len(q) \in Int
    BY <1>1
  <2> QED BY ONLY <2>1, FS_Interval
<1> QED BY <1>1, <1>2, FS_Subset, FS_CardinalityType

LEMMA StrictlyMore ==
  ASSUME NEW S, NEW T, IsFiniteSet(T), S \subseteq T, NEW x \in T, x \notin S
  PROVE  Cardinality(S) + 1 <= Cardinality(T)
<1>1. IsFiniteSet(S) /\ Cardinality(S) \in Nat /\ Cardinality(T) \in Nat
  BY FS_Subset, FS_CardinalityType
<1>2. S # T
  OBVIOUS
<1>3. Cardinality(S) <= Cardinality(T) /\ (Cardinality(S) = Cardinality(T) => S = T)
  BY FS_Subset
<1> QED BY <1>1, <1>2, <1>3

\* Excuses are only lost when a settlement is left in flight.
LEMMA ExcusesStay ==
  ASSUME Typed, Typed', IsFiniteSet(settles), IsFiniteSet(settles'), faults \in Nat,
         faults' \in Nat,
         NEW p, NEW from, NEW k \in Nat, Spent(p) \subseteq Spent(p)'
  PROVE  /\ Excuses(p, from, k) \in Int /\ Excuses(p, from, k)' \in Int
         /\ LeftOf(p, from)' \subseteq LeftOf(p, from) =>
              Excuses(p, from, k)' >= Excuses(p, from, k) + (faults' - faults)
         /\ LeftOf(p, from)' \subseteq LeftOf(p, from)
              /\ (Spent(p)' # Spent(p) \/ LeftOf(p, from)' # LeftOf(p, from)) =>
              Excuses(p, from, k)' >= Excuses(p, from, k) + (faults' - faults) + 1
         /\ \A tx : LeftOf(p, from)' \subseteq LeftOf(p, from) \cup {tx} =>
              Excuses(p, from, k)' >= Excuses(p, from, k) + (faults' - faults) - 1
<1> DEFINE S == Spent(p)
           T == Spent(p)'
           L == LeftOf(p, from)
           M == LeftOf(p, from)'
<1>1. IsFiniteSet(S) /\ Cardinality(S) \in Nat
  BY PlacesAreFinite DEF Typed, TypeOK, Spent
<1>2. IsFiniteSet(L) /\ Cardinality(L) \in Nat
  BY FS_Subset, FS_CardinalityType DEF LeftOf
<1>3. IsFiniteSet(T) /\ Cardinality(T) \in Nat
  BY PlacesAreFinite DEF Typed, TypeOK, Spent
<1>4. IsFiniteSet(M) /\ Cardinality(M) \in Nat
  BY FS_Subset, FS_CardinalityType DEF LeftOf
<1>5. Excuses(p, from, k) = (faults + Cardinality(S)) - k - Cardinality(L)
  BY DEF Excuses, Setbacks
<1>6. Excuses(p, from, k)' = (faults' + Cardinality(T)) - k - Cardinality(M)
  BY DEF Excuses, Setbacks
<1>7. S \subseteq T
  OBVIOUS
<1> HIDE DEF S, T, L, M
<1>8. Cardinality(S) <= Cardinality(T)
  BY <1>3, <1>7, FS_Subset
<1>9. S # T => Cardinality(S) + 1 <= Cardinality(T)
  BY <1>3, <1>7, StrictlyMore
<1>10. ASSUME M \subseteq L
       PROVE  Cardinality(M) <= Cardinality(L) /\ (M # L => Cardinality(M) + 1 <= Cardinality(L))
  <2>1. Cardinality(M) <= Cardinality(L)
    BY <1>2, <1>10, FS_Subset
  <2>2. M # L => \E x \in L : x \notin M
    BY <1>10
  <2>3. M # L => Cardinality(M) + 1 <= Cardinality(L)
    BY <1>2, <1>10, <2>2, StrictlyMore
  <2> QED BY <2>1, <2>3
<1>11. ASSUME NEW tx, M \subseteq L \cup {tx}
       PROVE  Cardinality(M) <= Cardinality(L) + 1
  <2>1. IsFiniteSet(L \cup {tx})
        /\ Cardinality(L \cup {tx}) \in {Cardinality(L), Cardinality(L) + 1}
    BY <1>2, FS_AddElement
  <2>2. Cardinality(L \cup {tx}) \in Nat
    BY <2>1, FS_CardinalityType
  <2>3. Cardinality(M) <= Cardinality(L \cup {tx})
    BY <1>11, <2>1, FS_Subset
  <2> QED BY <1>2, <1>4, <2>1, <2>2, <2>3
<1>12. /\ Excuses(p, from, k) \in Int /\ Excuses(p, from, k)' \in Int
  BY <1>1, <1>2, <1>3, <1>4, <1>5, <1>6
<1>13. M \subseteq L => Excuses(p, from, k)' >= Excuses(p, from, k) + (faults' - faults)
  BY <1>1, <1>2, <1>3, <1>4, <1>5, <1>6, <1>8, <1>10
<1>14. M \subseteq L /\ (T # S \/ M # L) =>
         Excuses(p, from, k)' >= Excuses(p, from, k) + (faults' - faults) + 1
  BY <1>1, <1>2, <1>3, <1>4, <1>5, <1>6, <1>8, <1>9, <1>10
<1>15. \A tx : M \subseteq L \cup {tx} =>
         Excuses(p, from, k)' >= Excuses(p, from, k) + (faults' - faults) - 1
  <2> SUFFICES ASSUME NEW tx, M \subseteq L \cup {tx}
               PROVE  Excuses(p, from, k)' >= Excuses(p, from, k) + (faults' - faults) - 1
    OBVIOUS
  <2>1. Cardinality(M) <= Cardinality(L) + 1
    BY <1>11
  <2> QED BY <1>1, <1>2, <1>3, <1>4, <1>5, <1>6, <1>8, <2>1
<1> QED BY <1>12, <1>13, <1>14, <1>15 DEF S, T, L, M

\* What any step does to the chain, to the failures and to the pace.
RunnerQuiet ==
  \/ ListStep \/ Restart \/ (\E p \in Positions : NoBookStep(p) \/ NewBookStep(p))
  \/ ReadStatus \/ ReadHeight \/ ReadLanded \/ Recheck \/ Act \/ NoTrade \/ Send
  \/ Confirm \/ ReadMeta \/ UnwindFails \/ ReadBalance

LEMMA RunnerSteps ==
  ASSUME Typed, Runner
  PROVE  \/ RunnerQuiet \/ Trade \/ SecondLeg \/ Unwind \/ SendSettle \/ SettleErrors \/ DrawErrors
         \/ \E p \in Positions : SendDraw(p)
<1>1. pc \in {"settling", "drawing"} => task.p \in Positions
  BY DEF Typed, TaskOK, Working, Paying
<1> QED BY <1>1 DEF Runner, RunnerQuiet, ListStep, NoBookStep, NewBookStep, SettleReturns,
           DrawReturns, Goto

LEMMA ChainFrame ==
  ASSUME Typed, Runner
  PROVE  /\ UNCHANGED <<now, position, drawn_at, wallet>>
         /\ RunnerQuiet => (UNCHANGED chain \/ SendsSwap)
<1>1. CASE ListStep
  BY <1>1, ListStepKeepsTypes DEF chain
<1>2. CASE Restart
  BY <1>2, RestartKeepsTypes DEF chain
<1>3. ASSUME NEW p \in Positions, NoBookStep(p) \/ NewBookStep(p)
      PROVE  UNCHANGED <<now, chain>>
  BY <1>3 DEF NoBookStep, NewBookStep, DropBook, SettleReturns, Adopt, DrawReturns
<1>4. CASE \/ ReadStatus \/ ReadHeight \/ ReadLanded \/ Recheck \/ Act \/ NoTrade \/ Send
           \/ Confirm \/ ReadMeta \/ UnwindFails \/ ReadBalance
  BY <1>4, BookSteps DEF BookStep, SendsSwap, chain
<1>5. RunnerQuiet => (UNCHANGED chain \/ SendsSwap) /\ UNCHANGED <<now, position, drawn_at, wallet>>
  BY <1>1, <1>2, <1>3, <1>4 DEF RunnerQuiet, chain, SendsSwap, BookStep
<1>6. Trade \/ SecondLeg \/ Unwind \/ SendSettle \/ SettleErrors \/ DrawErrors
      \/ (\E p \in Positions : SendDraw(p)) => UNCHANGED <<now, position, drawn_at, wallet>>
  BY DEF Trade, SecondLeg, Unwind, BeginSwap, SendSettle, SettleErrors, DrawErrors, SendDraw
<1> QED BY <1>5, <1>6, RunnerSteps

LEMMA Failures ==
  ASSUME Typed, [Next]_vars, faults \in Nat
  PROVE  /\ UNCHANGED faults \/ Fault
         /\ faults' \in {faults, faults + 1} /\ faults' \in Nat
         /\ pace = "any" <=> pace' = "any"
<1> USE DEF NoFault, Fault, Done, Due
<1>1. CASE UNCHANGED vars
  BY <1>1 DEF vars
<1>2. CASE Runner
  <2>1. CASE ListStep \/ Restart
    BY <2>1 DEF ListStep, StartTick, NextPass, EndTick, NotDueYet, TakeBook, PassOver, Restart
  <2>2. ASSUME NEW p \in Positions, NoBookStep(p) \/ NewBookStep(p) \/ SendDraw(p)
        PROVE  UNCHANGED <<faults, pace>>
    BY <2>2 DEF NoBookStep, NewBookStep, DropBook, SettleReturns, Adopt, DrawReturns, SendDraw
  <2>3. CASE \/ ReadStatus \/ ReadHeight \/ ReadLanded \/ Recheck \/ Act \/ NoTrade
             \/ Confirm \/ ReadMeta \/ UnwindFails \/ ReadBalance
    BY <2>3 DEF ReadStatus, ReadHeight, ReadLanded, Recheck, Act, NoTrade, Confirm, ReadMeta,
       UnwindFails, ReadBalance, Unresolved, BookSwap, ClearSwap, AskOn, SwapFails,
       SwapInFlight, Quiet
  <2>4. CASE Send \/ SendSettle \/ SettleErrors \/ DrawErrors
    BY <2>4 DEF Send, SwapFails, SwapInFlight, AskOn, Quiet, SendSettle, SettleErrors, DrawErrors
  <2>5. CASE Trade \/ SecondLeg \/ Unwind
    <3>1. UNCHANGED <<faults, pace>>
      BY <2>5, BegunFromBook DEF BeginSwap
    <3> QED BY <3>1
  <2> QED BY <1>2, <2>1, <2>2, <2>3, <2>4, <2>5, RunnerSteps DEF RunnerQuiet
<1>3. CASE SkipTick \/ Exit
  BY <1>3 DEF SkipTick, Exit
<1>4. CASE PositionStep
  <2>1. CASE Tick \/ Lost
    BY <2>1 DEF Tick, Lost
  <2>2. ASSUME NEW p \in Positions, Open(p) \/ Cancel(p) \/ Claim(p)
        PROVE  UNCHANGED <<faults, pace>>
    BY <2>2 DEF Open, Cancel, Claim, TraderMoves
  <2>3. ASSUME NEW tx, DrawLands(tx) \/ SettleLands(tx)
        PROVE  UNCHANGED <<faults, pace>>
    BY <2>3 DEF DrawLands, SettleLands
  <2> QED BY <1>4, <2>1, <2>2, <2>3 DEF PositionStep, Trader, Lands
<1>5. CASE Swapped
  BY <1>5 DEF Swapped, SwapLands, SwapEnds
<1> QED BY <1>1, <1>2, <1>3, <1>4, <1>5 DEF Next, PositionStep

LEMMA SpentStays ==
  ASSUME DOMAIN swaps \subseteq DOMAIN swaps', NEW p,
         \A s \in DOMAIN swaps : /\ swaps'[s].of = swaps[s].of /\ swaps'[s].side = swaps[s].side
                                 /\ swaps[s].status = "landed" => swaps'[s].status = "landed"
  PROVE  Spent(p) \subseteq Spent(p)'
BY DEF Spent

\* What was spent stays spent.
LEMMA SpentGrows ==
  ASSUME Typed, [Next]_vars, NEW p
  PROVE  Spent(p) \subseteq Spent(p)'
<1>1. ASSUME UNCHANGED swaps PROVE Spent(p) \subseteq Spent(p)'
  BY <1>1 DEF Spent
<1>2. \A s \in DOMAIN swaps : swaps[s] \in Swap
  BY SwapNumbers
<1>3. CASE Runner
  <2>1. CASE SendsSwap
    <3> DEFINE n == Book.pending
    <3>1. /\ n \in DOMAIN swaps /\ DOMAIN swaps' = DOMAIN swaps
          /\ swaps'[n] = [swaps[n] EXCEPT !.status = "sent"]
          /\ \A s \in DOMAIN swaps : s # n => swaps'[s] = swaps[s]
      BY <2>1, SendsSwapKeepsTypes
    <3>2. swaps[n].status = "signed"
      BY <2>1 DEF SendsSwap, Pending
    <3> HIDE DEF n
    <3>3. swaps'[n].of = swaps[n].of /\ swaps'[n].side = swaps[n].side
      BY <1>2, <3>1 DEF Swap
    <3> QED BY <3>1, <3>2, <3>3, SpentStays
  <2>2. CASE Trade \/ SecondLeg \/ Unwind
    <3>1. DOMAIN swaps \subseteq DOMAIN swaps' /\ \A s \in DOMAIN swaps : swaps'[s] = swaps[s]
      BY <2>2, BegunFromBook, BegunSwapKeepsTypes DEF Deciding
    <3> QED BY <3>1, SpentStays
  <2>3. CASE SendSettle \/ SettleErrors \/ DrawErrors \/ \E q \in Positions : SendDraw(q)
    BY <1>1, <2>3 DEF SendSettle, SettleErrors, DrawErrors, SendDraw
  <2> QED BY <1>1, <1>3, <2>1, <2>2, <2>3, ChainFrame, RunnerSteps DEF chain
<1>4. CASE UNCHANGED vars \/ SkipTick \/ Exit \/ PositionStep
  <2>1. UNCHANGED swaps
    BY <1>4, PositionStepKeepsTypes DEF vars, SkipTick, Exit, chain
  <2> QED BY <1>1, <2>1
<1>5. CASE Swapped
  <2>1. PICK s \in DOMAIN swaps : SwapLands(s) \/ SwapEnds(s)
    BY <1>5 DEF Swapped
  <2>2. PICK status \in {"landed", "failed", "expired"} :
          /\ swaps'[s] = [swaps[s] EXCEPT !.status = status]
          /\ swaps[s].status \in {"signed", "sent"}
    BY <2>1, SwapEndKeepsTypes
  <2>3. DOMAIN swaps' = DOMAIN swaps /\ \A r \in DOMAIN swaps : r # s => swaps'[r] = swaps[r]
    BY <2>1, SwapEndKeepsTypes
  <2>4. swaps'[s].of = swaps[s].of /\ swaps'[s].side = swaps[s].side
    BY <1>2, <2>1, <2>2 DEF Swap
  <2> QED BY <2>2, <2>3, <2>4, SpentStays
<1> QED BY <1>3, <1>4, <1>5 DEF Next, PositionStep

LEMMA DrawnStay ==
  ASSUME Typed, [Next]_vars, NEW p \in Positions, position[p] \in Drawn
  PROVE  position'[p] \in Drawn /\ (Trading(p)' => Trading(p))
<1>1. UNCHANGED position \/ PositionStep
  <2>1. CASE UNCHANGED vars \/ SkipTick \/ Exit
    BY <2>1 DEF vars, SkipTick, Exit, chain
  <2>2. CASE Runner
    BY <2>2, ChainFrame
  <2>3. CASE Swapped
    BY <2>3, SwapEndKeepsTypes DEF Swapped
  <2> QED BY <2>1, <2>2, <2>3 DEF Next, PositionStep
<1>2. CASE UNCHANGED position
  BY <1>2 DEF Trading
<1>3. CASE PositionStep
  BY <1>3, PositionStepKeepsTypes DEF Trading, Drawn, Closed
<1> QED BY <1>1, <1>2, <1>3

LEMMA SettlesNext ==
  ASSUME Typed, [Next]_vars
  PROVE  /\ settles' \subseteq settles \/ SendSettle
         /\ draws' \subseteq draws \/ \E p \in Positions : SendDraw(p)
<1>1. CASE UNCHANGED vars \/ SkipTick \/ Exit
  BY <1>1 DEF vars, SkipTick, Exit, chain
<1>2. CASE Runner
  <2>1. CASE RunnerQuiet
    BY <1>2, <2>1, ChainFrame DEF chain, SendsSwap
  <2>2. CASE Trade \/ SecondLeg \/ Unwind
    BY <2>2, BegunFromBook DEF BeginSwap
  <2>3. CASE SettleErrors \/ DrawErrors \/ SendSettle \/ \E p \in Positions : SendDraw(p)
    BY <2>3 DEF SettleErrors, DrawErrors, SendSettle, SendDraw
  <2> QED BY <1>2, <2>1, <2>2, <2>3, RunnerSteps
<1>3. CASE Tick \/ Lost
  BY <1>3 DEF Tick, Alive, Lost
<1>4. ASSUME NEW p \in Positions, Open(p) \/ Cancel(p) \/ Claim(p)
      PROVE  UNCHANGED <<draws, settles>>
  BY <1>4 DEF Open, Cancel, Claim, TraderMoves
<1>5. ASSUME NEW tx, DrawLands(tx) \/ SettleLands(tx)
      PROVE  draws' \subseteq draws /\ settles' \subseteq settles
  BY <1>5 DEF DrawLands, SettleLands
<1>6. CASE Swapped
  BY <1>6 DEF Swapped, SwapLands, SwapEnds
<1> QED BY <1>1, <1>2, <1>3, <1>4, <1>5, <1>6 DEF Next, Trader, Lands

\* The chain moves while the runner stands still.
LEMMA RunnerStands ==
  ASSUME Typed, UNCHANGED vars \/ PositionStep \/ Swapped
  PROVE  UNCHANGED <<files, pc, loop, task>>
BY PositionStepKeepsTypes, SwapEndKeepsTypes DEF vars, Swapped

LEMMA SettlingGoesOn ==
  ASSUME Typed, [Next]_vars, pc = "settling"
  PROVE  UNCHANGED <<pc, task>> \/ SettleReturns \/ SettleErrors \/ Exit
<1>1. CASE Runner
  <2>1. CASE ListStep \/ Restart
    BY <2>1 DEF ListStep, StartTick, NextPass, EndTick, NotDueYet, TakeBook, PassOver, Restart, Goto
  <2>2. ASSUME NEW p \in Positions, NoBookStep(p) \/ NewBookStep(p) \/ SendDraw(p)
        PROVE  SettleReturns
    BY <2>2 DEF NoBookStep, NewBookStep, DropBook, Adopt, DrawReturns, SendDraw, Goto
  <2>3. CASE \/ ReadStatus \/ ReadHeight \/ ReadLanded \/ Recheck \/ Act \/ NoTrade \/ Send
             \/ Confirm \/ ReadMeta \/ UnwindFails \/ ReadBalance
    BY <2>3 DEF ReadStatus, ReadHeight, ReadLanded, Recheck, Act, NoTrade, Send, Confirm, ReadMeta,
       UnwindFails, ReadBalance
  <2>4. CASE Trade \/ SecondLeg \/ Unwind \/ SendSettle \/ SettleErrors \/ DrawErrors
    BY <2>4 DEF Trade, SecondLeg, Unwind, SendSettle, DrawErrors, Goto
  <2> QED BY <1>1, <2>1, <2>2, <2>3, <2>4, RunnerSteps DEF RunnerQuiet
<1>2. CASE SkipTick \/ Exit
  BY <1>2 DEF SkipTick
<1>3. CASE UNCHANGED vars \/ PositionStep \/ Swapped
  BY <1>3, RunnerStands
<1> QED BY <1>1, <1>2, <1>3 DEF Next, PositionStep

\* Only a failure leaves a settlement in flight.
LEMMA LeftNext ==
  ASSUME Typed, [Next]_vars, \A tx \in settles : position[tx.p] \in Drawn,
         NEW p \in Positions, NEW from
  PROVE  \/ LeftOf(p, from)' \subseteq LeftOf(p, from)
         \/ /\ pc = "settling" /\ pc' # "settling" /\ task.p # p /\ faults' = faults + 1
            /\ \E tx : LeftOf(p, from)' \subseteq LeftOf(p, from) \cup {tx}
<1>1. \A tx \in settles : tx.p \in Positions
  BY DEF Typed, TypeOK
<1>2. \A tx \in settles : Trading(tx.p)' => Trading(tx.p)
  BY <1>1, DrawnStay
<1>3. settles' \subseteq settles \/ SendSettle
  BY SettlesNext
<1>4. CASE pc # "settling"
  <2>1. \A tx \in settles' : tx \in settles \/ (pc' = "settling" /\ tx = SettleTx')
    BY <1>3 DEF SendSettle, Goto
  <2> QED BY <1>2, <1>4, <2>1 DEF LeftOf
<1>5. CASE pc = "settling" /\ UNCHANGED <<pc, task>>
  BY <1>2, <1>3, <1>5 DEF LeftOf, SettleTx, SendSettle, Goto
<1>6. CASE pc = "settling" /\ SettleReturns
  <2>1. position'[task.p] # "trading" /\ SettleTx.p = task.p
    BY <1>6 DEF SettleReturns, chain, SettleTx
  <2>2. \A tx : tx = SettleTx => ~Trading(tx.p)'
    BY <2>1 DEF Trading
  <2> QED BY <1>2, <1>3, <1>6, <2>2 DEF LeftOf, SendSettle, Goto
<1>7. CASE pc = "settling" /\ (SettleErrors \/ Exit)
  <2>1. settles' \subseteq settles /\ pc' # "settling" /\ SettleTx.p = task.p
    BY <1>7 DEF SettleErrors, Exit, Goto, chain, SettleTx
  <2>2. LeftOf(p, from)' \subseteq LeftOf(p, from) \cup {SettleTx}
    BY <1>2, <2>1 DEF LeftOf
  <2>3. task.p = p => LeftOf(p, from)' \subseteq LeftOf(p, from)
    BY <1>2, <2>1 DEF LeftOf
  <2>4. faults' = faults + 1 \/ LeftOf(p, from)' \subseteq LeftOf(p, from)
    <3>1. faults' = faults + 1 \/ SettleTx \notin settles'
      BY <1>7 DEF SettleErrors, Exit, Fault
    <3> QED BY <1>2, <2>1, <3>1 DEF LeftOf
  <2> QED BY <1>7, <2>1, <2>2, <2>3, <2>4
<1> QED BY <1>4, <1>5, <1>6, <1>7, SettlingGoesOn

\* Excuses never get fewer; a failure, a spent swap or a settlement that left the air is one
\* more, unless the failure left a settlement of another position in flight.
LEMMA ExcusesNext ==
  ASSUME Typed, [Next]_vars, \A tx \in settles : position[tx.p] \in Drawn,
         IsFiniteSet(settles), faults \in Nat, NEW p \in Positions, NEW from, NEW k \in Nat
  PROVE  /\ Excuses(p, from, k) \in Int /\ Excuses(p, from, k)' \in Int
         /\ Excuses(p, from, k)' >= Excuses(p, from, k)
         /\ (/\ pc # "settling" \/ pc' = "settling" \/ task.p = p
             /\ \/ faults' = faults + 1
                \/ Spent(p)' # Spent(p)
                \/ LeftOf(p, from)' # LeftOf(p, from)) =>
              Excuses(p, from, k)' >= Excuses(p, from, k) + 1
         /\ IsFiniteSet(settles')
<1>1. Typed' /\ Spent(p) \subseteq Spent(p)'
  BY TypedNext, SpentGrows
<1>2. IsFiniteSet(settles')
  <2>1. CASE settles' \subseteq settles
    BY <2>1, FS_Subset
  <2>2. CASE SendSettle
    BY <2>2, FS_AddElement DEF SendSettle
  <2> QED BY <2>1, <2>2, SettlesNext
<1>3. faults' \in {faults, faults + 1} /\ faults' \in Nat
  BY Failures
<1> DEFINE x == Excuses(p, from, k)
           y == Excuses(p, from, k)'
<1>4. x \in Int /\ y \in Int
  BY <1>1, <1>2, <1>3, ExcusesStay
<1>5. CASE LeftOf(p, from)' \subseteq LeftOf(p, from)
  <2>1. y >= x + (faults' - faults)
    BY <1>1, <1>2, <1>3, <1>5, ExcusesStay
  <2>2. Spent(p)' # Spent(p) \/ LeftOf(p, from)' # LeftOf(p, from) =>
        y >= x + (faults' - faults) + 1
    BY <1>1, <1>2, <1>3, <1>5, ExcusesStay
  <2> QED BY <1>2, <1>3, <1>4, <2>1, <2>2
<1>6. CASE ~(LeftOf(p, from)' \subseteq LeftOf(p, from))
  <2>1. PICK tx : LeftOf(p, from)' \subseteq LeftOf(p, from) \cup {tx}
    BY <1>6, LeftNext
  <2>2. pc = "settling" /\ pc' # "settling" /\ task.p # p /\ faults' = faults + 1
    BY <1>6, LeftNext
  <2>3. y >= x + (faults' - faults) - 1
    BY <1>1, <1>2, <1>3, <2>1, ExcusesStay
  <2> QED BY <1>2, <1>3, <1>4, <2>2, <2>3
<1> QED BY <1>5, <1>6

\* What any step does to the tick, to the task and to the books.
Learning ==
  \/ ReadStatus \/ ReadHeight \/ ReadLanded \/ Recheck \/ Act \/ NoTrade \/ Send
  \/ Confirm \/ ReadMeta \/ UnwindFails \/ ReadBalance

LEMMA WorkSteps ==
  ASSUME Typed, Learning \/ Trade \/ SecondLeg \/ Unwind
  PROVE  /\ pc \in Working /\ pc' \in Working \cup {"books"} /\ task'.p = task.p
         /\ UNCHANGED <<now, position, drawn_at, wallet, draws, settles, loop, pace>>
         /\ \A p \in Positions : disk'[p].kept = disk[p].kept
         /\ task.p \in Positions /\ disk[task.p].kept
<1> USE DEF Working, Resolving, Swapping, Deciding, Paying
<1>1. disk \in [Positions -> BookRecord]
      /\ (pc \in Working => Book = disk[task.p] /\ Book.kept /\ Book \in BookRecord)
      /\ (pc \in Working => task.p \in Positions) /\ (pc # "down" => books = disk)
  BY BookUnderWork DEF Typed, TypeOK, FilesAgree
<1>2. ASSUME NEW b, b.kept, SaveBook(task.p, b), pc \in Working
      PROVE  \A p \in Positions : disk'[p].kept = disk[p].kept
  BY <1>1, <1>2 DEF SaveBook, Save
<1>3. CASE SendsSwap
  BY <1>1, <1>3 DEF SendsSwap, files
<1>4. CASE BookStep
  <2>1. task'.p = task.p
    BY <1>4, BookStepKeepsTypes
  <2>2. \A p \in Positions : disk'[p].kept = disk[p].kept
    <3>1. CASE KeepsBook
      BY <3>1 DEF KeepsBook, files
    <3>2. CASE RecordsBook \/ ClearsBook
      BY <1>2, <1>4, <3>2, BookStepSaves DEF BookStep
    <3> QED BY <1>4, <3>1, <3>2 DEF BookStep
  <2> QED BY <1>1, <1>4, <2>1, <2>2 DEF BookStep, chain
<1>5. CASE Trade \/ SecondLeg \/ Unwind
  <2>1. PICK side \in {"SOL", "USDC"}, amount \in Nat, after \in {"end", "leg2", "settle"} :
          BeginSwap(side, amount, after) /\ pc \in {"trade", "leg2", "unwind"}
    BY <1>5, BegunFromBook
  <2>2. [Book EXCEPT !.pending = Len(swaps) + 1].kept
    BY <1>1, <2>1 DEF BookRecord
  <2>3. \A p \in Positions : disk'[p].kept = disk[p].kept
    BY <1>2, <2>1, <2>2 DEF BeginSwap
  <2>4. task'.p = task.p
    BY <2>1 DEF BeginSwap, Typed, TypeOK, TaskRecord
  <2> QED BY <1>1, <2>1, <2>3, <2>4 DEF BeginSwap
<1> QED BY <1>3, <1>4, <1>5, BookSteps DEF Learning

LEMMA BooksNext ==
  ASSUME Typed, [Next]_vars, NEW p \in Positions
  PROVE  \/ disk'[p].kept = disk[p].kept
         \/ NewBookStep(p) /\ disk'[p].kept
         \/ NoBookStep(p) /\ ~disk'[p].kept
         \/ Restart /\ Fault /\ pc = "down" /\ pc' = "idle" /\ ~disk'[p].kept
<1>1. CASE UNCHANGED vars \/ PositionStep \/ Swapped
  BY <1>1, RunnerStands DEF files
<1>2. CASE SkipTick \/ Exit \/ Restart
  BY <1>2, RestartKeepsTypes DEF SkipTick, Exit, Restart, Goto, NoBooks, NoBook, Fault
<1>3. CASE Learning \/ Trade \/ SecondLeg \/ Unwind
  BY <1>3, WorkSteps
<1>4. CASE ListStep
  BY <1>4, ListStepKeepsTypes DEF files
<1>5. ASSUME NEW q \in Positions, NoBookStep(q) \/ NewBookStep(q)
      PROVE  \/ disk'[p].kept = disk[p].kept
             \/ NewBookStep(p) /\ disk'[p].kept
             \/ NoBookStep(p) /\ ~disk'[p].kept
  <2>1. pc \in {"books", "settling", "draws", "drawing"}
    BY <1>5 DEF NoBookStep, NewBookStep, DropBook, SettleReturns, Adopt, DrawReturns, Goto
  <2>2. books = disk /\ disk \in [Positions -> BookRecord]
    BY <2>1 DEF Typed, TypeOK, FilesAgree
  <2>3. CASE NewBookStep(q)
    BY <2>2, <2>3, NewBookKeepsTypes DEF SaveBook, Save
  <2>4. CASE NoBookStep(q)
    BY <2>2, <2>4, NoBookKeepsTypes DEF SaveBook, Save, NoBook
  <2> QED BY <1>5, <2>3, <2>4
<1>6. CASE SendSettle \/ SettleErrors \/ DrawErrors \/ \E q \in Positions : SendDraw(q)
  BY <1>6 DEF SendSettle, SettleErrors, DrawErrors, SendDraw, files
<1> QED
  BY <1>1, <1>2, <1>3, <1>4, <1>5, <1>6, RunnerSteps DEF Next, PositionStep, RunnerQuiet, Learning

\* Within a tick only the return of a settlement or of a draw changes what it saw.
LEMMA LoopNext ==
  ASSUME Typed, [Next]_vars, pc' \in InTick
  PROVE  \/ StartTick
         \/ /\ pc \in InTick /\ loop'.skew = loop.skew /\ loop'.partial = loop.partial
            /\ \/ loop'.seen = loop.seen
               \/ SettleReturns /\ loop'.seen = [loop.seen EXCEPT ![task.p] = "settled"]
               \/ DrawReturns /\ loop'.seen = [loop.seen EXCEPT ![task.p] = "trading"]
<1> USE DEF InTick, Working, Resolving, Swapping, Deciding, Paying
<1>0. loop \in LoopRecord /\ (pc \in {"settling", "drawing"} => task.p \in Positions)
  BY DEF Typed, TypeOK, TaskOK
<1>1. CASE UNCHANGED vars \/ PositionStep \/ Swapped
  BY <1>1, RunnerStands
<1>2. CASE SkipTick \/ Exit \/ Restart
  BY <1>2 DEF SkipTick, Exit, Restart, Goto
<1>3. CASE Learning \/ Trade \/ SecondLeg \/ Unwind
  BY <1>3, WorkSteps
<1>4. ASSUME NEW q \in Positions, NotDueYet(q) \/ TakeBook(q) \/ PassOver(q) \/ DropBook(q)
                                  \/ Adopt(q) \/ SendDraw(q)
      PROVE  pc \in InTick /\ loop'.skew = loop.skew /\ loop'.partial = loop.partial
             /\ loop'.seen = loop.seen
  <2>1. loop' = [loop EXCEPT !.todo = @ \ {q}]
    BY <1>4 DEF NotDueYet, TakeBook, PassOver, DropBook, Adopt, SendDraw, Visit
  <2>2. pc \in {"books", "draws"}
    BY <1>4 DEF NotDueYet, TakeBook, PassOver, DropBook, Adopt, SendDraw, Goto
  <2> QED BY <1>0, <2>1, <2>2 DEF LoopRecord
<1>5. CASE NextPass \/ EndTick
  BY <1>0, <1>5 DEF NextPass, EndTick, Goto, LoopRecord
<1>6. CASE SendSettle \/ SettleErrors \/ DrawErrors
  BY <1>6 DEF SendSettle, SettleErrors, DrawErrors, Goto
<1>7. CASE SettleReturns
  <2>1. pc = "settling" /\ loop' = [loop EXCEPT !.seen[task.p] = "settled"]
    BY <1>7 DEF SettleReturns, Goto
  <2> QED BY <1>0, <1>7, <2>1 DEF LoopRecord
<1>8. CASE DrawReturns
  <2>1. pc = "drawing" /\ loop' = [loop EXCEPT !.seen[task.p] = "trading"]
    BY <1>8 DEF DrawReturns, Goto
  <2> QED BY <1>0, <1>8, <2>1 DEF LoopRecord
<1> QED
  BY <1>1, <1>2, <1>3, <1>4, <1>5, <1>6, <1>7, <1>8 DEF Next, PositionStep, Runner, Learning

LEMMA TaskNext ==
  ASSUME Typed, [Next]_vars, pc' \in Working
  PROVE  \/ \E p \in Positions : TakeBook(p) /\ task'.p = p /\ loop.seen[p] = "trading"
         \/ pc \in Working /\ task'.p = task.p
<1> USE DEF Working, Resolving, Swapping, Deciding, Paying
<1>1. CASE UNCHANGED vars \/ PositionStep \/ Swapped
  BY <1>1, RunnerStands
<1>2. CASE SkipTick \/ Exit \/ Restart
  BY <1>2 DEF SkipTick, Exit, Restart, Goto
<1>3. CASE Learning \/ Trade \/ SecondLeg \/ Unwind
  BY <1>3, WorkSteps
<1>4. ASSUME NEW q \in Positions, NotDueYet(q) \/ PassOver(q) \/ DropBook(q) \/ Adopt(q)
             \/ SendDraw(q)
      PROVE  FALSE
  BY <1>4 DEF NotDueYet, PassOver, DropBook, Adopt, SendDraw, Goto
<1>5. ASSUME NEW q \in Positions, TakeBook(q)
      PROVE  task'.p = q /\ loop.seen[q] = "trading"
  BY <1>5 DEF TakeBook
<1>6. CASE StartTick \/ NextPass \/ EndTick \/ SettleErrors \/ DrawErrors \/ SettleReturns
           \/ DrawReturns
  BY <1>6
     DEF StartTick, NextPass, EndTick, SettleErrors, DrawErrors, SettleReturns, DrawReturns, Goto
<1>7. CASE SendSettle
  BY <1>7 DEF SendSettle, Goto, Typed, TypeOK, TaskRecord
<1> QED
  BY <1>1, <1>2, <1>3, <1>4, <1>5, <1>6, <1>7 DEF Next, PositionStep, Runner, Learning

LEMMA PaceNext ==
  ASSUME Typed, [Next]_vars
  PROVE  \/ UNCHANGED pace
         \/ SkipTick \/ EndTick \/ Exit \/ Tick
         \/ NextPass /\ pc' = "idle" /\ pace' = Done
<1>1. CASE Runner
  <2>1. ASSUME NEW p \in Positions, NotDueYet(p) \/ TakeBook(p) \/ PassOver(p)
        PROVE  UNCHANGED pace
    BY <2>1 DEF NotDueYet, TakeBook, PassOver
  <2>2. ASSUME NEW p \in Positions, NoBookStep(p) \/ NewBookStep(p) \/ SendDraw(p)
        PROVE  UNCHANGED pace
    BY <2>2 DEF NoBookStep, NewBookStep, DropBook, SettleReturns, Adopt, DrawReturns, SendDraw
  <2>3. CASE Learning \/ Trade \/ SecondLeg \/ Unwind
    BY <2>3, WorkSteps
  <2>4. CASE StartTick \/ Restart \/ SendSettle \/ SettleErrors \/ DrawErrors
    BY <2>4 DEF StartTick, Restart, SendSettle, SettleErrors, DrawErrors
  <2>5. CASE NextPass
    BY <2>5 DEF NextPass
  <2> QED BY <1>1, <2>1, <2>2, <2>3, <2>4, <2>5, RunnerSteps DEF RunnerQuiet, ListStep, Learning
<1>2. CASE Lost \/ UNCHANGED vars \/ Swapped
  BY <1>2 DEF Lost, vars, Swapped, SwapLands, SwapEnds
<1>3. ASSUME NEW p \in Positions, Open(p) \/ Cancel(p) \/ Claim(p)
      PROVE  UNCHANGED pace
  BY <1>3 DEF Open, Cancel, Claim, TraderMoves
<1>4. ASSUME NEW tx, DrawLands(tx) \/ SettleLands(tx)
      PROVE  UNCHANGED pace
  BY <1>4 DEF DrawLands, SettleLands
<1> QED BY <1>1, <1>2, <1>3, <1>4 DEF Next, Trader, Lands

LEMMA NowNext ==
  ASSUME Typed, [Next]_vars
  PROVE  \/ Tick
         \/ UNCHANGED now
<1>1. CASE UNCHANGED vars \/ SkipTick \/ Exit \/ Lost \/ Swapped
  BY <1>1 DEF vars, SkipTick, Exit, Lost, Swapped, SwapLands, SwapEnds
<1>2. CASE Runner
  BY <1>2, ChainFrame
<1>3. ASSUME NEW p \in Positions, Open(p) \/ Cancel(p) \/ Claim(p)
      PROVE  UNCHANGED now
  BY <1>3 DEF Open, Cancel, Claim, TraderMoves
<1>4. ASSUME NEW tx, DrawLands(tx) \/ SettleLands(tx)
      PROVE  UNCHANGED now
  BY <1>4 DEF DrawLands, SettleLands
<1> QED BY <1>1, <1>2, <1>3, <1>4 DEF Next, Trader, Lands

\* A position that is drawn is drawn now.
LEMMA DrawnNext ==
  ASSUME Typed, [Next]_vars, NEW p \in Positions, Trading(p)'
  PROVE  \/ Trading(p) /\ drawn_at'[p] = drawn_at[p]
         \/ \E tx \in draws : DrawLands(tx) /\ tx.p = p /\ drawn_at'[p] = now
<1>0. /\ position \in [Positions -> Statuses] /\ drawn_at \in [Positions -> Nat]
      /\ \A tx \in draws \cup settles : tx.p \in Positions
  BY DEF Typed, TypeOK
<1>1. CASE UNCHANGED vars \/ SkipTick \/ Exit \/ Lost \/ Tick
  BY <1>1 DEF vars, SkipTick, Exit, Lost, Tick, chain, Trading
<1>2. CASE Runner
  BY <1>2, ChainFrame DEF Trading
<1>3. ASSUME NEW q \in Positions, Open(q) \/ Cancel(q) \/ Claim(q)
      PROVE  Trading(p) /\ UNCHANGED drawn_at
  BY <1>0, <1>3 DEF Open, Cancel, Claim, TraderMoves, Trading
<1>4. ASSUME NEW tx \in draws, DrawLands(tx)
      PROVE  \/ Trading(p) /\ drawn_at'[p] = drawn_at[p]
             \/ tx.p = p /\ drawn_at'[p] = now
  BY <1>0, <1>4 DEF DrawLands, Trading
<1>5. ASSUME NEW tx \in settles, SettleLands(tx)
      PROVE  Trading(p) /\ UNCHANGED drawn_at
  BY <1>0, <1>5 DEF SettleLands, Trading
<1>6. CASE Swapped
  BY <1>6 DEF Swapped, SwapLands, SwapEnds, Trading
<1> QED BY <1>1, <1>2, <1>3, <1>4, <1>5, <1>6 DEF Next, Trader, Lands

LEMMA InTimeNext ==
  ASSUME Typed, [Next]_vars, NEW start \in Int, CallAt(start), InTime(start), SkewOK, SeenDrawn
  PROVE  InTime(start)'
<1> USE Constants
<1>0. /\ TX_LIFE_SECS \in Nat /\ now \in Nat
      /\ \A tx \in draws \cup settles : tx.p \in Positions /\ tx.at \in Nat
  BY RunnerAssumption DEF Typed, TypeOK
<1>1. CASE Tick
  <2>1. /\ now' = now + 1 /\ draws' = Alive(draws) /\ settles' = Alive(settles)
        /\ UNCHANGED <<position, drawn_at>>
    BY <1>1 DEF Tick
  <2>2. \A tx \in settles' : /\ tx \in settles /\ now < tx.at + TX_LIFE_SECS /\ tx.at <= now
                             /\ position[tx.p] \in Drawn
    BY <2>1 DEF Alive, InTime
  <2>3. \A tx \in draws' : tx \in draws /\ now < tx.at + TX_LIFE_SECS
                           /\ tx.at + TX_LIFE_SECS <= start - 2
    BY <2>1 DEF Alive, InTime
  <2>4. \A tx \in settles' : tx.at <= now' /\ now' <= tx.at + TX_LIFE_SECS
                             /\ position'[tx.p] \in Drawn
    BY <1>0, <2>1, <2>2
  <2>5. \A tx \in draws' : now' <= tx.at + TX_LIFE_SECS /\ tx.at + TX_LIFE_SECS <= start - 2
    BY <1>0, <2>1, <2>3
  <2>6. \A p \in Positions : Trading(p)' => drawn_at'[p] <= start - 2
    BY <2>1 DEF InTime, Trading
  <2> QED BY <2>4, <2>5, <2>6 DEF InTime
<1>2. CASE UNCHANGED now
  <2>1. \A tx \in settles' : tx.at <= now /\ now <= tx.at + TX_LIFE_SECS
                             /\ position'[tx.p] \in Drawn
    <3>1. ASSUME NEW tx \in settles
          PROVE  tx.at <= now /\ now <= tx.at + TX_LIFE_SECS /\ position'[tx.p] \in Drawn
      BY <1>0, DrawnStay DEF InTime
    <3>2. ASSUME SendSettle
          PROVE  /\ settles' = settles \cup {SettleTx'} /\ SettleTx'.at = now
                 /\ SettleTx'.p = task.p /\ position'[task.p] \in Drawn
      <4>1. task' = [task EXCEPT !.sent = now] /\ settles' = settles \cup {SettleTx'}
            /\ pc = "settle"
            /\ position' = position
        BY <3>2 DEF SendSettle, Goto
      <4>2. position[task.p] \in Drawn
        BY <4>1 DEF SeenDrawn, InTick, Working, Paying, Typed, TaskOK
      <4>3. task'.sent = now /\ task'.p = task.p
        BY <4>1 DEF Typed, TypeOK, TaskRecord
      <4> QED BY <4>1, <4>2, <4>3 DEF SettleTx
    <3>3. ASSUME NEW tx, tx = SettleTx', SendSettle
          PROVE  tx.at <= now /\ now <= tx.at + TX_LIFE_SECS /\ position'[tx.p] \in Drawn
      <4>1. tx.at = now /\ position'[tx.p] \in Drawn
        BY <3>2, <3>3
      <4> QED BY <1>0, <4>1
    <3> QED BY <3>1, <3>2, <3>3, SettlesNext
  <2>2. \A tx \in draws' : now <= tx.at + TX_LIFE_SECS /\ tx.at + TX_LIFE_SECS <= start - 2
    <3>1. ASSUME NEW tx \in draws
          PROVE  now <= tx.at + TX_LIFE_SECS /\ tx.at + TX_LIFE_SECS <= start - 2
      BY DEF InTime
    <3>2. ASSUME NEW p \in Positions, SendDraw(p)
          PROVE  /\ draws' = draws \cup {DrawTx'} /\ DrawTx'.at = now
                 /\ now + TX_LIFE_SECS <= start - 2
      <4>1. task' = [task EXCEPT !.p = p, !.sent = now] /\ draws' = draws \cup {DrawTx'}
            /\ pc = "draws"
            /\ ~TooLateToDraw
        BY <3>2 DEF SendDraw, Goto
      <4>2. task'.sent = now
        BY <4>1 DEF Typed, TypeOK, TaskRecord
      <4>3. loop.skew \in ClockErrors
        BY <4>1 DEF SkewOK, InTick
      <4>4. now + loop.skew < DEADLINE - SETTLE_BUFFER_SECS - DRAW_MARGIN_SECS
        BY <1>0, <4>1, <4>3 DEF TooLateToDraw, Clock
      <4>5. DEADLINE - SETTLE_BUFFER_SECS - DRAW_MARGIN_SECS - loop.skew + TX_LIFE_SECS < start
        BY <4>3 DEF CallAt
      <4>6. now + TX_LIFE_SECS <= start - 2
        <5> DEFINE c == loop.skew
        <5>1. c \in Int /\ now \in Int /\ TX_LIFE_SECS \in Int /\ DEADLINE \in Int
              /\ SETTLE_BUFFER_SECS \in Int /\ DRAW_MARGIN_SECS \in Int
          <6>1. c \in Int
            BY ONLY <4>3, Constants
          <6> QED BY ONLY <1>0, <6>1, Constants
        <5>2. now + c < DEADLINE - SETTLE_BUFFER_SECS - DRAW_MARGIN_SECS
          BY <4>4
        <5>3. DEADLINE - SETTLE_BUFFER_SECS - DRAW_MARGIN_SECS - c + TX_LIFE_SECS < start
          BY <4>5
        <5> HIDE DEF c
        <5> QED BY ONLY <5>1, <5>2, <5>3, start \in Int
      <4> QED BY <4>1, <4>2, <4>6 DEF DrawTx
    <3>3. ASSUME NEW tx, NEW p \in Positions, SendDraw(p), tx = DrawTx'
          PROVE  now <= tx.at + TX_LIFE_SECS /\ tx.at + TX_LIFE_SECS <= start - 2
      <4>1. tx.at = now /\ now + TX_LIFE_SECS <= start - 2
        BY <3>2, <3>3
      <4> QED BY <1>0, <4>1
    <3> QED BY <3>1, <3>2, <3>3, SettlesNext
  <2>3. \A p \in Positions : Trading(p)' => drawn_at'[p] <= start - 2
    <3> SUFFICES ASSUME NEW p \in Positions, Trading(p)' PROVE drawn_at'[p] <= start - 2
      OBVIOUS
    <3>1. Trading(p) => drawn_at[p] <= start - 2
      BY DEF InTime
    <3>2. \A tx \in draws : now <= start - 2
      BY <1>0 DEF InTime
    <3> QED BY <3>1, <3>2, DrawnNext
  <2> QED BY <1>2, <2>1, <2>2, <2>3 DEF InTime
<1> QED BY <1>1, <1>2, NowNext

LEMMA DownNext ==
  ASSUME Typed, [Next]_vars, pc' = "down"
  PROVE  pc = "down" \/ Exit
<1>1. CASE UNCHANGED vars \/ PositionStep \/ Swapped
  BY <1>1, RunnerStands
<1>2. CASE Exit \/ SkipTick
  BY <1>2 DEF SkipTick
<1>3. CASE Runner
  <2>1. ASSUME NEW p \in Positions, NotDueYet(p) \/ TakeBook(p) \/ PassOver(p)
        PROVE  FALSE
    BY <2>1 DEF NotDueYet, TakeBook, PassOver, Goto
  <2>2. ASSUME NEW p \in Positions, NoBookStep(p) \/ NewBookStep(p) \/ SendDraw(p)
        PROVE  FALSE
    BY <2>2 DEF NoBookStep, NewBookStep, DropBook, SettleReturns, Adopt, DrawReturns, SendDraw, Goto
  <2>3. CASE Learning \/ Trade \/ SecondLeg \/ Unwind
    BY <2>3, WorkSteps DEF Working, Resolving, Swapping, Deciding, Paying
  <2>4. CASE StartTick \/ Restart \/ SendSettle \/ SettleErrors \/ DrawErrors \/ EndTick
    BY <2>4 DEF StartTick, Restart, SendSettle, SettleErrors, DrawErrors, EndTick, Goto
  <2>5. CASE NextPass
    BY <2>5 DEF NextPass
  <2> QED BY <1>3, <2>1, <2>2, <2>3, <2>4, <2>5, RunnerSteps DEF RunnerQuiet, ListStep, Learning
<1> QED BY <1>1, <1>2, <1>3 DEF Next, PositionStep

LEMMA PaceKept ==
  ASSUME Typed, [Next]_vars, PaceOK
  PROVE  PaceOK'
<1> USE DEF Done, Due, PaceOK, InTick, Working, Resolving, Swapping, Deciding, Paying
<1>1. CASE UNCHANGED pace /\ ~Exit
  <2>1. pc' \in InTick => StartTick \/ pc \in InTick
    BY LoopNext
  <2>2. StartTick => pace # "done"
    BY DEF StartTick
  <2>3. pc' = "down" => pc = "down"
    BY <1>1, DownNext
  <2> QED BY <1>1, <2>1, <2>2, <2>3
<1>2. CASE SkipTick \/ EndTick \/ Exit \/ Tick
  BY <1>2 DEF SkipTick, EndTick, Exit, Tick, ChainOnly, Goto
<1>3. CASE NextPass /\ pc' = "idle" /\ pace' = Done
  BY <1>3
<1> QED BY <1>1, <1>2, <1>3, PaceNext

LEMMA SeenDrawnNext ==
  ASSUME Typed, [Next]_vars, SeenDrawn, SkewOK
  PROVE  SeenDrawn' /\ SkewOK'
<1>0. /\ loop.seen \in [Positions -> Statuses]
      /\ pc \in Working \cup {"drawing"} => task.p \in Positions
  BY DEF Typed, TypeOK, TaskOK, LoopRecord
<1> SUFFICES ASSUME pc' \in InTick
             PROVE  /\ \A p \in Positions : loop'.seen[p] = "trading" => position'[p] \in Drawn
                    /\ pc' \in Working => loop'.seen[task'.p] = "trading"
                    /\ loop'.skew \in ClockErrors
  BY DEF SeenDrawn, SkewOK
<1>1. CASE StartTick
  <2>1. /\ pc' = "books" /\ UNCHANGED position
        /\ \E skew \in ClockErrors : loop'.skew = skew
        /\ \A p \in Positions : loop'.seen[p] = "trading" => position[p] = "trading"
    BY <1>1 DEF StartTick, chain, Goto
  <2> QED BY <2>1 DEF Drawn, Working, Resolving, Swapping, Deciding, Paying
<1>2. CASE pc \in InTick /\ loop'.skew = loop.skew /\ loop'.seen = loop.seen
  <2>1. \A p \in Positions : loop'.seen[p] = "trading" => position'[p] \in Drawn
    BY <1>2, DrawnStay DEF SeenDrawn
  <2>2. pc' \in Working => loop'.seen[task'.p] = "trading"
    BY <1>2, TaskNext DEF SeenDrawn
  <2> QED BY <1>2, <2>1, <2>2 DEF SkewOK
<1>3. CASE /\ pc \in InTick /\ loop'.skew = loop.skew
           /\ SettleReturns /\ loop'.seen = [loop.seen EXCEPT ![task.p] = "settled"]
  <2>1. \A p \in Positions : loop'.seen[p] = "trading" => loop.seen[p] = "trading"
    BY <1>0, <1>3
  <2>2. \A p \in Positions : loop'.seen[p] = "trading" => position'[p] \in Drawn
    BY <1>3, <2>1, DrawnStay DEF SeenDrawn
  <2>3. pc' = "books"
    BY <1>3 DEF SettleReturns, Goto
  <2> QED BY <1>3, <2>2, <2>3 DEF SkewOK, Working, Resolving, Swapping, Deciding, Paying
<1>4. CASE /\ pc \in InTick /\ loop'.skew = loop.skew
           /\ DrawReturns /\ loop'.seen = [loop.seen EXCEPT ![task.p] = "trading"]
  <2>1. pc = "drawing" /\ pc' = "draws" /\ position[task.p] \in {"trading", "defaulted"}
        /\ UNCHANGED position
    BY <1>4 DEF DrawReturns, Goto, chain
  <2>2. \A p \in Positions : loop'.seen[p] = "trading" => loop.seen[p] = "trading" \/ p = task.p
    BY <1>0, <1>4
  <2>3. \A p \in Positions : loop'.seen[p] = "trading" => position'[p] \in Drawn
    BY <1>4, <2>1, <2>2 DEF SeenDrawn, Drawn
  <2> QED BY <1>4, <2>1, <2>3 DEF SkewOK, Working, Resolving, Swapping, Deciding, Paying
<1> QED BY <1>1, <1>2, <1>3, <1>4, LoopNext

\* From start on no position is drawn.
LEMMA NoDrawLate ==
  ASSUME Typed, [Next]_vars, NEW start \in Int, InTime(start), now >= start - 1,
         NEW p \in Positions, Trading(p)'
  PROVE  Trading(p)
<1>1. now \in Nat /\ TX_LIFE_SECS \in Nat /\ \A tx \in draws : tx.at \in Nat
  BY RunnerAssumption DEF Typed, TypeOK
<1>2. \A tx \in draws : FALSE
  BY <1>1 DEF InTime
<1> QED BY <1>2, DrawnNext

LEMMA SeenKeptNext ==
  ASSUME Typed, [Next]_vars, NEW start \in Int, InTime(start), SeenKept(start), pace # "any", PaceOK
  PROVE  SeenKept(start)'
<1>0. /\ loop.seen \in [Positions -> Statuses] /\ now \in Nat
      /\ pc \in Working \cup {"drawing"} => task.p \in Positions
      /\ \A p \in Positions : drawn_at[p] \in Nat
  BY DEF Typed, TypeOK, TaskOK, LoopRecord
<1> SUFFICES ASSUME pc' \in InTick, now' >= start - 1,
                    NEW p \in Positions, Trading(p)', disk'[p].kept
             PROVE  loop'.seen[p] = "trading"
  BY DEF SeenKept, Trading
<1>1. UNCHANGED now
  <2>1. Tick => pc = "idle" /\ pc' = "idle"
    BY DEF Tick, ChainOnly
  <2> QED BY <2>1, NowNext DEF InTick, Working, Resolving, Swapping, Deciding, Paying
<1>2. Trading(p)
  BY <1>1, NoDrawLate
<1>3. CASE StartTick
  <2>1. position[p] = "trading" /\ p \notin Missable
    BY <1>0, <1>1, <1>2 DEF Trading, Missable, InTime
  <2>2. books[p].kept
    <3>1. UNCHANGED disk /\ pc = "idle"
      BY <1>3 DEF StartTick, Goto, files
    <3> QED BY <3>1 DEF Typed, FilesAgree
  <2>3. loop'.seen[p] = position[p]
    BY <1>3, <2>1, <2>2 DEF StartTick
  <2> QED BY <2>1, <2>3
<1>4. CASE ~StartTick
  <2>1. pc \in InTick
    BY <1>4, LoopNext
  <2>2. SettleReturns => task.p # p
    BY <1>2 DEF SettleReturns, Trading
  <2>3. CASE DrawReturns /\ task.p = p
    <3>1. pc = "drawing" /\ loop' = [loop EXCEPT !.seen[task.p] = "trading"]
      BY <2>3 DEF DrawReturns, Goto
    <3> QED BY <1>0, <2>3, <3>1 DEF Typed, TypeOK, LoopRecord
  <2>4. CASE ~(DrawReturns /\ task.p = p)
    <3>1. loop'.seen[p] = loop.seen[p]
      BY <1>0, <1>4, <2>2, <2>4, LoopNext
    <3>2. loop.seen[p] = "trading"
      <4>1. CASE disk[p].kept
        BY <1>1, <1>2, <2>1, <4>1 DEF SeenKept
      <4>2. CASE NewBookStep(p)
        BY <2>4, <4>2 DEF NewBookStep, Adopt
      <4> QED BY <4>1, <4>2, BooksNext
    <3> QED BY <3>1, <3>2
  <2> QED BY <2>3, <2>4
<1> QED BY <1>3, <1>4

LEMMA TimingNext ==
  ASSUME NEW start \in Int, CallAt(start), TimingInv(start), [Next]_vars, pace # "any"
  PROVE  TimingInv(start)'
<1>1. Typed /\ SkewOK /\ PaceOK /\ InTime(start) /\ SeenDrawn /\ SeenKept(start)
      /\ faults \in Nat /\ IsFiniteSet(settles)
  BY DEF TimingInv
<1>2. Typed' /\ PaceOK' /\ SeenDrawn' /\ SkewOK'
  BY <1>1, TypedNext, PaceKept, SeenDrawnNext
<1>3. InTime(start)' /\ SeenKept(start)'
  BY <1>1, InTimeNext, SeenKeptNext
<1>4. faults' \in Nat
  BY <1>1, Failures
<1>5. IsFiniteSet(settles')
  <2>1. CASE settles' \subseteq settles
    BY <1>1, <2>1, FS_Subset
  <2>2. CASE SendSettle
    BY <1>1, <2>2, FS_AddElement DEF SendSettle
  <2> QED BY <1>1, <2>1, <2>2, SettlesNext
<1> QED BY <1>2, <1>3, <1>4, <1>5 DEF TimingInv

\* The slack of a position never shrinks between ticks of the clock; a setback, or a book for
\* a position that had none, makes it grow.
Setback(p, start) ==
  /\ pc # "down"
  /\ pc # "settling" \/ pc' = "settling" \/ task.p = p
  /\ \/ faults' = faults + 1
     \/ Spent(p)' # Spent(p)
     \/ LeftOf(p, From(start))' # LeftOf(p, From(start))

LEMMA SlackNext ==
  ASSUME NEW start \in Int, TimingInv(start), [Next]_vars, UNCHANGED now, now >= start - 1,
         NEW p \in Positions, Trading(p), Trading(p)', NEW k \in Nat
  PROVE  /\ Slack(p, start, k) \in Int /\ Slack(p, start, k)' \in Int
         /\ Slack(p, start, k)' >= Slack(p, start, k)
         /\ Setback(p, start) => Slack(p, start, k)' >= Slack(p, start, k) + 1
         /\ ~disk[p].kept /\ disk'[p].kept => Slack(p, start, k)' >= Slack(p, start, k) + 1
         /\ disk[p].kept /\ ~disk'[p].kept => pc' = "idle"
<1>1. /\ Typed /\ \A tx \in settles : position[tx.p] \in Drawn
      /\ IsFiniteSet(settles) /\ faults \in Nat /\ now \in Nat
  BY DEF TimingInv, InTime, Typed, TypeOK
<1> DEFINE x == Excuses(p, From(start), k)
           y == Excuses(p, From(start), k)'
           s == Slack(p, start, k)
           t == Slack(p, start, k)'
           m == Missing(p)
           n == Missing(p)'
<1>2. /\ x \in Int /\ y \in Int /\ y >= x
      /\ Setback(p, start) => y >= x + 1
      /\ pc # "settling" /\ faults' = faults + 1 => y >= x + 1
  <2>1. \A from : /\ Excuses(p, from, k) \in Int /\ Excuses(p, from, k)' \in Int
                  /\ Excuses(p, from, k)' >= Excuses(p, from, k)
                  /\ (/\ pc # "settling" \/ pc' = "settling" \/ task.p = p
                      /\ \/ faults' = faults + 1
                         \/ Spent(p)' # Spent(p)
                         \/ LeftOf(p, from)' # LeftOf(p, from)) =>
                       Excuses(p, from, k)' >= Excuses(p, from, k) + 1
    BY <1>1, ExcusesNext
  <2> QED BY <2>1 DEF Setback, From
<1>3. s = x - m - (now - start) /\ t = y - n - (now - start)
  BY DEF Slack, From
<1>4. /\ m = IF disk[p].kept THEN 0 ELSE 1
      /\ n = IF disk'[p].kept THEN 0 ELSE 1
  BY DEF Missing
<1>5. /\ disk[p].kept /\ ~disk'[p].kept =>
           faults' = faults + 1 /\ pc = "down" /\ pc' = "idle"
  <2>1. ~NoBookStep(p) \/ ~disk[p].kept
    <3>1. disk[p].kept => ~DropBook(p)
      BY DEF TimingInv, SeenKept, DropBook, Goto, InTick
    <3>2. task.p = p => ~SettleReturns
      BY DEF SettleReturns, Trading
    <3> QED BY <3>1, <3>2 DEF NoBookStep
  <2>2. Fault => faults' = faults + 1
    BY DEF Fault
  <2> QED BY <1>1, <2>1, <2>2, BooksNext
<1>6. Setback(p, start) => pc # "down"
  BY DEF Setback
<1>7. disk[p].kept /\ ~disk'[p].kept => y >= x + 1
  BY <1>2, <1>5
<1> HIDE DEF x, y, s, t, m, n
<1>8. s \in Int /\ t \in Int /\ t >= s
  BY <1>1, <1>2, <1>3, <1>4, <1>7
<1>9. Setback(p, start) => t >= s + 1
  BY <1>1, <1>2, <1>3, <1>4, <1>5, <1>6
<1>10. ~disk[p].kept /\ disk'[p].kept => t >= s + 1
  BY <1>1, <1>2, <1>3, <1>4
<1> QED BY <1>5, <1>8, <1>9, <1>10 DEF s, t

\* Who has the list of books, and who the list of draws.
LEMMA ListNext ==
  ASSUME Typed, [Next]_vars, NEW p \in Positions, p \in loop.todo, pc' \in InTick
  PROVE  /\ pc \in Working \cup {"books"} =>
              \/ pc' \in Working \cup {"books"} /\ p \in loop'.todo
              \/ DropBook(p) \/ NotDueYet(p) \/ TakeBook(p)
         /\ pc \in {"draws", "drawing"} =>
              p \in loop'.todo \/ SendDraw(p) \/ Adopt(p) \/ PassOver(p)
<1> USE DEF InTick, Working, Resolving, Swapping, Deciding, Paying
<1>0. loop \in LoopRecord /\ (pc \in {"settling", "drawing"} => task.p \in Positions)
  BY DEF Typed, TypeOK, TaskOK
<1>1. CASE UNCHANGED vars \/ PositionStep \/ Swapped
  BY <1>1, RunnerStands
<1>2. CASE SkipTick \/ Exit \/ Restart
  BY <1>2 DEF SkipTick, Exit, Restart, Goto
<1>3. CASE Learning \/ Trade \/ SecondLeg \/ Unwind
  BY <1>3, WorkSteps
<1>4. ASSUME NEW q \in Positions, NotDueYet(q) \/ TakeBook(q) \/ DropBook(q)
      PROVE  /\ p \in loop'.todo \/ p = q
             /\ pc = "books" /\ pc' \in Working \cup {"books"}
  <2>1. loop' = [loop EXCEPT !.todo = @ \ {q}]
    BY <1>4 DEF NotDueYet, TakeBook, DropBook, Visit
  <2>2. pc = "books" /\ pc' \in Working \cup {"books"}
    BY <1>4 DEF NotDueYet, TakeBook, DropBook, Goto
  <2> QED BY <1>0, <2>1, <2>2 DEF LoopRecord
<1>5. ASSUME NEW q \in Positions, Adopt(q) \/ SendDraw(q) \/ PassOver(q)
      PROVE  (p \in loop'.todo \/ p = q) /\ pc = "draws"
  <2>1. loop' = [loop EXCEPT !.todo = @ \ {q}]
    BY <1>5 DEF Adopt, SendDraw, PassOver, Visit
  <2>2. pc = "draws"
    BY <1>5 DEF Adopt, SendDraw, PassOver, Goto
  <2> QED BY <1>0, <2>1, <2>2 DEF LoopRecord
<1>6. CASE StartTick \/ NextPass \/ EndTick
  BY <1>6 DEF StartTick, NextPass, EndTick, Goto
<1>7. CASE SendSettle \/ SettleErrors \/ DrawErrors
  <2>1. UNCHANGED loop
    BY <1>7 DEF SendSettle, SettleErrors, DrawErrors
  <2>2. \/ pc \in Working /\ pc' \in Working \cup {"books"}
        \/ pc = "drawing"
    BY <1>7 DEF SendSettle, SettleErrors, DrawErrors, Goto
  <2> QED BY <2>1, <2>2
<1>8. CASE SettleReturns
  <2>1. pc = "settling" /\ pc' = "books" /\ loop' = [loop EXCEPT !.seen[task.p] = "settled"]
    BY <1>8 DEF SettleReturns, Goto
  <2> QED BY <1>0, <2>1 DEF LoopRecord
<1>9. CASE DrawReturns
  <2>1. pc = "drawing" /\ loop' = [loop EXCEPT !.seen[task.p] = "trading"]
    BY <1>9 DEF DrawReturns, Goto
  <2> QED BY <1>0, <2>1 DEF LoopRecord
<1> QED
  BY <1>1, <1>2, <1>3, <1>4, <1>5, <1>6, <1>7, <1>8, <1>9 DEF Next, PositionStep, Runner, Learning

\* The draws begin with every position that was seen.
LEMMA DrawsBegin ==
  ASSUME Typed, [Next]_vars, pc' \in {"draws", "drawing"}
  PROVE  \/ pc \in {"draws", "drawing"}
         \/ loop'.todo = {p \in Positions : loop.seen[p] # "absent"}
<1> USE DEF Working, Resolving, Swapping, Deciding, Paying
<1>1. CASE UNCHANGED vars \/ PositionStep \/ Swapped
  BY <1>1, RunnerStands
<1>2. CASE SkipTick \/ Exit \/ Restart
  BY <1>2 DEF SkipTick, Exit, Restart, Goto
<1>3. CASE Learning \/ Trade \/ SecondLeg \/ Unwind
  BY <1>3, WorkSteps
<1>4. ASSUME NEW q \in Positions, NotDueYet(q) \/ TakeBook(q) \/ DropBook(q) \/ Adopt(q)
                                  \/ SendDraw(q) \/ PassOver(q)
      PROVE  pc \in {"draws", "drawing"}
  BY <1>4 DEF NotDueYet, TakeBook, DropBook, Adopt, SendDraw, PassOver, Goto
<1>5. CASE NextPass
  BY <1>5 DEF NextPass, Typed, TypeOK, LoopRecord
<1>6. CASE StartTick \/ EndTick \/ SendSettle \/ SettleErrors \/ SettleReturns \/ DrawErrors
           \/ DrawReturns
  BY <1>6 DEF StartTick, EndTick, SendSettle, SettleErrors, SettleReturns, DrawErrors,
     DrawReturns, Goto
<1> QED
  BY <1>1, <1>2, <1>3, <1>4, <1>5, <1>6 DEF Next, PositionStep, Runner, Learning

\* From start on every book is due, and every tick past the last call.
LEMMA LastCall ==
  ASSUME NEW start \in Int, CallAt(start), TimingInv(start), now >= start, pc \in InTick
  PROVE  PastLastCall /\ \A b : DueToSettle(b)
<1>1. loop.skew \in ClockErrors /\ loop.skew \in Int /\ now \in Int
  BY DEF TimingInv, SkewOK, Typed, TypeOK, LoopRecord
<1>2. start + loop.skew >= DEADLINE - LAST_CALL_SECS
  BY <1>1 DEF CallAt
<1>3. DEADLINE \in Int /\ LAST_CALL_SECS \in Int /\ SETTLE_BUFFER_SECS \in Int
      /\ LAST_CALL_SECS <= SETTLE_BUFFER_SECS
  BY RunnerAssumption
<1>4. Clock >= DEADLINE - LAST_CALL_SECS /\ Clock >= DEADLINE - SETTLE_BUFFER_SECS
  <2> DEFINE c == loop.skew
  <2>1. now + c >= DEADLINE - LAST_CALL_SECS /\ now + c >= DEADLINE - SETTLE_BUFFER_SECS
    <3>1. c \in Int /\ start + c >= DEADLINE - LAST_CALL_SECS
      BY <1>1, <1>2
    <3> HIDE DEF c
    <3> QED BY <1>1, <1>3, <3>1
  <2> QED BY <2>1 DEF Clock
<1> QED BY <1>4 DEF PastLastCall, DueToSettle

\* What the runner does with a position in hand.
LEMMA InHandSteps ==
  ASSUME Typed, Runner, pc \in InHand
  PROVE  \/ ReadStatus \/ ReadHeight \/ ReadLanded \/ Recheck \/ Act \/ Unwind \/ UnwindFails
         \/ ReadBalance \/ SendSettle \/ SettleReturns \/ SettleErrors
<1> USE DEF InHand, Resolving, Paying
<1>1. ~(ListStep \/ Restart)
  BY DEF ListStep, StartTick, NextPass, EndTick, NotDueYet, TakeBook, PassOver, Restart, Goto
<1>2. ASSUME NEW p \in Positions, NoBookStep(p) \/ NewBookStep(p) \/ SendDraw(p)
      PROVE  SettleReturns
  BY <1>2 DEF NoBookStep, NewBookStep, DropBook, Adopt, DrawReturns, SendDraw, Goto
<1>3. ~(NoTrade \/ Send \/ Confirm \/ ReadMeta \/ Trade \/ SecondLeg \/ DrawErrors)
  BY DEF NoTrade, Send, Confirm, ReadMeta, Trade, SecondLeg, DrawErrors, Goto
<1> QED BY <1>1, <1>2, <1>3, RunnerSteps DEF RunnerQuiet

LEMMA InHandByRunner ==
  ASSUME NEW start \in Int, TimingInv(start), [Next]_vars, Runner, PastLastCall,
         \A b : DueToSettle(b),
         pc \in InHand, NEW p \in Positions, task.p = p, disk[p].kept, Trading(p), Trading(p)',
         pc \in {"settle", "settling"} => task.paying <= wallet.sol,
         pc = "settling" => SettleTx \in settles
  PROVE  \/ Setback(p, start)
         \/ /\ pc' \in InHand /\ task'.p = p
            /\ pc' \in {"settle", "settling"} => task'.paying <= wallet'.sol
            /\ pc' = "settling" => SettleTx' \in settles'
<1> USE DEF InHand, Resolving, Paying, AskOn
<1>0. Typed /\ Book = disk[task.p] /\ Book \in BookRecord /\ task.p \in Positions
      /\ wallet.sol \in Int /\ task \in TaskRecord /\ faults \in Nat
  <2>1. Typed /\ pc \in Working
    BY DEF TimingInv, Working, Deciding
  <2> QED BY <2>1, BookUnderWork DEF TimingInv, Typed, TypeOK
<1>1. CASE ReadStatus \/ ReadHeight \/ ReadLanded \/ Recheck
  <2>1. pc' \in Resolving \cup {"act", "balance"}
    BY <1>1 DEF ReadStatus, ReadHeight, ReadLanded, Recheck, ClearSwap, BookSwap, Unresolved
  <2>2. task'.p = task.p
    BY <1>1, WorkSteps DEF Learning, TimingInv
  <2> QED BY <2>1, <2>2
<1>2. CASE Act
  <2>1. pc' \in {"unwind", "balance"}
    BY <1>0, <1>2 DEF Act, BookRecord
  <2> QED BY <1>2, <2>1 DEF Act
<1>3. CASE Unwind
  <2>1. pc = "unwind" /\ BeginSwap("USDC", Book.usdc, "settle") /\ UNCHANGED faults
    BY <1>3 DEF Unwind, BeginSwap
  <2> DEFINE n == Len(swaps) + 1
  <2>2. Book.usdc \in Nat
    BY <1>0 DEF BookRecord
  <2>3. /\ swaps'[n] = [of |-> task.p, side |-> "USDC", in |-> Book.usdc, status |-> "signed"]
        /\ n \in DOMAIN swaps' /\ n \notin DOMAIN swaps
    BY <1>0, <2>1, <2>2, BegunSwapKeepsTypes DEF Deciding
  <2> HIDE DEF n
  <2>4. n \in Spent(p)' /\ n \notin Spent(p)
    BY <2>3 DEF Spent
  <2> QED BY <2>1, <2>4 DEF Setback
<1>4. CASE UnwindFails
  BY <1>4 DEF UnwindFails
<1>5. CASE ReadBalance
  <2>1. CASE Fault
    BY <1>5, <2>1 DEF ReadBalance, Fault, Setback
  <2>2. CASE pc' = "settle" /\ task' = [task EXCEPT !.paying = MinOf(Book.sol, wallet.sol)] /\ Quiet
    <3>1. task'.p = task.p /\ task'.paying = MinOf(Book.sol, wallet.sol) /\ UNCHANGED wallet
      BY <1>0, <2>2 DEF TaskRecord, Quiet, chain
    <3>2. MinOf(Book.sol, wallet.sol) <= wallet.sol
      BY <1>0 DEF MinOf, BookRecord
    <3> QED BY <2>2, <3>1, <3>2
  <2> QED BY <1>5, <2>1, <2>2 DEF ReadBalance
<1>6. CASE SendSettle
  <2>1. pc = "settle" /\ pc' = "settling" /\ task' = [task EXCEPT !.sent = now] /\ UNCHANGED wallet
        /\ settles' = settles \cup {SettleTx'}
    BY <1>6 DEF SendSettle, Goto
  <2>2. task'.p = task.p /\ task'.paying = task.paying
    BY <1>0, <2>1 DEF TaskRecord
  <2> QED BY <2>1, <2>2
<1>7. CASE SettleReturns
  BY <1>7 DEF SettleReturns, Trading
<1>8. CASE SettleErrors
  <2>1. pc = "settling" /\ Fault /\ UNCHANGED task
    BY <1>0, <1>8 DEF SettleErrors, Goto, Trading, TaskRecord
  <2> QED BY <2>1 DEF Fault, Setback
<1> QED BY <1>0, <1>1, <1>2, <1>3, <1>4, <1>5, <1>6, <1>7, <1>8, InHandSteps

\* While a settlement is in hand, only a setback takes SOL from the wallet.
LEMMA InHandByChain ==
  ASSUME NEW start \in Int, TimingInv(start), [Next]_vars, now >= start - 1, UNCHANGED now,
         UNCHANGED vars \/ PositionStep \/ Swapped, pc \in {"settle", "settling"},
         NEW p \in Positions, task.p = p, Trading(p), Trading(p)',
         task.paying <= wallet.sol, pc = "settling" => SettleTx \in settles
  PROVE  \/ Setback(p, start)
         \/ task.paying <= wallet'.sol /\ (pc = "settling" => SettleTx \in settles')
<1>0. /\ Typed /\ now \in Nat /\ TX_LIFE_SECS \in Nat /\ PRINCIPAL \in Nat /\ PRICE \in Nat \ {0}
      /\ wallet.sol \in Int /\ task.paying \in Int /\ faults \in Nat
      /\ UNCHANGED <<pc, task>>
  BY RunnerStands, RunnerAssumption DEF TimingInv, Typed, TypeOK, TaskRecord
<1>1. CASE UNCHANGED vars
  BY <1>1 DEF vars, chain
<1>2. CASE Tick
  BY <1>0, <1>2 DEF Tick
<1>3. ASSUME NEW q \in Positions, Open(q) \/ Cancel(q) \/ Claim(q)
      PROVE  UNCHANGED <<wallet, settles>>
  BY <1>3 DEF Open, Cancel, Claim, TraderMoves
<1>4. ASSUME NEW tx \in draws, DrawLands(tx)
      PROVE  task.paying <= wallet'.sol /\ UNCHANGED settles
  <2>1. wallet' = [wallet EXCEPT !.sol = @ + PRINCIPAL] /\ UNCHANGED settles
    BY <1>4 DEF DrawLands
  <2>2. wallet'.sol = wallet.sol + PRINCIPAL
    BY <2>1 DEF TimingInv, Typed, TypeOK
  <2> QED BY <1>0, <2>1, <2>2
<1>5. ASSUME NEW tx \in settles, SettleLands(tx)
      PROVE  Setback(p, start)
  <2>1. settles' = settles \ {tx} /\ Trading(tx.p) /\ position'[tx.p] = "settled"
        /\ UNCHANGED faults
    BY <1>0, <1>5 DEF SettleLands, Trading, Typed, TypeOK
  <2>2. tx.p # p
    BY <2>1 DEF Trading
  <2>3. tx.at >= From(start)
    <3>1. tx.at \in Nat /\ now <= tx.at + TX_LIFE_SECS
      BY <1>0 DEF Typed, TypeOK, TimingInv, InTime
    <3> QED BY <1>0, <3>1 DEF From
  <2>4. tx # SettleTx
    BY <2>2 DEF SettleTx
  <2>5. tx \in LeftOf(p, From(start)) /\ tx \notin LeftOf(p, From(start))'
    BY <2>1, <2>2, <2>3, <2>4 DEF LeftOf
  <2> QED BY <1>0, <2>5 DEF Setback
<1>6. CASE Lost
  BY <1>0, <1>6 DEF Lost, Fault, Setback
<1>7. ASSUME NEW s \in DOMAIN swaps, SwapLands(s)
      PROVE  Setback(p, start) \/ (task.paying <= wallet'.sol /\ UNCHANGED settles)
  <2>1. swaps[s] \in Swap /\ swaps[s].status = "sent" /\ UNCHANGED settles
        /\ wallet'.sol = wallet.sol + SolDelta(swaps[s]) /\ swaps \in Seq(Swap)
        /\ swaps' = [swaps EXCEPT ![s].status = "landed"]
    BY <1>0, <1>7 DEF SwapLands, SetSwap, Typed, TypeOK
  <2>2. CASE swaps[s].side = "USDC"
    <3>1. SolDelta(swaps[s]) \in Nat
      <4>1. swaps[s].in \in Nat
        BY <2>1 DEF Swap
      <4>2. swaps[s].in \div PRICE \in Nat
        BY ONLY <1>0, <4>1
      <4> QED BY <2>2, <4>2 DEF SolDelta
    <3> QED BY <1>0, <2>1, <3>1
  <2>3. CASE swaps[s].side = "SOL"
    <3>1. swaps'[s].side = "SOL" /\ swaps'[s].status = "landed" /\ s \in DOMAIN swaps'
      BY <2>1, <2>3 DEF Swap
    <3>2. s \in Spent(p)'
      BY <3>1 DEF Spent
    <3>3. s \notin Spent(p)
      BY <2>1, <2>3 DEF Spent
    <3> QED BY <1>0, <3>2, <3>3 DEF Setback
  <2> QED BY <2>1, <2>2, <2>3 DEF Swap
<1>8. ASSUME NEW s \in DOMAIN swaps, SwapEnds(s)
      PROVE  UNCHANGED <<wallet, settles>>
  BY <1>8 DEF SwapEnds
<1> QED
  BY <1>1, <1>2, <1>3, <1>4, <1>5, <1>6, <1>7, <1>8 DEF PositionStep, Trader, Lands, Swapped

\* A position with a book stays on the list or in hand until it is settled.
LEMMA KeptGoesOn ==
  ASSUME NEW start \in Int, CallAt(start), TimingInv(start), [Next]_vars, UNCHANGED now,
         now >= start,
         NEW p \in Positions, Trading(p), Trading(p)', disk[p].kept, disk'[p].kept,
         pc \in InTick, pc' \in InTick, Underway(p)
  PROVE  Setback(p, start) \/ Underway(p)'
<1>0. /\ Typed /\ PastLastCall /\ (\A b : DueToSettle(b)) /\ loop.seen[p] = "trading"
      /\ now >= start - 1
  <2>1. Typed /\ now \in Nat /\ now >= start - 1
    <3>1. Typed
      BY DEF TimingInv
    <3>2. now \in Nat
      BY <3>1 DEF Typed, TypeOK
    <3> QED BY <3>1, <3>2
  <2>2. PastLastCall /\ (\A b : DueToSettle(b))
    BY LastCall
  <2> QED BY <2>1, <2>2 DEF TimingInv, SeenKept
<1>1. CASE pc \in Working \cup {"books"} /\ p \in loop.todo
  <2>1. ~DropBook(p) /\ ~NotDueYet(p)
    BY <1>0 DEF DropBook, NotDueYet
  <2>2. CASE TakeBook(p)
    <3>1. pc' \in InHand /\ pc' \notin {"settle", "settling"} /\ task'.p = p
      BY <2>2 DEF TakeBook, Goto, InHand, Resolving
    <3> QED BY <3>1 DEF Underway
  <2>3. CASE pc' \in Working \cup {"books"} /\ p \in loop'.todo
    BY <2>3 DEF Underway
  <2> QED BY <1>0, <1>1, <2>1, <2>2, <2>3, ListNext
<1>2. CASE /\ pc \in InHand /\ task.p = p
           /\ pc \in {"settle", "settling"} => task.paying <= wallet.sol
           /\ pc = "settling" => SettleTx \in settles
  <2>1. CASE Runner
    <3>1. \/ Setback(p, start)
          \/ /\ pc' \in InHand /\ task'.p = p
             /\ pc' \in {"settle", "settling"} => task'.paying <= wallet'.sol
             /\ pc' = "settling" => SettleTx' \in settles'
      BY <1>0, <1>2, <2>1, InHandByRunner
    <3> QED BY <3>1 DEF Underway
  <2>2. CASE UNCHANGED vars \/ PositionStep \/ Swapped
    <3>1. UNCHANGED <<pc, task>>
      BY <1>0, <2>2, RunnerStands
    <3>2. SettleTx' = SettleTx
      BY <3>1 DEF SettleTx
    <3>3. CASE pc \notin {"settle", "settling"}
      BY <1>2, <3>1, <3>3 DEF Underway
    <3>4. CASE pc \in {"settle", "settling"}
      <4>1. \/ Setback(p, start)
            \/ task.paying <= wallet'.sol /\ (pc = "settling" => SettleTx \in settles')
        BY <1>0, <1>2, <2>2, <3>4, InHandByChain
      <4> QED BY <1>2, <3>1, <3>2, <4>1 DEF Underway
    <3> QED BY <3>3, <3>4
  <2>3. CASE SkipTick \/ Exit
    BY <2>3 DEF SkipTick, Exit, InTick, Working, Resolving, Swapping, Deciding, Paying
  <2> QED BY <2>1, <2>2, <2>3 DEF Next, PositionStep
<1> QED BY <1>1, <1>2 DEF Underway

\* One without a book gets one before the tick ends.
LEMMA UnkeptGoesOn ==
  ASSUME NEW start \in Int, TimingInv(start), [Next]_vars,
         NEW p \in Positions, ~disk[p].kept, ~disk'[p].kept,
         pc \in InTick, pc' \in InTick, Underway(p)
  PROVE  Underway(p)'
<1>0. /\ Typed /\ loop.seen[p] = "trading" /\ ~loop.partial
      /\ pc \in {"draws", "drawing"} => p \in loop.todo
      /\ loop.seen \in [Positions -> Statuses] /\ disk \in [Positions -> BookRecord]
      /\ pc \in Working \cup {"drawing"} => task.p \in Positions
  BY DEF TimingInv, Underway, Typed, TypeOK, TaskOK, LoopRecord
<1>1. ~StartTick
  BY DEF StartTick, Goto, InTick, Working, Resolving, Swapping, Deciding, Paying
<1>2. SettleReturns => task.p # p
  BY <1>0 DEF SettleReturns, Goto, Typed, FilesAgree, Working, Paying
<1>3. loop'.seen[p] = "trading" /\ ~loop'.partial
  BY <1>0, <1>1, <1>2, LoopNext
<1>4. ASSUME pc' \in {"draws", "drawing"} PROVE p \in loop'.todo
  <2>1. CASE pc \in {"draws", "drawing"}
    <3>1. ~SendDraw(p) /\ ~PassOver(p)
      BY <1>0, <2>1 DEF SendDraw, PassOver, Typed, FilesAgree, InTick
    <3>2. ~Adopt(p)
      <4>1. Adopt(p) => \E b \in BookRecord : SaveBook(p, b) /\ b.kept
        BY <1>0, NewBookKeepsTypes DEF NewBookStep
      <4>2. books \in [Positions -> BookRecord]
        BY <1>0 DEF Typed, TypeOK
      <4> QED BY <4>1, <4>2 DEF SaveBook, Save
    <3> QED BY <1>0, <2>1, <3>1, <3>2, ListNext
  <2>2. CASE loop'.todo = {q \in Positions : loop.seen[q] # "absent"}
    BY <1>0, <2>2
  <2> QED BY <1>0, <1>4, <2>1, <2>2, DrawsBegin
<1> QED BY <1>3, <1>4 DEF Underway

LEMMA TickBegins ==
  ASSUME NEW start \in Int, TimingInv(start), StartTick, now >= start - 1,
         NEW p \in Positions, Trading(p)
  PROVE  Setback(p, start) \/ Underway(p)'
<1>1. /\ Typed /\ pc = "idle" /\ pc' = "books" /\ UNCHANGED disk
  BY DEF StartTick, Goto, TimingInv, files
<1>2. books[p].kept = disk[p].kept
  BY <1>1 DEF Typed, FilesAgree
<1>3. CASE Fault
  BY <1>1, <1>3 DEF Fault, Setback
<1>4. CASE ~Fault
  <2>1. loop'.todo = Kept /\ ~loop'.partial /\ loop'.seen[p] = position[p]
    BY <1>4 DEF StartTick
  <2>2. CASE disk[p].kept
    BY <1>1, <1>2, <2>1, <2>2 DEF Kept, Underway
  <2>3. CASE ~disk[p].kept
    BY <1>1, <2>1, <2>3 DEF Underway, Trading
  <2> QED BY <2>2, <2>3
<1> QED BY <1>3, <1>4

LEMMA TickEnds ==
  ASSUME NEW start \in Int, TimingInv(start), [Next]_vars, pace # "any", UNCHANGED now,
         pace' = "done", pace # "done", NEW p \in Positions
  PROVE  Setback(p, start) \/ (pc \in InTick /\ ~Underway(p))
<1>0. Typed /\ now \in Nat
  BY DEF TimingInv, Typed, TypeOK
<1>1. CASE SkipTick
  BY <1>1 DEF SkipTick, Fault, Setback
<1>2. CASE EndTick
  BY <1>2
     DEF EndTick, Goto, Underway, InHand, Resolving, Paying, InTick, Working, Swapping, Deciding
<1>3. CASE Exit \/ Tick
  BY <1>0, <1>3 DEF Exit, Tick, Due
<1>4. CASE NextPass /\ pc' = "idle"
  <2>1. pc = "books" /\ loop.todo = {} /\ loop.partial
    BY <1>4 DEF NextPass
  <2> QED BY <2>1 DEF Underway, InHand, Resolving, Paying, InTick
<1> QED BY <1>0, <1>1, <1>2, <1>3, <1>4, PaceNext

LEMMA ExcusesAreNumbers ==
  ASSUME NEW start \in Int, TimingInv(start), NEW p \in Positions, NEW k \in Nat
  PROVE  \A from : Excuses(p, from, k) \in Int
<1> SUFFICES ASSUME NEW from PROVE Excuses(p, from, k) \in Int
  OBVIOUS
<1>1. Cardinality(Spent(p)) \in Nat
  BY PlacesAreFinite DEF TimingInv, Typed, TypeOK, Spent
<1>2. Cardinality(LeftOf(p, from)) \in Nat
  BY FS_Subset, FS_CardinalityType DEF TimingInv, LeftOf
<1>3. faults \in Nat
  BY DEF TimingInv
<1> QED BY <1>1, <1>2, <1>3 DEF Excuses, Setbacks

\* What a clock tick leaves of the setbacks.
LEMMA ClockTick ==
  ASSUME NEW start \in Int, TimingInv(start), Tick, [Next]_vars, NEW p \in Positions, NEW k \in Nat
  PROVE  /\ now' = now + 1 /\ Missing(p)' = Missing(p) /\ (Trading(p)' <=> Trading(p))
         /\ Excuses(p, From(start), k)' \in Int
         /\ Excuses(p, From(start), k)' >= Excuses(p, From(start), k)
         /\ pace # "any" => pace = "done" /\ pace' # "done" /\ pc' = "idle"
<1>1. /\ now' = now + 1 /\ UNCHANGED <<disk, position, pc>>
      /\ pace # "any" => pace = "done" /\ pace' # "done" /\ pc = "idle"
  BY DEF Tick, ChainOnly, files, Due
<1>2. /\ Typed /\ \A tx \in settles : position[tx.p] \in Drawn
      /\ IsFiniteSet(settles) /\ faults \in Nat
  BY DEF TimingInv, InTime
<1>3. \A from : /\ Excuses(p, from, k) \in Int /\ Excuses(p, from, k)' \in Int
                /\ Excuses(p, from, k)' >= Excuses(p, from, k)
  BY <1>2, ExcusesNext
<1> QED BY <1>1, <1>3 DEF Missing, Trading, From

LEMMA LateStep ==
  ASSUME NEW start \in Int, CallAt(start), NEW k \in Nat, NEW p \in Positions,
         TimingInv(start), pace # "any", [Next]_vars,
         now >= From(start) => Excuses(p, From(start), k) >= 0, LateOK(p, start, k),
         now' >= From(start) => Excuses(p, From(start), k)' >= 0
  PROVE  LateOK(p, start, k)'
<1>0. /\ Typed /\ now \in Nat /\ TX_LIFE_SECS \in Nat
      /\ Missing(p) \in {0, 1} /\ From(start) = start - TX_LIFE_SECS - 1
  BY RunnerAssumption DEF TimingInv, Typed, TypeOK, Missing, From
<1> SUFFICES ASSUME Trading(p)', now' >= start - 1
             PROVE  /\ Slack(p, start, k)' >= 0
                    /\ pace' = "done" \/ (pc' \in InTick /\ ~Underway(p)') =>
                         Slack(p, start, k)' >= 1
  BY DEF LateOK
<1> DEFINE s == Slack(p, start, k)
           t == Slack(p, start, k)'
           x == Excuses(p, From(start), k)
           y == Excuses(p, From(start), k)'
<1>1. CASE Tick
  <2>1. /\ now' = now + 1 /\ Missing(p)' = Missing(p) /\ Trading(p)
        /\ y \in Int /\ x \in Int /\ y >= x /\ pace = "done" /\ pace' # "done" /\ pc' = "idle"
    BY <1>1, ClockTick, ExcusesAreNumbers
  <2>2. t = y - Missing(p) - ((now + 1) - start)
    <3>1. t = y - Missing(p)' - (now' - start)
      BY DEF Slack, From
    <3> HIDE DEF t, y
    <3> QED BY <2>1, <3>1
  <2>3. s = x - Missing(p) - (now - start)
    BY DEF Slack
  <2>4. now >= start - 1 => s >= 1
    BY <2>1 DEF LateOK
  <2>5. now' >= From(start)
    BY <1>0, <2>1
  <2> HIDE DEF s, t, x, y
  <2>6. t >= 0
    <3>1. CASE now >= start - 1
      BY <1>0, <2>1, <2>2, <2>3, <2>4, <3>1
    <3>2. CASE now < start - 1
      <4>1. y >= 0
        BY <2>5 DEF y
      <4> QED BY <1>0, <2>1, <2>2, <3>2, <4>1
    <3> QED BY <1>0, <3>1, <3>2
  <2>7. pc' \notin InTick
    BY <2>1 DEF InTick, Working, Resolving, Swapping, Deciding, Paying
  <2> QED BY <2>1, <2>6, <2>7 DEF t
<1>2. CASE UNCHANGED now
  <2>1. now >= start - 1
    BY <1>2
  <2>2. Trading(p)
    BY <2>1, NoDrawLate DEF TimingInv
  <2>3. /\ s \in Int /\ t \in Int /\ t >= s
        /\ Setback(p, start) => t >= s + 1
        /\ ~disk[p].kept /\ disk'[p].kept => t >= s + 1
        /\ disk[p].kept /\ ~disk'[p].kept => pc' = "idle"
    BY <1>2, <2>1, <2>2, SlackNext
  <2>4. /\ s >= 0
        /\ pace = "done" \/ (pc \in InTick /\ ~Underway(p)) => s >= 1
    BY <2>1, <2>2 DEF LateOK
  <2>5. CASE t >= 1
    <3> HIDE DEF t
    <3>1. t >= 0
      BY <2>3, <2>5
    <3> QED BY <2>5, <3>1 DEF t
  <2>6. CASE ~(t >= 1)
    <3>1. s = 0 /\ t = 0 /\ ~Setback(p, start) /\ (~disk[p].kept => ~disk'[p].kept)
      <4> HIDE DEF s, t
      <4> QED BY <2>3, <2>4, <2>6
    <3>2. pace # "done" /\ (pc \in InTick => Underway(p))
      BY <2>4, <3>1
    <3>3. pace' # "done"
      BY <1>2, <3>1, <3>2, TickEnds
    <3>4. ASSUME pc' \in InTick PROVE Underway(p)'
      <4>0. pc' # "idle"
        BY <3>4 DEF InTick, Working, Resolving, Swapping, Deciding, Paying
      <4>1. CASE StartTick
        BY <2>1, <2>2, <3>1, <4>1, TickBegins
      <4>2. CASE ~StartTick
        <5>1. pc \in InTick
          BY <3>4, <4>2, LoopNext DEF TimingInv
        <5>2. CASE disk[p].kept
          <6>1. disk'[p].kept
            BY <2>3, <4>0, <5>2
          <6>2. now >= start
            <7>1. s = x - Missing(p) - (now - start) /\ Missing(p) = 0
              BY <5>2 DEF Slack, Missing
            <7>2. x \in Int /\ x >= 0
              BY <1>0, <2>1, ExcusesAreNumbers
            <7> HIDE DEF s, x
            <7> QED BY <1>0, <3>1, <7>1, <7>2
          <6> QED BY <1>2, <2>2, <3>1, <3>2, <3>4, <5>1, <5>2, <6>1, <6>2, KeptGoesOn
        <5>3. CASE ~disk[p].kept
          BY <3>1, <3>2, <3>4, <5>1, <5>3, UnkeptGoesOn
        <5> QED BY <5>2, <5>3
      <4> QED BY <4>1, <4>2
    <3> HIDE DEF t
    <3>5. t >= 0
      BY <3>1
    <3> QED BY <3>3, <3>4, <3>5 DEF t
  <2> QED BY <2>5, <2>6
<1> QED BY <1>0, <1>1, <1>2, NowNext

\* Setbacks between the time when a settlement that is in flight at the last call may have
\* been sent and the deadline: with k of them before, there are N at most.
FewSetbacks(start, k, N) ==
  \A p \in Positions :
    now >= From(start) => /\ Setbacks(p) >= k[p]
                          /\ Trading(p) => Setbacks(p) <= k[p] + N

LEMMA NothingLeft ==
  ASSUME NEW p, NEW from, NEW k \in Nat, faults \in Nat, Typed, \A tx \in settles : ~(tx.at >= from)
  PROVE  Setbacks(p) >= k => Excuses(p, from, k) >= 0
<1>1. LeftOf(p, from) = {}
  BY DEF LeftOf
<1>2. Cardinality(LeftOf(p, from)) = 0
  BY <1>1, FS_EmptySet
<1>3. Cardinality(Spent(p)) \in Nat
  BY PlacesAreFinite DEF Typed, TypeOK, Spent
<1> QED BY <1>2, <1>3 DEF Excuses, Setbacks

LEMMA NothingLeftNext ==
  ASSUME NEW p, NEW from, NEW k \in Nat, faults' \in Nat, Typed',
         \A tx \in settles' : ~(tx.at >= from)
  PROVE  Setbacks(p)' >= k => Excuses(p, from, k)' >= 0
<1>1. LeftOf(p, from)' = {}
  BY DEF LeftOf
<1>2. Cardinality(LeftOf(p, from)') = 0
  BY <1>1, FS_EmptySet
<1>3. Cardinality(Spent(p)') \in Nat
  BY PlacesAreFinite DEF Typed, TypeOK, Spent
<1> QED BY <1>2, <1>3 DEF Excuses, Setbacks

LEMMA ExcusesFromStart ==
  ASSUME NEW start \in Int, NEW k \in Nat, NEW p \in Positions, TimingInv(start), TimingInv(start)',
         [Next]_vars, now >= From(start) => Excuses(p, From(start), k) >= 0,
         now' >= From(start) => Setbacks(p)' >= k
  PROVE  now' >= From(start) => Excuses(p, From(start), k)' >= 0
<1>0. /\ Typed /\ Typed' /\ faults \in Nat /\ faults' \in Nat /\ now \in Nat /\ TX_LIFE_SECS \in Nat
      /\ (\A tx \in settles : position[tx.p] \in Drawn /\ tx.at <= now) /\ IsFiniteSet(settles)
  BY RunnerAssumption DEF TimingInv, InTime, Typed, TypeOK
<1>1. From(start) \in Int
  BY <1>0 DEF From
<1>2. CASE now >= From(start)
  <2> DEFINE x == Excuses(p, From(start), k)
             y == Excuses(p, From(start), k)'
  <2>1. \A from : /\ Excuses(p, from, k) \in Int /\ Excuses(p, from, k)' \in Int
                  /\ Excuses(p, from, k)' >= Excuses(p, from, k)
    BY <1>0, ExcusesNext
  <2>2. x \in Int /\ y \in Int /\ y >= x
    BY <2>1 DEF From
  <2>3. x >= 0
    BY <1>2
  <2> HIDE DEF x, y
  <2>4. y >= 0
    BY <2>2, <2>3
  <2> QED BY <2>4 DEF y
<1>3. CASE ~(now >= From(start)) /\ now' >= From(start)
  <2>1. Tick
    BY <1>0, <1>3, NowNext
  <2>2. \A tx \in settles' : tx \in settles /\ tx.at \in Nat
    BY <1>0, <2>1 DEF Tick, Alive, Typed, TypeOK
  <2>3. \A tx \in settles' : ~(tx.at >= From(start))
    BY <1>0, <1>1, <1>3, <2>2
  <2>4. Setbacks(p)' >= k
    BY <1>3
  <2>5. \A from : (\A tx \in settles' : ~(tx.at >= from)) => Excuses(p, from, k)' >= 0
    BY <1>0, <2>4, NothingLeftNext
  <2> QED BY <2>3, <2>5 DEF From
<1> QED BY <1>2, <1>3

LEMMA LateInit ==
  ASSUME NEW start \in Int, NEW N \in Nat, NEW k \in [Positions -> Nat], Init,
         FewSetbacks(start, k, N)
  PROVE  LateInv(start, k)
<1>1. Typed
  BY TypedInit
<1>2. TimingInv(start) \/ pace = "any"
  BY <1>1, RunnerAssumption, FS_EmptySet
     DEF Init, TimingInv, SkewOK, PaceOK, InTime, SeenDrawn, SeenKept, InTick, Working, Resolving,
         Swapping, Deciding, Paying, Trading
<1>3. ASSUME NEW p \in Positions
      PROVE  /\ now >= From(start) => Excuses(p, From(start), k[p]) >= 0
             /\ LateOK(p, start, k[p])
  <2>1. now >= From(start) => Setbacks(p) >= k[p]
    BY DEF FewSetbacks
  <2>2. settles = {} /\ faults = 0 /\ k[p] \in Nat /\ ~Trading(p)
    BY DEF Init, Trading
  <2> QED BY <1>1, <2>1, <2>2, NothingLeft DEF LateOK
<1> QED BY <1>2, <1>3 DEF LateInv, PacedInv

LEMMA LateNext ==
  ASSUME NEW start \in Int, NEW N \in Nat, NEW k \in [Positions -> Nat], CallAt(start),
         LateInv(start, k), [Next]_vars, Typed, FewSetbacks(start, k, N)'
  PROVE  LateInv(start, k)'
<1>1. CASE pace = "any"
  <2>1. pace' = "any"
    <3>1. CASE Exit \/ SkipTick \/ EndTick \/ Tick
      BY <1>1, <3>1 DEF Exit, SkipTick, EndTick, Tick, Due, Done
    <3> QED BY <1>1, <3>1, PaceNext DEF Done
  <2> QED BY <2>1 DEF LateInv
<1>2. CASE pace # "any"
  <2>1. TimingInv(start)
    BY <1>2 DEF LateInv, PacedInv
  <2>2. TimingInv(start)'
    BY <1>2, <2>1, TimingNext
  <2>3. ASSUME NEW p \in Positions
        PROVE  /\ now' >= From(start) => Excuses(p, From(start), k[p])' >= 0
               /\ LateOK(p, start, k[p])'
    <3>1. /\ now >= From(start) => Excuses(p, From(start), k[p]) >= 0
          /\ LateOK(p, start, k[p]) /\ k[p] \in Nat
      BY <1>2 DEF LateInv, PacedInv
    <3>2. now' >= From(start) => Setbacks(p)' >= k[p]
      BY DEF FewSetbacks, From
    <3>3. now' >= From(start) => Excuses(p, From(start), k[p])' >= 0
      BY <2>1, <2>2, <3>1, <3>2, ExcusesFromStart
    <3> QED BY <1>2, <2>1, <3>1, <3>3, LateStep
  <2> QED BY <2>2, <2>3 DEF LateInv, PacedInv, From
<1> QED BY <1>1, <1>2

LEMMA InTimeForAll ==
  ASSUME NEW start \in Int, NEW N \in Nat, NEW k \in [Positions -> Nat], start + N < DEADLINE,
         LateInv(start, k), FewSetbacks(start, k, N)
  PROVE  NeverLate
<1> SUFFICES ASSUME pace # "any", NEW p \in Positions, Trading(p), ~(now < DEADLINE)
             PROVE  FALSE
  BY DEF NeverLate
<1>1. /\ TimingInv(start) /\ LateOK(p, start, k[p]) /\ k[p] \in Nat
  BY DEF LateInv, PacedInv
<1>2. Typed /\ faults \in Nat
  BY <1>1 DEF TimingInv
<1>3. now \in Nat /\ DEADLINE \in Nat /\ TX_LIFE_SECS \in Nat
  BY <1>2, RunnerAssumption DEF Typed, TypeOK
<1>4. now >= start - 1 /\ now >= From(start) /\ now - start > N
  BY <1>3 DEF From
<1>5. Slack(p, start, k[p]) >= 0
  BY <1>1, <1>4 DEF LateOK
<1>6. Setbacks(p) <= k[p] + N
  BY <1>4 DEF FewSetbacks
<1>7. Cardinality(LeftOf(p, From(start))) \in Nat
  BY <1>1, FS_Subset, FS_CardinalityType DEF TimingInv, LeftOf
<1>8. Cardinality(Spent(p)) \in Nat
  BY <1>2, PlacesAreFinite DEF Typed, TypeOK, Spent
<1>9. Setbacks(p) \in Nat
  BY <1>2, <1>8 DEF Setbacks
<1>10. Missing(p) \in {0, 1}
  BY DEF Missing
<1>11. ((Setbacks(p) - k[p]) - Cardinality(LeftOf(p, From(start)))) - Missing(p)
         - (now - start) >= 0
  BY <1>5 DEF Slack, Excuses
<1> QED BY <1>1, <1>3, <1>4, <1>6, <1>7, <1>9, <1>10, <1>11

\* For any schedule, prices and number of positions, and whatever fails, a position whose
\* setbacks since shortly before the last call are fewer than the ticks that are left then
\* is not late, if its draw cannot land after that.
THEOREM NeverLateUnlessSetBack ==
  ASSUME NEW start \in Int, NEW N \in Nat, NEW k \in [Positions -> Nat],
         CallAt(start), start + N < DEADLINE
  PROVE  Spec /\ []FewSetbacks(start, k, N) => []NeverLate
<1>1. Init => Typed
  BY TypedInit
<1>2. Typed /\ [Next]_vars => Typed'
  BY TypedNext
<1>3. Init /\ FewSetbacks(start, k, N) => LateInv(start, k)
  BY LateInit
<1>4. Typed /\ LateInv(start, k) /\ [Next]_vars /\ FewSetbacks(start, k, N)' => LateInv(start, k)'
  BY LateNext
<1>5. LateInv(start, k) /\ FewSetbacks(start, k, N) => NeverLate
  BY InTimeForAll
<1> QED BY <1>1, <1>2, <1>3, <1>4, <1>5, PTL DEF Spec
=============================================================================
