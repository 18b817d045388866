------------------------- MODULE RunnerProcessProofs -------------------------
(***************************************************************************)
(* While runners start one after the other, the lock file keeps two of     *)
(* them off the same books, with or without boot ids; and whichever runner *)
(* starts, wherever in a save the one before it ended, and however often   *)
(* files go bad, the books it starts from are the last save, or the one    *)
(* before it and reported: for any number of processes, hosts, reboots,    *)
(* saves and bad files.                                                    *)
(***************************************************************************)
EXTENDS RunnerProcess, TLAPS
-----------------------------------------------------------------------------
(* The lock *)

\* A process that is alive and wrote the lock on this machine is never found stale
\* by another one.
LEMMA OwnLockIsFresh ==
  ASSUME NEW p \in Pids, NEW q \in Pids, p # q, pc[q] # "free"
  PROVE  ~Stale(Me(q, FALSE), p)
BY DEF Stale, Me, PidAlive

\* A lock file says who created it.
LEMMA LockSaysWho ==
  ASSUME NEW p, NEW q, NEW a, NEW b, {Me(p, a)} = {Me(q, b)}
  PROVE  p = q
<1>1. Me(p, a) = Me(q, b)
  OBVIOUS
<1>2. Me(p, a).pid = Me(q, b).pid 
  BY <1>1
<1> QED BY <1>2 DEF Me

\* Only the creator of the file that is there writes it or runs.
LEMMA LockHasOneOwner ==
  ASSUME LockInv, NEW p \in Pids, NEW q \in Pids, NEW torn,
         lock = {Me(p, torn)}, pc[q] \in {"running", "release", "write", "recreate"}
  PROVE  p = q
<1>1. CASE pc[q] \in {"running", "release"}
  <2>1. {Me(p, torn)} = {Me(q, FALSE)}
    BY <1>1 DEF LockInv
  <2> QED BY <1>1, <2>1, LockSaysWho
<1>2. CASE pc[q] = "write"
  <2>1. {Me(p, torn)} = {Me(q, TRUE)}
    BY <1>2 DEF LockInv
  <2> QED BY <1>2, <2>1, LockSaysWho
<1>3. CASE pc[q] = "recreate"
  BY <1>3 DEF LockInv
<1> QED BY <1>1, <1>2, <1>3

\* At the start nobody runs.
LEMMA LockInvInit == Init => LockInv
BY LockAssumption DEF LockAssumption, Init, LockInv, TypeOK, LockFile, Program, Starting

\* Every step of every process, each crash and each reboot keeps the invariant.
LEMMA LockInvNext ==
  ASSUME ~CONCURRENT_STARTS, LockInv, [Next]_vars
  PROVE  LockInv'
<1> USE LockAssumption DEF LockAssumption, LockInv, TypeOK, LockFile, Program, Starting, Me, Goto
<1>1. CASE Reboot
  BY <1>1 DEF Reboot
<1>2. CASE UNCHANGED vars
  BY <1>2 DEF vars
<1>3. ASSUME NEW p \in Pids, Start(p) PROVE LockInv'
  BY <1>3 DEF Start
<1>4. ASSUME NEW p \in Pids, Create(p) PROVE LockInv'
  <2>1. CASE lock = {}
    <3>1. \A q \in Pids : pc[q] \notin {"running", "release"}
      BY <2>1
    <3>2. lock' = {Me(p, TRUE)} /\ Me(p, TRUE)' = Me(p, TRUE) /\ Me(p, TRUE) \in LockFile
      BY <1>4, <2>1 DEF Create, CreateExclusively, Me
    <3> QED BY <1>4, <2>1, <3>1, <3>2 DEF Create, CreateExclusively
  <2>2. CASE lock # {}
    BY <1>4, <2>2 DEF Create, CreateExclusively
  <2> QED BY <2>1, <2>2
<1>5. ASSUME NEW p \in Pids, Write(p) PROVE LockInv'
  <2>1. lock = {Me(p, TRUE)} /\ lock' = {Me(p, FALSE)} /\ Me(p, FALSE)' = Me(p, FALSE)
    BY <1>5 DEF Write, Me
  <2>2. \A q \in Pids \ {p} : pc[q] \notin {"running", "release", "recreate", "remove"}
    <3>1. \A q \in Pids : pc[q] \in {"running", "release", "recreate"} => p = q
      BY <2>1, LockHasOneOwner
    <3>2. \A q \in Pids : pc[q] = "remove" => p = q
      BY <1>5 DEF Write
    <3> QED BY <3>1, <3>2
  <2>3. LockFile' = LockFile /\ Me(p, FALSE) \in LockFile
    BY <1>5 DEF Write, Me
  <2> QED BY <1>5, <2>1, <2>2, <2>3 DEF Write
<1>6. ASSUME NEW p \in Pids, Read(p) PROVE LockInv'
  <2>1. CASE \A held \in lock : Stale(held, p)
    <3>1. \A q \in Pids : pc[q] \notin {"running", "release"}
      BY <1>6, <2>1, OwnLockIsFresh DEF Read
    <3> QED BY <1>6, <2>1, <3>1 DEF Read
  <2>2. CASE ~ \A held \in lock : Stale(held, p)
    BY <1>6, <2>2 DEF Read
  <2> QED BY <2>1, <2>2
<1>7. ASSUME NEW p \in Pids, Remove(p) PROVE LockInv'
  BY <1>7 DEF Remove
<1>8. ASSUME NEW p \in Pids, Recreate(p) PROVE LockInv'
  <2>1. lock = {} /\ \A q \in Pids : pc[q] \notin {"running", "release"}
    BY <1>8 DEF Recreate
  <2>2. lock' = {Me(p, TRUE)} /\ Me(p, TRUE)' = Me(p, TRUE) /\ Me(p, TRUE) \in LockFile
    BY <1>8, <2>1 DEF Recreate, CreateExclusively, Me
  <2> QED BY <1>8, <2>1, <2>2 DEF Recreate, CreateExclusively
<1>9. ASSUME NEW p \in Pids, Stop(p) PROVE LockInv'
  BY <1>9 DEF Stop
<1>10. ASSUME NEW p \in Pids, Release(p) PROVE LockInv'
  BY <1>10 DEF Release
<1>11. ASSUME NEW p \in Pids, Crash(p) PROVE LockInv'
  BY <1>11 DEF Crash
<1>12. ASSUME NEW p \in Pids, Unrelated(p) PROVE LockInv'
  BY <1>12 DEF Unrelated
<1> QED
  BY <1>1, <1>2, <1>3, <1>4, <1>5, <1>6, <1>7, <1>8, <1>9, <1>10, <1>11, <1>12 DEF Next

\* LockInv always holds if no two runners start at the same time.
THEOREM LockIsSound == ~CONCURRENT_STARTS => (Spec => []LockInv)
<1> SUFFICES ASSUME ~CONCURRENT_STARTS PROVE Spec => []LockInv
  OBVIOUS
<1>1. LockInv /\ [Next]_vars => LockInv'
  BY LockInvNext
<1> QED BY <1>1, LockInvInit, PTL DEF Spec

\* Then no two runners ever trade the same books.
THEOREM OneRunnerOnly == ~CONCURRENT_STARTS => (Spec => []OneRunner)
<1> SUFFICES ASSUME ~CONCURRENT_STARTS PROVE Spec => []OneRunner
  OBVIOUS
<1>1. LockInv => OneRunner
  <2> SUFFICES ASSUME LockInv, NEW p \in Pids, NEW q \in Pids,
                      pc[p] = "running", pc[q] = "running"
               PROVE  p = q
    BY DEF OneRunner
  <2>1. lock = {Me(p, FALSE)}
    BY DEF LockInv
  <2> QED BY <2>1, LockHasOneOwner
<1> QED BY <1>1, LockIsSound, PTL

\* Why nobody is turned away by a lock without an owner: there is one file at most,
\* and a process that was turned away left no file of its own behind.
RefusedInv ==
  /\ \A a, b \in lock : a = b
  /\ \A p \in Pids : pc[p] = "refused" => \A held \in lock : held.pid # p

\* A process is turned away by a lock that is not its own and not stale.
LEMMA RefusedByAnother ==
  ASSUME LockInv, RefusedInv, NEW p \in Pids, Read(p), pc'[p] = "refused"
  PROVE  \E held \in lock :
           /\ held.pid \in Pids \ {p} /\ pc[held.pid] \in Program \ {"free", "refused"}
           /\ BOOT_IDS => held.boot = machine.boot
<1>1. ~ \A held \in lock : Stale(held, p)
  BY DEF Read, Goto, LockInv, TypeOK
<1>2. PICK held \in lock : ~Stale(held, p)
  BY <1>1
<1>3. held \in LockFile
  BY DEF LockInv, TypeOK
<1>4. held.pid \in Pids /\ held.pid # p /\ pc[held.pid] # "free" /\ pc[held.pid] \in Program
  BY <1>2, <1>3 DEF Stale, PidAlive, LockInv, TypeOK, LockFile
<1>5. pc[held.pid] # "refused"
  BY <1>4 DEF RefusedInv
<1>6. BOOT_IDS => held.boot = machine.boot
  BY <1>2 DEF Stale
<1> QED BY <1>4, <1>5, <1>6

\* A step that leaves nobody newly turned away keeps it if the file that is there
\* afterwards was there before or belongs to the process that takes the step.
LEMMA OwnFileKeepsRefused ==
  ASSUME LockInv, RefusedInv, NEW p \in Pids, NEW torn \in BOOLEAN, NEW label \in Program,
         label # "refused", Goto(p, label), lock' = lock \/ lock' = {Me(p, torn)}
  PROVE  RefusedInv'
<1>1. \A q \in Pids : pc'[q] = "refused" => q # p /\ pc[q] = "refused"
  BY DEF Goto, LockInv, TypeOK
<1>2. CASE lock' = lock
  BY <1>1, <1>2 DEF RefusedInv
<1>3. CASE lock' = {Me(p, torn)}
  <2>1. Me(p, torn).pid = p
    BY DEF Me
  <2>2. \A held \in lock' : held.pid = p
    BY <1>3, <2>1
  <2>3. \A a, b \in lock' : a = b
    BY <1>3
  <2> QED BY <1>1, <2>2, <2>3 DEF RefusedInv
<1> QED BY <1>2, <1>3

\* Every step keeps it.
LEMMA RefusedInvNext ==
  ASSUME LockInv, RefusedInv, [Next]_vars
  PROVE  RefusedInv'
<1> USE DEF RefusedInv, LockInv, TypeOK
<1>1. CASE Reboot
  BY <1>1 DEF Reboot
<1>2. CASE UNCHANGED vars
  BY <1>2 DEF vars
<1>3. ASSUME NEW p \in Pids, Start(p) PROVE RefusedInv'
  BY <1>3 DEF Start, Goto
<1>4. ASSUME NEW p \in Pids, Create(p) PROVE RefusedInv'
  <2>1. /\ lock' = lock \/ lock' = {Me(p, TRUE)}
        /\ Goto(p, "read") \/ Goto(p, "write")
    BY <1>4 DEF Create, CreateExclusively
  <2> QED BY <2>1, OwnFileKeepsRefused DEF Program, Starting
<1>5. ASSUME NEW p \in Pids, Write(p) PROVE RefusedInv'
  <2>1. Goto(p, "running") /\ (lock' = lock \/ lock' = {Me(p, FALSE)})
    BY <1>5 DEF Write
  <2> QED BY <2>1, OwnFileKeepsRefused DEF Program
<1>6. ASSUME NEW p \in Pids, Read(p) PROVE RefusedInv'
  <2>1. CASE pc'[p] = "refused"
    <3>1. \A held \in lock : held.pid # p
      <4>1. PICK held \in lock : held.pid # p
        BY <1>6, <2>1, RefusedByAnother
      <4> QED BY <4>1
    <3> QED BY <1>6, <2>1, <3>1 DEF Read, Goto
  <2>2. CASE pc'[p] # "refused"
    BY <1>6, <2>2 DEF Read, Goto
  <2> QED BY <2>1, <2>2
<1>7. ASSUME NEW p \in Pids, Remove(p) PROVE RefusedInv'
  BY <1>7 DEF Remove, Goto
<1>8. ASSUME NEW p \in Pids, Recreate(p) PROVE RefusedInv'
  <2>1. Goto(p, "write") /\ lock' = {Me(p, TRUE)}
    BY <1>8 DEF Recreate, CreateExclusively
  <2> QED BY <2>1, OwnFileKeepsRefused DEF Program, Starting
<1>9. ASSUME NEW p \in Pids, Stop(p) PROVE RefusedInv'
  BY <1>9 DEF Stop, Goto
<1>10. ASSUME NEW p \in Pids, Release(p) PROVE RefusedInv'
  BY <1>10 DEF Release, Goto
<1>11. ASSUME NEW p \in Pids, Crash(p) PROVE RefusedInv'
  BY <1>11 DEF Crash, Goto
<1>12. ASSUME NEW p \in Pids, Unrelated(p) PROVE RefusedInv'
  BY <1>12 DEF Unrelated, Goto
<1> QED
  BY <1>1, <1>2, <1>3, <1>4, <1>5, <1>6, <1>7, <1>8, <1>9, <1>10, <1>11, <1>12 DEF Next

\* Then a process is turned away only by a runner, by one that has just let go, or by
\* an unrelated process that got a dead one's id (acquireLock in lock.ts): a lock
\* that a crash left behind, at whatever point, never keeps everyone out.
THEOREM RefusalsAreJustified == ~CONCURRENT_STARTS => (Spec => RefusedOnlyIfHeld)
<1> SUFFICES ASSUME ~CONCURRENT_STARTS PROVE Spec => RefusedOnlyIfHeld
  OBVIOUS
<1> DEFINE Justified ==
      \A p \in Pids : pc[p] # "refused" /\ pc'[p] = "refused" =>
        \/ \E q \in Pids \ {p} : pc[q] \notin {"free", "other", "refused"}
        \/ pc[p] = "remove" /\ lock = {}
        \/ \E held \in lock : /\ pc[held.pid] = "other"
                              /\ BOOT_IDS => held.boot = machine.boot
<1>1. LockInv /\ RefusedInv /\ [Next]_vars => [Justified]_vars
  <2> SUFFICES ASSUME LockInv, RefusedInv, Next,
                      NEW p \in Pids, pc[p] # "refused", pc'[p] = "refused"
               PROVE  \/ \E q \in Pids \ {p} : pc[q] \notin {"free", "other", "refused"}
                      \/ pc[p] = "remove" /\ lock = {}
                      \/ \E held \in lock : /\ pc[held.pid] = "other"
                                            /\ BOOT_IDS => held.boot = machine.boot
    OBVIOUS
  <2>1. Read(p) \/ Remove(p) \/ Recreate(p)
    <3>1. ~Reboot
      BY DEF Reboot
    <3>2. PICK q \in Pids :
            \/ Start(q) \/ Create(q) \/ Write(q) \/ Read(q) \/ Remove(q) \/ Recreate(q)
            \/ Stop(q) \/ Release(q) \/ Crash(q) \/ Unrelated(q)
      BY <3>1 DEF Next
    <3>3. /\ Start(q) => Goto(q, "create")
          /\ Create(q) => Goto(q, "read") \/ Goto(q, "write")
          /\ Write(q) => Goto(q, "running")
          /\ Stop(q) => Goto(q, "release") \/ Goto(q, "free")
          /\ Release(q) => Goto(q, "free")
          /\ Crash(q) => Goto(q, "free")
          /\ Unrelated(q) => Goto(q, "other") \/ Goto(q, "free")
      BY DEF Start, Create, Write, CreateExclusively, Stop, Release, Crash, Unrelated
    <3>4. \A label : Goto(q, label) => q = p /\ label = "refused"
      BY DEF Goto, LockInv, TypeOK
    <3>5. Read(q) \/ Remove(q) \/ Recreate(q)
      BY <3>2, <3>3, <3>4
    <3>6. \E label : Goto(q, label)
      BY <3>5 DEF Read, Remove, Recreate, CreateExclusively
    <3> QED BY <3>4, <3>5, <3>6
  <2>2. CASE Read(p)
    <3>1. PICK held \in lock :
            /\ held.pid \in Pids \ {p} /\ pc[held.pid] \in Program \ {"free", "refused"}
            /\ BOOT_IDS => held.boot = machine.boot
      BY <2>2, RefusedByAnother
    <3>2. CASE pc[held.pid] = "other"
      BY <3>1, <3>2
    <3>3. CASE pc[held.pid] # "other"
      BY <3>1, <3>3
    <3> QED BY <3>2, <3>3
  <2>3. CASE Remove(p)
    BY <2>3 DEF Remove, Goto, LockInv, TypeOK
  <2>4. CASE Recreate(p)
    <3>1. Goto(p, "write")
      BY <2>4 DEF Recreate, CreateExclusively, LockInv
    <3> QED BY <3>1 DEF Goto, LockInv, TypeOK
  <2> QED BY <2>1, <2>2, <2>3, <2>4
<1>2. Init => RefusedInv
  BY DEF Init, RefusedInv
<1>3. LockInv /\ RefusedInv /\ [Next]_vars => RefusedInv'
  BY RefusedInvNext
<1> QED BY <1>1, <1>2, <1>3, LockIsSound, PTL DEF Spec, RefusedOnlyIfHeld
-----------------------------------------------------------------------------
(* The books *)

FileState == [kind : {"absent", "torn", "good"}, save : Nat]

BooksTypeOK ==
  /\ state \in Nat /\ saved \in Nat /\ damage \in Nat /\ alerted \in BOOLEAN
  /\ file \in [json : FileState, bak : FileState, tmp : FileState]
  /\ filePc \in {"down", "init", "idle", "write", "copy", "copying", "rename"}

Saving == filePc \in {"write", "copy", "copying", "rename"}

\* The save that the books in memory are, or are about to become, given the one they
\* were when nothing was being saved.
Ahead(n) == IF Saving THEN n + 1 ELSE n

\* A runner that found a bad file and has not saved yet: there is no file.
Restored == filePc # "down" /\ alerted /\ file.json.kind = "absent"

\* The inductive invariant: what each file holds, and how memory relates to it.
BooksInv ==
  /\ BooksTypeOK
  /\ file.json.save = IF file.json.kind = "good" THEN saved ELSE 0
  /\ file.json.kind = "absent" => saved = 0 \/ Restored
  /\ filePc \in {"copy", "copying", "rename"} => file.tmp = [kind |-> "good", save |-> state]
  /\ filePc = "down" => state = 0
  /\ filePc = "idle" => ~Restored
  /\ filePc = "copying" => ~Restored
  /\ filePc # "down" /\ ~Restored => state = Ahead(saved)
  /\ Restored => state <= Ahead(saved) /\ (file.bak.kind = "good" => state = Ahead(file.bak.save))
  /\ file.bak.kind = "good" => /\ file.bak.save <= saved /\ saved <= file.bak.save + 1
                               /\ filePc = "rename" => state <= file.bak.save + 1
  /\ damage = 0 => file.json.kind # "torn" /\ ~alerted
-----------------------------------------------------------------------------
\* At the start there are no files and nothing was saved.
LEMMA BooksInvInit == Books!Init => BooksInv
<1> SUFFICES ASSUME Books!Init PROVE BooksInv
  OBVIOUS
<1>1. BooksTypeOK
  <2>1. [kind |-> "absent", save |-> 0] \in FileState
    BY DEF FileState
  <2>2. file \in [json : FileState, bak : FileState, tmp : FileState]
    BY <2>1 DEF Books!Init, Books!Absent
  <2> QED BY <2>2 DEF Books!Init, BooksTypeOK
<1>2. /\ file.json = [kind |-> "absent", save |-> 0] /\ file.bak.kind = "absent"
      /\ filePc = "down" /\ saved = 0 /\ state = 0 /\ alerted = FALSE
  BY DEF Books!Init, Books!Absent
<1> QED BY <1>1, <1>2 DEF BooksInv, Saving, Restored, Ahead

\* A start keeps the invariant: it is where memory comes from a file.
LEMMA LoadKeepsBooks ==
  ASSUME BooksInv, Books!Load
  PROVE  BooksInv'
<1> USE DEF BooksInv, BooksTypeOK, FileState, Saving, Restored, Ahead
<1>1. CASE Books!LoadFile
  <2>1. state' = file.json.save /\ filePc' = "init" /\ alerted' = FALSE
        /\ UNCHANGED <<file, saved, damage>> /\ filePc = "down"
    BY <1>1 DEF Books!Load, Books!LoadFile
  <2>2. CASE file.json.kind = "good"
    BY <2>1, <2>2
  <2>3. CASE file.json.kind = "absent"
    BY <2>1, <2>3
  <2> QED BY <1>1, <2>2, <2>3 DEF Books!LoadFile
<1>2. CASE Books!LoadBackup
  BY <1>2 DEF Books!Load, Books!LoadBackup, Books!Absent
<1> QED BY <1>1, <1>2 DEF Books!Load

\* So does every step of a save, and the end of the process before any of them.
LEMMA SaveKeepsBooks ==
  ASSUME ~RESTORE_INTERRUPTED, BooksInv,
         \/ Books!Save \/ Books!WriteTmp \/ Books!BeginCopy \/ Books!EndCopy
         \/ Books!NothingToCopy \/ Books!Rename \/ Books!Crash
  PROVE  BooksInv'
<1> USE DEF BooksInv, BooksTypeOK, FileState, Saving, Restored, Ahead
<1>1. CASE Books!Save
  BY <1>1 DEF Books!Save, Books!Torn
<1>2. CASE Books!WriteTmp
  BY <1>2 DEF Books!WriteTmp, Books!Writes, Books!Good
<1>3. CASE Books!BeginCopy
  BY <1>3 DEF Books!BeginCopy, Books!Writes, Books!Torn
<1>4. CASE Books!EndCopy
  BY <1>4 DEF Books!EndCopy, Books!Writes
<1>5. CASE Books!NothingToCopy
  BY <1>5 DEF Books!NothingToCopy, Books!Writes
<1>6. CASE Books!Rename
  <2>1. /\ filePc = "rename" /\ filePc' = "idle" /\ saved' = state
        /\ file' = [file EXCEPT !.json = [kind |-> "good", save |-> state],
                                !.tmp = [kind |-> "absent", save |-> 0]]
        /\ UNCHANGED <<state, alerted, damage>>
    BY <1>6 DEF Books!Rename, Books!Writes, Books!Absent
  <2>2. BooksTypeOK'
    BY <2>1
  <2>3. file'.json = [kind |-> "good", save |-> state] /\ file'.bak = file.bak
    BY <2>1
  <2>4. file.bak.kind = "good" => file.bak.save <= state
    BY <2>1
  <2> QED BY <2>1, <2>2, <2>3, <2>4
<1>7. CASE Books!Crash
  BY <1>7 DEF Books!Crash
<1> QED BY <1>1, <1>2, <1>3, <1>4, <1>5, <1>6, <1>7

\* A file that goes bad is counted.
LEMMA DamageKeepsBooks ==
  ASSUME BooksInv, Books!Damage
  PROVE  BooksInv'
<1> USE DEF BooksInv, BooksTypeOK, FileState, Saving, Restored, Ahead, Books!Torn
<1>1. PICK f \in {"json", "bak"} :
        file[f].kind = "good" /\ file' = [file EXCEPT ![f] = Books!Torn]
  BY DEF Books!Damage
<1>2. CASE f = "json"
  BY <1>1, <1>2 DEF Books!Damage
<1>3. CASE f = "bak"
  BY <1>1, <1>3 DEF Books!Damage
<1> QED BY <1>1, <1>2, <1>3

\* Every step of the process is one of the books, or leaves them alone.
LEMMA ProcessKeepsBooks ==
  ASSUME ~RESTORE_INTERRUPTED, BooksInv, [ProcessNext]_<<vars, books>>
  PROVE  BooksInv'
<1>1. CASE UNCHANGED books
  BY <1>1 DEF books, BooksInv, BooksTypeOK, FileState, Saving, Restored, Ahead
<1>2. CASE LockStep
  BY <1>1, <1>2, SaveKeepsBooks DEF LockStep
<1>3. CASE BooksStep
  BY <1>3, LoadKeepsBooks, SaveKeepsBooks DEF BooksStep
<1>4. CASE DiskStep
  BY <1>4, DamageKeepsBooks DEF DiskStep
<1> QED BY <1>1, <1>2, <1>3, <1>4 DEF ProcessNext

\* The books survive (RunnerProcess, StateFile): no crash in the middle of a save loses
\* what was saved, a file that goes bad costs at most one save while its backup parses,
\* and what is lost is reported.  A restored runner is assumed to live until its first
\* save: state.ts:71 does not survive its end before.
THEOREM BooksAlwaysSurvive ==
  ASSUME ~RESTORE_INTERRUPTED
  PROVE  ProcessSpec => []BooksSurvive
<1>1. ProcessInit => BooksInv
  BY BooksInvInit DEF ProcessInit
<1>2. BooksInv /\ [ProcessNext]_<<vars, books>> => BooksInv'
  BY ProcessKeepsBooks
<1>3. BooksInv => BooksSurvive
  BY DEF BooksInv, BooksTypeOK, FileState, Saving, Restored, Ahead, BooksSurvive,
         Books!BooksSurvive, Books!ResumesLastSave, Books!LossIsReported, Books!BackupIsUsed
<1> QED BY <1>1, <1>2, <1>3, PTL DEF ProcessSpec
=============================================================================
