---------------------------- MODULE RunnerProcess ----------------------------
(***************************************************************************)
(* An agent runner's process on one volume: it takes the lock (RunnerLock),*)
(* and the one that runs loads and saves the books (StateFile) until it    *)
(* stops, crashes or the machine goes down, perhaps in the middle of a     *)
(* save; the next process to get the lock starts from what is on disk.     *)
(***************************************************************************)
EXTENDS RunnerLock

CONSTANTS MAX_SAVES, MAX_DAMAGE, RESTORE_INTERRUPTED    \* see StateFile

ASSUME ProcessAssumption ==
  MAX_SAVES \in Nat /\ MAX_DAMAGE \in Nat /\ RESTORE_INTERRUPTED \in BOOLEAN

VARIABLES state, file, filePc, alerted, saved, damage

books == <<state, file, filePc, alerted, saved, damage>>

Books == INSTANCE StateFile WITH pc <- filePc

ProcessInit == Init /\ Books!Init

IsRunning == \E p \in Pids : pc[p] = "running"

\* The process that runs ends here, and what it had in memory is gone.
RunnerEnds == \E p \in Pids : pc[p] = "running" /\ pc'[p] # "running"

LockStep ==
  /\ Next
  /\ IF RunnerEnds /\ filePc # "down" THEN Books!Crash ELSE UNCHANGED books

\* main(): only a process that got the lock constructs the runners and saves their books.
BooksStep ==
  /\ IsRunning
  /\ \/ Books!Load \/ Books!Save \/ Books!WriteTmp \/ Books!BeginCopy \/ Books!EndCopy
     \/ Books!NothingToCopy \/ Books!Rename
  /\ UNCHANGED vars

DiskStep == Books!Damage /\ UNCHANGED vars

ProcessNext == LockStep \/ BooksStep \/ DiskStep

ProcessSpec == ProcessInit /\ [][ProcessNext]_<<vars, books>>
-----------------------------------------------------------------------------
\* StateFile: whichever process starts, wherever the one before it ended, it starts from
\* the last save, or from the save before it, or says that it does not.
BooksSurvive == Books!BooksSurvive
=============================================================================
