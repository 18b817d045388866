------------------------------ MODULE StateFile ------------------------------
(***************************************************************************)
(* How an agent runner keeps its books on disk (agent/src/state.ts): every *)
(* save writes a temporary file, copies the previous file to a backup and  *)
(* renames; a start loads the file, or the backup if it does not parse.    *)
(* The contents of a save are its number; 0 is the empty state.            *)
(***************************************************************************)
EXTENDS Naturals

CONSTANTS
  MAX_SAVES,             \* bound: saves of the books
  MAX_DAMAGE,            \* bound: how often a file goes bad
  RESTORE_INTERRUPTED    \* whether a restored runner may end before its first save

VARIABLES
  state,       \* the books in memory
  file,        \* <id>.json, <id>.json.bak and the temporary file: absent, torn or good
  pc,
  alerted,     \* the last start logged an ALERT about the state file
  saved,       \* history: the last save that returned to the runner
  damage       \* how often a file went bad so far

vars == <<state, file, pc, alerted, saved, damage>>

Good(n) == [kind |-> "good", save |-> n]
Torn    == [kind |-> "torn", save |-> 0]
Absent  == [kind |-> "absent", save |-> 0]

Init ==
  /\ state = 0 /\ saved = 0 /\ damage = 0
  /\ file = [json |-> Absent, bak |-> Absent, tmp |-> Absent]
  /\ pc = "down"
  /\ alerted = FALSE
-----------------------------------------------------------------------------
(* loadStateFrom *)

LoadFile ==
  /\ file.json.kind # "torn"
  /\ state' = file.json.save
  /\ alerted' = FALSE
  /\ UNCHANGED file

\* The file is moved aside, so the next start finds none.
LoadBackup ==
  /\ file.json.kind = "torn"
  /\ state' = IF file.bak.kind = "good" THEN file.bak.save ELSE 0
  /\ file' = [file EXCEPT !.json = Absent]
  /\ alerted' = TRUE

Load ==
  /\ pc = "down"
  /\ LoadFile \/ LoadBackup
  /\ pc' = "init"
  /\ UNCHANGED <<saved, damage>>
-----------------------------------------------------------------------------
(* saveState, writeAtomic *)

Writes(from, to, files) ==
  /\ pc = from
  /\ pc' = to
  /\ file' = files
  /\ UNCHANGED <<state, alerted, damage>>

\* The books change and a save begins: the temporary file is opened ...
Save ==
  /\ pc \in {"init", "idle"}
  /\ state < MAX_SAVES
  /\ state' = state + 1
  /\ file' = [file EXCEPT !.tmp = Torn]
  /\ pc' = "write"
  /\ UNCHANGED <<alerted, saved, damage>>

\* Mutant: the file is written in place.
WriteInPlace ==
  Writes("write", "copy", [file EXCEPT !.tmp = Good(state), !.json = Torn])
    /\ UNCHANGED saved

\* ... and written and synced;
WriteTmp ==
  Writes("write", "copy", [file EXCEPT !.tmp = Good(state)]) /\ UNCHANGED saved

\* copyFileSync, if there is a file: the backup is torn until it ends;
BeginCopy ==
  /\ file.json.kind # "absent"
  /\ Writes("copy", "copying", [file EXCEPT !.bak = Torn])
  /\ UNCHANGED saved

EndCopy ==
  Writes("copying", "rename", [file EXCEPT !.bak = file.json]) /\ UNCHANGED saved

NothingToCopy ==
  file.json.kind = "absent" /\ Writes("copy", "rename", file) /\ UNCHANGED saved

\* renameSync is atomic.
Rename ==
  /\ Writes("rename", "idle", [file EXCEPT !.json = file.tmp, !.tmp = Absent])
  /\ saved' = state
-----------------------------------------------------------------------------
(* Failures *)

\* The process is killed, or fails before its first save: runner.ts ends with
\* exit code 1 if init() cannot reach the chain, and the supervisor restarts it.
Crash ==
  /\ pc # "down"
  /\ alerted /\ file.json.kind = "absent" => RESTORE_INTERRUPTED
  /\ state' = 0
  /\ pc' = "down"
  /\ UNCHANGED <<file, alerted, saved, damage>>

\* A file goes bad on disk.
Damage ==
  /\ damage < MAX_DAMAGE
  /\ \E f \in {"json", "bak"} :
       file[f].kind = "good" /\ file' = [file EXCEPT ![f] = Torn]
  /\ damage' = damage + 1
  /\ UNCHANGED <<state, pc, alerted, saved>>

Next == Load \/ Save \/ WriteTmp \/ BeginCopy \/ EndCopy \/ NothingToCopy \/ Rename
          \/ Crash \/ Damage

Spec == Init /\ [][Next]_vars
-----------------------------------------------------------------------------
(* Properties *)

\* A crash anywhere, in the middle of a save too, loses no completed save and
\* leaves no half of one: without damage a start resumes with the last save.
ResumesLastSave == pc = "init" /\ damage = 0 => state = saved

\* A start that misses a save says so, so that an operator can reconcile.
LossIsReported == pc = "init" /\ state # saved => alerted

\* A file that does not parse costs at most one save as long as its backup
\* parses, however often files go bad: the last good copy is used
\* (state.ts:57-62).
BackupIsUsed == pc = "init" /\ file.bak.kind = "good" => state + 1 >= saved

\* Books survive: a crash loses nothing that was saved, damage costs at most one save while
\* the backup parses, and what is lost is reported (state.ts:57-62, :97-98).
BooksSurvive == ResumesLastSave /\ LossIsReported /\ BackupIsUsed
=============================================================================
