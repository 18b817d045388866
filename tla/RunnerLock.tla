------------------------------ MODULE RunnerLock ------------------------------
(***************************************************************************)
(* The lock file that keeps two agent runners off the same books           *)
(* (agent/src/lock.ts).  Every file call is a step of its own: the calls   *)
(* of two processes interleave, and a process may die between any two.     *)
(***************************************************************************)
EXTENDS Naturals, FiniteSets

CONSTANTS
  Pids,               \* process ids of one machine
  Hosts,              \* machines the volume can be attached to
  MAX_BOOTS,          \* bound: boots of the machine
  BOOT_IDS,           \* whether the machine has a boot id (Linux) or not (macOS)
  OtherPids,          \* ids that unrelated processes may get
  CONCURRENT_STARTS   \* whether a runner may start while another is starting

ASSUME LockAssumption ==
  /\ Pids # {} /\ Hosts # {} /\ OtherPids \subseteq Pids
  /\ MAX_BOOTS \in Nat /\ BOOT_IDS \in BOOLEAN /\ CONCURRENT_STARTS \in BOOLEAN

VARIABLES
  machine,   \* where the volume is attached, and the current boot
  lock,      \* the lock file: {} or the one file, with who created it and where
  pc,        \* what each process is doing
  raw        \* the stale lock that each process read and is about to remove

vars == <<machine, lock, pc, raw>>

\* A file that was created but not written is torn: it does not parse.
LockFile == [pid : Pids, host : Hosts, boot : 0..MAX_BOOTS, torn : BOOLEAN]

Starting == {"create", "write", "read", "remove", "recreate"}
Program  == {"free", "other", "running", "release", "refused"} \cup Starting

PidAlive(p) == pc[p] # "free"
Me(p, torn) == [pid |-> p, host |-> machine.host, boot |-> machine.boot, torn |-> torn]

\* Mutant: a torn file counts as held.
StaleUnlessTorn(held, p) == ~held.torn /\ (held.pid = p \/ ~PidAlive(held.pid))

\* Why a lock no longer holds (its text is left out).
Stale(held, p) ==
  \/ held.torn
  \/ held.host # machine.host
  \/ BOOT_IDS /\ held.boot # machine.boot
  \/ held.pid = p
  \/ ~PidAlive(held.pid)

Goto(p, label) == pc' = [pc EXCEPT ![p] = label]

Init ==
  /\ machine \in [host : Hosts, boot : {0}]
  /\ lock = {}
  /\ pc = [p \in Pids |-> "free"]
  /\ raw = [p \in Pids |-> {}]
-----------------------------------------------------------------------------
(* acquireLock *)

Start(p) ==
  /\ pc[p] = "free"
  /\ CONCURRENT_STARTS \/ \A q \in Pids : pc[q] \notin Starting
  /\ Goto(p, "create")
  /\ UNCHANGED <<machine, lock, raw>>

\* Mutant: opens the file with "w".
CreateOver(p, otherwise) ==
  lock' = {Me(p, TRUE)} /\ Goto(p, "write") /\ UNCHANGED <<machine, raw>>

\* openSync with "wx": creates the file or fails because there is one.
CreateExclusively(p, otherwise) ==
  /\ IF lock = {}
     THEN lock' = {Me(p, TRUE)} /\ Goto(p, "write")
     ELSE lock' = lock /\ Goto(p, otherwise)
  /\ UNCHANGED <<machine, raw>>

Create(p) == pc[p] = "create" /\ CreateExclusively(p, "read")

\* writeSync goes to the file this process created: if that was removed in the
\* meantime, the write is lost and the process does not notice.
Write(p) ==
  /\ pc[p] = "write"
  /\ lock' = IF lock = {Me(p, TRUE)} THEN {Me(p, FALSE)} ELSE lock
  /\ Goto(p, "running")
  /\ UNCHANGED <<machine, raw>>

\* A lock that is gone by now cannot be read and counts as one that does not parse.
Read(p) ==
  /\ pc[p] = "read"
  /\ IF \A held \in lock : Stale(held, p)
     THEN raw' = [raw EXCEPT ![p] = lock] /\ Goto(p, "remove")
     ELSE raw' = raw /\ Goto(p, "refused")
  /\ UNCHANGED <<machine, lock>>

\* unlinkSync throws, and the process ends, if the file is gone.
Remove(p) ==
  /\ pc[p] = "remove"
  /\ lock' = {}
  /\ raw' = [raw EXCEPT ![p] = {}]
  /\ Goto(p, IF lock = {} THEN "refused" ELSE "recreate")
  /\ UNCHANGED machine

Recreate(p) == pc[p] = "recreate" /\ CreateExclusively(p, "refused")
-----------------------------------------------------------------------------
(* The end of a runner *)

\* The exit handler reads the lock and removes it if it is still its own.
Stop(p) ==
  /\ pc[p] = "running"
  /\ Goto(p, IF lock = {Me(p, FALSE)} THEN "release" ELSE "free")
  /\ UNCHANGED <<machine, lock, raw>>

Release(p) ==
  /\ pc[p] = "release"
  /\ lock' = {}
  /\ Goto(p, "free")
  /\ UNCHANGED <<machine, raw>>

\* A runner that was turned away, or that dies anywhere, leaves the file alone.
Crash(p) ==
  /\ pc[p] \notin {"free", "other"}
  /\ raw' = [raw EXCEPT ![p] = {}]
  /\ Goto(p, "free")
  /\ UNCHANGED <<machine, lock>>

\* The volume is attached to one machine at a time: moving it, like a reboot,
\* ends every process that used it.
Reboot ==
  /\ machine.boot < MAX_BOOTS
  /\ \E host \in Hosts : machine' = [host |-> host, boot |-> machine.boot + 1]
  /\ pc' = [p \in Pids |-> "free"]
  /\ raw' = [p \in Pids |-> {}]
  /\ UNCHANGED lock

\* An unrelated process starts or ends.
Unrelated(p) ==
  /\ p \in OtherPids
  /\ \/ pc[p] = "free" /\ Goto(p, "other")
     \/ pc[p] = "other" /\ Goto(p, "free")
  /\ UNCHANGED <<machine, lock, raw>>

Next ==
  \/ Reboot
  \/ \E p \in Pids :
       \/ Start(p) \/ Create(p) \/ Write(p) \/ Read(p) \/ Remove(p) \/ Recreate(p)
       \/ Stop(p) \/ Release(p) \/ Crash(p) \/ Unrelated(p)

Spec == Init /\ [][Next]_vars
-----------------------------------------------------------------------------
(* Properties *)

TypeOK ==
  /\ machine \in [host : Hosts, boot : 0..MAX_BOOTS]
  /\ lock \in SUBSET LockFile
  /\ pc \in [Pids -> Program]
  /\ raw \in [Pids -> SUBSET LockFile]

\* Two runners never trade the same books (lock.ts:65).
OneRunner == \A p, q \in Pids : pc[p] = "running" /\ pc[q] = "running" => p = q

\* Why: whoever is running, or on its way out, owns the file, so whoever comes
\* next can see it; a process that found a lock stale finds nobody there, and
\* nobody takes the file between its removal and its re-creation.  No order of
\* crashes, reboots, takeovers and exits breaks this while runners start one
\* after the other.
LockInv ==
  /\ TypeOK
  /\ \A p, q \in Pids : pc[p] \in Starting /\ pc[q] \in Starting => p = q
  /\ \A p \in Pids :
       /\ pc[p] \in {"running", "release"} => lock = {Me(p, FALSE)}
       /\ pc[p] = "write" => lock = {Me(p, TRUE)}
       /\ pc[p] = "recreate" => lock = {}
       /\ pc[p] = "remove" => \A q \in Pids : pc[q] \notin {"running", "release"}

\* A process is turned away only if another runner is there or has just let go
\* of the lock, or if an unrelated process got the id of a dead one: a lock left
\* behind by a crash at any point, a torn one included, or by an earlier boot
\* never keeps the books without a runner.
RefusedOnlyIfHeld ==
  [][ \A p \in Pids : pc[p] # "refused" /\ pc'[p] = "refused" =>
        \/ \E q \in Pids \ {p} : pc[q] \notin {"free", "other", "refused"}
        \/ pc[p] = "remove" /\ lock = {}
        \/ \E held \in lock : /\ pc[held.pid] = "other"
                              /\ BOOT_IDS => held.boot = machine.boot ]_vars
=============================================================================
