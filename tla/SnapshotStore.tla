---------------------------- MODULE SnapshotStore ----------------------------
(***************************************************************************)
(* What a reader of the program's accounts may rely on: every snapshot     *)
(* shown was the chain's at some slot, and one of an older slot replaces   *)
(* it only if another reader of the chain read it later.                   *)
(***************************************************************************)
EXTENDS Naturals

VARIABLES head,    \* the chain's latest slot
          shown    \* what is shown: its slot, when it was read (at) and by whom (from)

Init == head = 0 /\ shown.slot = 0

Replaces(new, old) == new.slot >= old.slot \/ (new.at > old.at /\ new.from # old.from)

Advance == head' = head + 1 /\ UNCHANGED shown
Show    == shown'.slot \in 0..head /\ Replaces(shown', shown) /\ UNCHANGED head

Spec == Init /\ [][Advance \/ Show]_<<head, shown>>
=============================================================================
