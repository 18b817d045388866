-------------------------- MODULE PositionLifecycle --------------------------
(***************************************************************************)
(* What the runners and the traders may count on: the life of a position   *)
(* as the program enforces it, whatever anybody sends and in which order.  *)
(***************************************************************************)
EXTENDS Naturals

CONSTANT Positions

VARIABLES
  now,
  status,     \* "absent", "open", "trading", "settled", "defaulted", "cancelled"
  deadline    \* of a position that exists

vars == <<now, status, deadline>>

Init ==
  /\ now \in Nat
  /\ status = [p \in Positions |-> "absent"]
  /\ deadline \in [Positions -> Nat]

Move(p, from, to) ==
  /\ status[p] \in from
  /\ status' = [status EXCEPT ![p] = to]
  /\ UNCHANGED now

Open(p) ==
  /\ Move(p, {"absent"}, "open")
  /\ deadline'[p] > now
  /\ deadline' = [deadline EXCEPT ![p] = deadline'[p]]

Draw(p)    == now < deadline[p] /\ Move(p, {"open"}, "trading") /\ UNCHANGED deadline
Cancel(p)  == Move(p, {"open"}, "cancelled") /\ UNCHANGED deadline
Settle(p)  == Move(p, {"open", "trading"}, "settled") /\ UNCHANGED deadline
Default(p) == now >= deadline[p] /\ Move(p, {"trading"}, "defaulted") /\ UNCHANGED deadline

Pass == now' > now /\ UNCHANGED <<status, deadline>>

Next ==
  \/ Pass
  \/ \E p \in Positions : Open(p) \/ Draw(p) \/ Cancel(p) \/ Settle(p) \/ Default(p)

Spec == Init /\ [][Next]_vars
=============================================================================
