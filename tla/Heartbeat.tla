------------------------------ MODULE Heartbeat ------------------------------
(***************************************************************************)
(* The runners' heartbeat (app/api/heartbeat/route.ts): every instance of  *)
(* the route keeps the last report it took in memory and writes it to one  *)
(* blob; a page asks some instance (components/AgentsOnline.tsx).          *)
(***************************************************************************)
EXTENDS Integers, FiniteSets

CONSTANTS
  Servers,           \* instances of the route
  ONLINE_WITHIN,     \* a report this old no longer counts
  MAX_TIME, MAX_BEATS \* bounds

VARIABLES
  cached,     \* of each instance: the time of the last report it took, or NoBeat
  writing,    \* reports on their way to the blob
  blob,
  pill,       \* what the page shows, and when it was answered
  time,
  beats       \* times at which a report was taken (history)

heartbeatVars == <<cached, writing, blob, pill, time, beats>>

NoBeat == -1

HeartbeatInit ==
  /\ cached = [s \in Servers |-> NoBeat] /\ writing = {} /\ blob = NoBeat
  /\ pill = [shows |-> "nothing", at |-> 0] /\ time = 0 /\ beats = {}

\* A report with the secret and fields of the right types; others change nothing.
Posts(s) ==
  /\ Cardinality(beats) < MAX_BEATS
  /\ cached' = [cached EXCEPT ![s] = time]
  /\ writing' = writing \cup {time}
  /\ beats' = beats \cup {time}
  /\ UNCHANGED <<blob, pill, time>>

\* Writes of two instances end in any order; a failed one is logged only.
Writes(at) ==
  /\ blob' \in {at, blob} /\ writing' = writing \ {at}
  /\ UNCHANGED <<cached, pill, time, beats>>

\* (faulty: any report counts, whatever its age)
OnlineOnceSeen(beat) == beat # NoBeat
Online(beat) == beat # NoBeat /\ time - beat < ONLINE_WITHIN

\* An instance that took no report reads the blob, which may fail.
Gets(s) ==
  /\ \E beat \in IF cached[s] # NoBeat THEN {cached[s]} ELSE {blob, NoBeat} :
       pill' = [shows |-> IF Online(beat) THEN "online" ELSE "offline", at |-> time]
  /\ UNCHANGED <<cached, writing, blob, time, beats>>

\* The page's fetch fails: nothing is shown.
GetFails ==
  /\ pill' = [shows |-> "nothing", at |-> time]
  /\ UNCHANGED <<cached, writing, blob, time, beats>>

\* An instance is recycled.
Recycled(s) ==
  /\ cached' = [cached EXCEPT ![s] = NoBeat]
  /\ UNCHANGED <<writing, blob, pill, time, beats>>

TimePasses ==
  /\ time < MAX_TIME /\ time' = time + 1
  /\ UNCHANGED <<cached, writing, blob, pill, beats>>

HeartbeatNext ==
  \/ TimePasses \/ GetFails
  \/ \E s \in Servers : Posts(s) \/ Gets(s) \/ Recycled(s)
  \/ \E at \in writing : Writes(at)

HeartbeatSpec == HeartbeatInit /\ [][HeartbeatNext]_heartbeatVars
-----------------------------------------------------------------------------
(* Properties *)

\* A page that is told "Agents online" is told the truth, whatever instance answers and
\* however late an old report reaches the blob: a runner checked in within the last five
\* minutes (AgentsOnline.tsx:21).
OnlineIsTrue ==
  pill.shows = "online" => \E b \in beats : b <= pill.at /\ pill.at - b < ONLINE_WITHIN
=============================================================================
