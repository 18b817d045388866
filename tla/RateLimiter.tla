----------------------------- MODULE RateLimiter -----------------------------
(***************************************************************************)
(* The sliding-window rate limiter of one instance of the site             *)
(* (lib/rateLimit.ts): a map from keys to the times of their hits, kept in *)
(* insertion order and never larger than MAX_KEYS.  It is what `limited`   *)
(* does to one key at a time; instances share nothing.                     *)
(***************************************************************************)
EXTENDS Integers, Sequences, FiniteSets

CONSTANTS
  Keys,                \* clients' addresses
  WINDOW_MS, MAX_HITS, MAX_KEYS,
  MAX_TIME, MAX_CALLS  \* bounds

VARIABLES
  hits,       \* the map: a sequence of [key, times], oldest insertion first
  lastSweep,
  time,       \* Date.now()
  calls       \* what was asked and answered: a history that the limiter does not read

limiterVars == <<hits, lastSweep, time, calls>>

LimiterInit ==
  /\ hits = <<>> /\ lastSweep = 0
  /\ time = WINDOW_MS + 1          \* long after 0
  /\ calls = <<>>

\* What a filter leaves of s: its entries at the positions in `at`, in their order.
KeptAt(s, at) ==
  [n \in 1..Cardinality(at) |->
     s[CHOOSE i \in at : Cardinality({ k \in at : k <= i }) = n]]

Recent(times) == KeptAt(times, { i \in 1..Len(times) : time - times[i] < WINDOW_MS })
Holds(map, key) == \E i \in 1..Len(map) : map[i].key = key
Without(map, key) == KeptAt(map, { i \in 1..Len(map) : map[i].key # key })

LastHit(e) == e.times[Len(e.times)]

\* An expired key goes, judged by its last hit.
Swept ==
  IF time - lastSweep > WINDOW_MS \/ Len(hits) >= MAX_KEYS
  THEN KeptAt(hits, { i \in 1..Len(hits) : time - LastHit(hits[i]) < WINDOW_MS })
  ELSE hits

\* The oldest keys give way to a new one.
Evicted(map, key) ==
  IF Len(map) >= MAX_KEYS /\ ~Holds(map, key)
  THEN SubSeq(map, Len(map) - MAX_KEYS + 2, Len(map)) ELSE map

TimesOf(map, key) ==
  IF Holds(map, key)
  THEN map[CHOOSE i \in 1..Len(map) : map[i].key = key].times ELSE <<>>

\* (faulty: a key keeps its place when it is hit again)
InPlace(map, key, times) ==
  IF Holds(map, key)
  THEN [i \in 1..Len(map) |-> IF map[i].key = key THEN [key |-> key, times |-> times] ELSE map[i]]
  ELSE Append(map, [key |-> key, times |-> times])

\* Deleted and inserted again, the key moves to the newest end.
Reinserted(map, key, times) == Append(Without(map, key), [key |-> key, times |-> times])

Limited(key) ==
  LET map   == Evicted(Swept, key)
      times == Append(Recent(TimesOf(map, key)), time)
  IN  /\ Len(calls) < MAX_CALLS
      /\ hits' = Reinserted(map, key, times)
      /\ lastSweep' = IF time - lastSweep > WINDOW_MS \/ Len(hits) >= MAX_KEYS
                      THEN time ELSE lastSweep
      /\ calls' = Append(calls, [key |-> key, at |-> time, over |-> Len(times) > MAX_HITS])
      /\ UNCHANGED time

TimePasses ==
  /\ time < MAX_TIME /\ time' = time + 1
  /\ UNCHANGED <<hits, lastSweep, calls>>

LimiterNext == TimePasses \/ \E key \in Keys : Limited(key)
-----------------------------------------------------------------------------
(* Properties *)

\* The calls of call i's key in the window that ends with it.
InWindow(i) ==
  { j \in 1..i : calls[j].key = calls[i].key /\ calls[i].at - calls[j].at < WINDOW_MS }

\* Between two calls of one key, MAX_KEYS other keys called: the least recently seen gives way.
ForgottenBefore(i) ==
  \E j \in InWindow(i) \ {i} :
    LET next == { k \in (j + 1)..i : calls[k].key = calls[j].key }
        upto == CHOOSE k \in next : \A l \in next : k <= l
    IN  Cardinality({ calls[k].key : k \in (j + 1)..(upto - 1) }) >= MAX_KEYS

\* A client is turned away only if it really called more than MAX_HITS times within the
\* window, and gets past that limit only after MAX_KEYS others pushed it out of the map
\* (rateLimit.ts:3-8, :24-25, "a key that is already tracked ... never forces an eviction").
LimitIsHonest ==
  /\ Len(hits) <= MAX_KEYS
  /\ \A i \in 1..Len(calls) :
       /\ calls[i].over => Cardinality(InWindow(i)) > MAX_HITS
       /\ Cardinality(InWindow(i)) > MAX_HITS => calls[i].over \/ ForgottenBefore(i)
=============================================================================
