----------------------------- MODULE AccountViews -----------------------------
(***************************************************************************)
(* How the chain's accounts reach a page of the web app: RPC nodes that    *)
(* may lag, the accounts route with a cache in every server instance       *)
(* (api/accounts/route.ts), the edge cache before it, the browser's own    *)
(* copy (lib/accounts.ts), the hooks that show it (lib/useProtocol.ts),    *)
(* and the transactions of this browser.  A snapshot is the slot it was    *)
(* read at, its time and the instance that read it (`from`, which only     *)
(* the properties look at).  The age of a copy is left out: any copy may   *)
(* be too old to serve, or not.                                            *)
(***************************************************************************)
EXTENDS Integers, FiniteSets

CONSTANTS
  Servers,              \* instances of the accounts route
  Hooks,                \* useAgents, usePositions, useOperatorAgents, the agent page
  Wallets, NoWallet,
  MIN_SLOT_TRIES,
  MAX_REQUESTS, MAX_SLOT, MAX_READS, MAX_CHANGES, MAX_FAULTS   \* bounds

VARIABLES
  head,       \* the latest confirmed slot
  reads,      \* chain reads that ended: the order of Date.now() in their snapshots
  server,     \* of each instance: its cache and the load in flight
  edge,       \* the response kept at the edge
  req,        \* requests of this browser
  browser,    \* its last snapshot, its latest confirmed slot, and the request to share
  wallet,     \* the connected wallet, and how often it changed
  hook,       \* of each hook: whether it must load, whose accounts it shows, loading, error
  tx,         \* the transaction at hand
  faults

vars == <<head, reads, server, edge, req, browser, wallet, hook, tx, faults>>

Ids     == 1..MAX_REQUESTS
Some    == CHOOSE s \in Servers : TRUE
NoCopy  == [at |-> 0, slot |-> 0, stale |-> FALSE, from |-> Some]
Idle    == -1
Free    == [phase |-> "free", fresh |-> FALSE, minSlot |-> 0,
            server |-> Some, tries |-> 0, reply |-> NoCopy,
            callers |-> [h \in Hooks |-> NoWallet]]

MaxOf(a, b) == IF a >= b THEN a ELSE b
NoFault == UNCHANGED faults
Fault   == faults < MAX_FAULTS /\ faults' = faults + 1

Init ==
  /\ head = 0 /\ reads = 0 /\ faults = 0
  /\ server = [s \in Servers |-> [cache |-> NoCopy, load |-> Idle]]
  /\ edge = NoCopy
  /\ req = [i \in Ids |-> Free]
  /\ browser = [last |-> NoCopy, minSlot |-> 0, inflight |-> 0]
  /\ wallet = [key |-> NoWallet, changes |-> 0]
  /\ hook = [h \in Hooks |-> [due |-> FALSE, for |-> NoWallet, loading |-> FALSE, error |-> FALSE]]
  /\ tx = "idle"
-----------------------------------------------------------------------------
(* The hooks *)

Chain  == UNCHANGED <<head, tx>>
Remote == UNCHANGED <<reads, server, edge>>

\* Another wallet connects, or none: an effect of every hook loads again or clears.
Connect(k) ==
  /\ wallet.key # k /\ wallet.changes < MAX_CHANGES
  /\ wallet' = [key |-> k, changes |-> wallet.changes + 1]
  /\ hook' = [h \in Hooks |->
       IF k = NoWallet THEN [hook[h] EXCEPT !.due = FALSE, !.for = NoWallet, !.error = FALSE]
       ELSE [hook[h] EXCEPT !.due = TRUE]]
  /\ UNCHANGED <<req, browser>> /\ Chain /\ Remote /\ NoFault

\* fetchProgramAccounts: a caller that needs no fresh copy joins the request in
\* flight; any other request is the one to join from now on.
FetchProgramAccounts(h, fresh) ==
  LET idle == { i \in Ids : req[i].phase = "free" }
  IN  IF ~fresh /\ browser.inflight # 0
      THEN /\ req' = [req EXCEPT ![browser.inflight].callers[h] = wallet.key]
           /\ UNCHANGED browser
      ELSE \E i \in idle :
             /\ \A j \in idle : i <= j
             /\ req' = [req EXCEPT ![i] =
                  [Free EXCEPT !.phase = "sent", !.fresh = fresh, !.callers[h] = wallet.key,
                               !.minSlot = IF fresh THEN browser.minSlot ELSE 0]]
             /\ browser' = [browser EXCEPT !.inflight = i]

LoadHook(h, fresh) ==
  /\ hook' = [hook EXCEPT ![h].due = FALSE, ![h].loading = TRUE]
  /\ FetchProgramAccounts(h, fresh)

Loads(h) ==
  /\ hook[h].due /\ LoadHook(h, FALSE)
  /\ UNCHANGED wallet /\ Chain /\ Remote /\ NoFault

\* A copy received less than CLIENT_TTL_MS ago is good enough.
ShowsLast(h) ==
  /\ hook[h].due /\ browser.last # NoCopy
  /\ hook' = [hook EXCEPT ![h] = [due |-> FALSE, for |-> wallet.key, loading |-> FALSE, error |-> FALSE]]
  /\ UNCHANGED <<req, browser, wallet>> /\ Chain /\ Remote /\ NoFault

\* The refresh button.
Refresh(h) ==
  /\ wallet.key # NoWallet /\ LoadHook(h, TRUE)
  /\ UNCHANGED wallet /\ Chain /\ Remote /\ Fault
-----------------------------------------------------------------------------
(* The route: GET *)

Local == UNCHANGED <<head, browser, wallet, hook, tx>>

BehindOnlyIfEmpty(copy, i) == copy = NoCopy    \* mutant
Behind(copy, i) == copy = NoCopy \/ copy.slot < req[i].minSlot
Served(i, copy) == [req[i] EXCEPT !.phase = "replied", !.reply = copy]

\* A response that is not for a fresh request may be kept at the edge, a stale one too.
MayKeep(i, copy) == edge' \in IF req[i].fresh THEN {edge} ELSE {edge, copy}

FromEdge(i) ==
  /\ req[i].phase = "sent" /\ ~req[i].fresh /\ edge # NoCopy
  /\ req' = [req EXCEPT ![i] = Served(i, edge)]
  /\ UNCHANGED <<reads, server, edge>> /\ Local /\ NoFault

FromCache(i, s) ==
  /\ req[i].phase = "sent" /\ ~Behind(server[s].cache, i)
  /\ req' = [req EXCEPT ![i] = Served(i, server[s].cache)]
  /\ MayKeep(i, server[s].cache)
  /\ UNCHANGED <<reads, server>> /\ Local /\ NoFault

\* reload: starts a load, at the slot of the node that answers, or shares the one in
\* flight.
Reload(i, s) ==
  /\ req[i].phase \in {"sent", "retry"}
  /\ req[i].phase = "retry" => s = req[i].server
  /\ req' = [req EXCEPT ![i].phase = "loading", ![i].server = s, ![i].tries = @ + 1]
  /\ \E slot \in 0..head :
       server' = [server EXCEPT ![s].load = IF @ = Idle THEN slot ELSE @]
  /\ UNCHANGED <<reads, edge>> /\ Local /\ NoFault

WaitingAt(s) == { i \in Ids : req[i].phase = "loading" /\ req[i].server = s }

\* A request that is still behind tries again, four times in all.
TriesAgain(i, copy) == Behind(copy, i) /\ req[i].tries < MIN_SLOT_TRIES

KeepLatest(cache, copy) == copy    \* mutant
\* Never step back to a lagging node's view.
Cached(cache, copy) == IF cache = NoCopy \/ copy.slot >= cache.slot THEN copy ELSE cache

LoadEnds(s) ==
  /\ server[s].load # Idle
  /\ reads < MAX_READS /\ reads' = reads + 1
  /\ LET copy == Cached(server[s].cache,
                        [at |-> reads', slot |-> server[s].load, stale |-> FALSE, from |-> s])
     IN  /\ server' = [server EXCEPT ![s] = [cache |-> copy, load |-> Idle]]
         /\ req' = [i \in Ids |->
              IF i \notin WaitingAt(s) THEN req[i]
              ELSE IF TriesAgain(i, copy) THEN [req[i] EXCEPT !.phase = "retry"]
              ELSE Served(i, copy)]
         /\ edge' \in {edge} \cup { copy : i \in { j \in WaitingAt(s) : ~req[j].fresh } }
  /\ Local /\ NoFault

\* The RPC throttles or fails, for good once the bound on reads is reached: the last
\* copy is served as stale, or an error.
LoadFails(s) ==
  /\ server[s].load # Idle
  /\ IF reads = MAX_READS THEN NoFault ELSE Fault
  /\ server' = [server EXCEPT ![s].load = Idle]
  /\ LET stale == [server[s].cache EXCEPT !.stale = TRUE]
     IN  /\ req' = [i \in Ids |->
              IF i \notin WaitingAt(s) THEN req[i]
              ELSE IF server[s].cache = NoCopy THEN [req[i] EXCEPT !.phase = "failed"]
              ELSE Served(i, stale)]
         /\ edge' \in {edge} \cup
              { stale : i \in { j \in WaitingAt(s) : ~req[j].fresh /\ server[s].cache # NoCopy } }
  /\ UNCHANGED reads /\ Local
-----------------------------------------------------------------------------
(* The browser *)

Server == UNCHANGED <<head, reads, server, edge, wallet>>

Finished(i) ==
  /\ req' = [req EXCEPT ![i] = Free]
  /\ UNCHANGED tx /\ Server

\* Responses can arrive out of order: an older one is dropped.
Newer(i) == IF browser.last # NoCopy /\ req[i].reply.at < browser.last.at THEN browser.last
            ELSE req[i].reply

\* Whoever awaited the request shows the browser's copy for the wallet of its call.
Responds(i) ==
  /\ req[i].phase = "replied"
  /\ browser' = [browser EXCEPT !.last = Newer(i), !.inflight = IF @ = i THEN 0 ELSE @]
  /\ hook' = [h \in Hooks |->
       IF req[i].callers[h] = NoWallet THEN hook[h]
       ELSE [hook[h] EXCEPT !.for = req[i].callers[h], !.loading = FALSE, !.error = FALSE]]
  /\ Finished(i) /\ NoFault

FailsQuietly(i) ==    \* mutant
  /\ \/ req[i].phase = "failed" /\ NoFault
     \/ req[i].phase = "replied" /\ Fault
  /\ browser' = [browser EXCEPT !.inflight = IF @ = i THEN 0 ELSE @]
  /\ hook' = [h \in Hooks |->
       IF req[i].callers[h] = NoWallet THEN hook[h] ELSE [hook[h] EXCEPT !.loading = FALSE]]
  /\ Finished(i)

\* The route returned an error, or the connection broke.
Fails(i) ==
  /\ \/ req[i].phase = "failed" /\ NoFault
     \/ req[i].phase = "replied" /\ Fault
  /\ browser' = [browser EXCEPT !.inflight = IF @ = i THEN 0 ELSE @]
  /\ hook' = [h \in Hooks |->
       IF req[i].callers[h] = NoWallet THEN hook[h]
       ELSE [hook[h] EXCEPT !.loading = FALSE, !.error = TRUE]]
  /\ Finished(i)
-----------------------------------------------------------------------------
(* Transactions: run *)

Sends ==
  /\ tx = "idle" /\ wallet.key # NoWallet
  /\ tx' = "pending"
  /\ UNCHANGED <<head, req, browser, wallet, hook>> /\ Remote /\ NoFault

\* Confirmed in a slot of its own; other transactions fill slots too.
Confirms ==
  /\ head < MAX_SLOT /\ head' = head + 1
  /\ tx' \in IF tx = "pending" THEN {"pending", "confirmed"} ELSE {tx}
  /\ UNCHANGED <<req, browser, wallet, hook>> /\ Remote /\ NoFault

\* noteConfirmedSlot, if the transaction's slot can be read.
Notes ==
  /\ tx = "confirmed" /\ tx' = "ok"
  /\ \/ browser' = [browser EXCEPT !.minSlot = MaxOf(@, head)] /\ NoFault
     \/ UNCHANGED browser /\ Fault
  /\ UNCHANGED <<head, req, wallet, hook>> /\ Remote

\* It failed, or was rejected in the wallet.
Throws ==
  /\ tx = "pending" /\ tx' = "idle"
  /\ UNCHANGED <<head, req, browser, wallet, hook>> /\ Remote /\ NoFault

\* The page that sent it loads a fresh copy.
RefreshesAfter(h) ==
  /\ tx = "ok" /\ tx' = "idle" /\ wallet.key # NoWallet
  /\ LoadHook(h, TRUE)
  /\ UNCHANGED <<head, wallet>> /\ Remote /\ NoFault
-----------------------------------------------------------------------------
Hook(h) == Loads(h) \/ ShowsLast(h) \/ RefreshesAfter(h)
Serve   == \E i \in Ids, s \in Servers : FromCache(i, s) \/ Reload(i, s)
Ends    == \E s \in Servers : LoadEnds(s) \/ LoadFails(s)
Answers == \E i \in Ids : Responds(i) \/ Fails(i)

Next ==
  \/ Serve \/ Ends \/ Answers \/ \E i \in Ids : FromEdge(i)
  \/ \E h \in Hooks : Hook(h) \/ Refresh(h)
  \/ Sends \/ Confirms \/ Notes \/ Throws
  \/ \E k \in Wallets \cup {NoWallet} : Connect(k)

Spec == Init /\ [][Next]_vars

\* Effects run, requests arrive, and calls to a node return or fail.
Fair ==
  /\ WF_vars(Serve) /\ WF_vars(Ends) /\ WF_vars(Answers)
  /\ \A h \in Hooks : WF_vars(Loads(h))
-----------------------------------------------------------------------------
(* Properties *)

\* With any number of instances, what the pages show was the chain's at some slot, and it
\* goes back to an older slot only for a copy that another instance read later, from a node
\* that lags more: never for two copies of one instance, whatever the order of the responses,
\* the lag of the nodes, the age of the edge's copy and the failures (route.ts:60,
\* accounts.ts:43-45).
Snapshots == INSTANCE SnapshotStore WITH shown <- browser.last
StepsBackOnlyAcross == Snapshots!Spec

\* A refresh after a transaction is answered from after it, unless the route could not read
\* the chain or only reached nodes that lag (route.ts:12-13, 53-62): a copy from a cache,
\* the edge, a load that began before the transaction, or an overlapping request will not
\* do.  And the page shows it unless it already shows what another instance read later
\* (accounts.ts:45).
RefreshIsAnswered ==
  [][ \A i \in Ids :
        Responds(i) /\ req[i].fresh /\ ~req[i].reply.stale /\ req[i].tries < MIN_SLOT_TRIES
          => /\ req[i].reply.slot >= req[i].minSlot
             /\ \/ browser'.last.slot >= req[i].minSlot
                \/ /\ browser'.last.at > req[i].reply.at
                   /\ browser'.last.from # req[i].reply.from ]_vars

\* Every load of a page ends, with a copy or an error, even if all nodes lag forever;
\* and a wallet that stays connected gets its accounts shown, or an error.
EveryLoadEnds == \A h \in Hooks : hook[h].due ~> hook[h].for = wallet.key \/ hook[h].error
=============================================================================
