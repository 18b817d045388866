-------------------------------- MODULE Site ---------------------------------
(***************************************************************************)
(* The web app's routes that keep state of their own: the faucet, the      *)
(* waitlist, the heartbeat, the limiter in front of the first two, and the *)
(* accounts with the caches behind which a page sees them.  They share no  *)
(* state, so a behaviour of the site exercises one of them, `route`, and   *)
(* the others stay as they are.                                            *)
(***************************************************************************)
EXTENDS Integers

CONSTANTS
  Clients, WINDOW_MS, MAX_HITS, MAX_KEYS, MAX_CALLS,
  Drips, RequestedBy, AMOUNT, RESERVE, TX_FEE, MAX_DROPS_PER_DAY, FAUCET_BALANCE, MAX_DAY,
  Submissions, Emails, Contents, Jobs, OldFiles, UnreadableFiles, DOWNLOAD_ATTEMPTS,
  Servers, ONLINE_WITHIN, MAX_BEATS,
  MAX_LIMITER_TIME, MAX_WAITLIST_TIME, MAX_HEARTBEAT_TIME,
  Instances, Hooks, Wallets, NoWallet, MIN_SLOT_TRIES,
  MAX_REQUESTS, MAX_SLOT, MAX_READS, MAX_CHANGES, MAX_FAULTS

ASSUME SiteAssumption ==
  /\ {MAX_HITS, MAX_CALLS} \subseteq Nat /\ {WINDOW_MS, MAX_KEYS} \subseteq Nat \ {0}
  /\ {AMOUNT, RESERVE, TX_FEE, MAX_DROPS_PER_DAY, FAUCET_BALANCE, MAX_DAY} \subseteq Nat
  /\ Submissions \subseteq Nat /\ DOWNLOAD_ATTEMPTS \in Nat \ {0}
  /\ UnreadableFiles \subseteq { f.path : f \in OldFiles }
  /\ \A f \in OldFiles :
       /\ f.entry.id \in Int \ Submissions /\ f.entry.submittedAt \in Int /\ f.entry.submittedAt <= 0
       /\ \A email \in Emails :
            f.path # <<email>> /\ \A id \in Submissions : f.path # <<email, id>>
       /\ \A g \in OldFiles : f.entry.id = g.entry.id => f = g
  /\ {ONLINE_WITHIN, MAX_BEATS} \subseteq Nat
  /\ {MAX_LIMITER_TIME, MAX_WAITLIST_TIME, MAX_HEARTBEAT_TIME} \subseteq Nat
  /\ Instances # {} /\ NoWallet \notin Wallets
  /\ {MIN_SLOT_TRIES, MAX_REQUESTS, MAX_SLOT, MAX_READS, MAX_CHANGES, MAX_FAULTS} \subseteq Nat

VARIABLES
  route,
  hits, lastSweep, limiterTime, calls,
  drip, walletMarker, dayMarkers, tx, balance, today, spoiled,
  submission, files, job, snapshots, waitlistTime, seen, known,
  cached, writing, blob, pill, heartbeatTime, beats,
  head, reads, server, edge, req, browser, wallet, hook, pending, faults

Limiter == INSTANCE RateLimiter
  WITH Keys <- Clients, MAX_TIME <- MAX_LIMITER_TIME, time <- limiterTime

TheFaucet == INSTANCE Faucet WITH Requests <- Drips

TheWaitlist == INSTANCE Waitlist
  WITH Requests <- Submissions, MAX_TIME <- MAX_WAITLIST_TIME, time <- waitlistTime

TheHeartbeat == INSTANCE Heartbeat
  WITH MAX_TIME <- MAX_HEARTBEAT_TIME, time <- heartbeatTime

Views == INSTANCE AccountViews WITH Servers <- Instances, tx <- pending

limiterVars   == <<hits, lastSweep, limiterTime, calls>>
faucetVars    == <<drip, walletMarker, dayMarkers, tx, balance, today, spoiled>>
waitlistVars  == <<submission, files, job, snapshots, waitlistTime, seen, known>>
heartbeatVars == <<cached, writing, blob, pill, heartbeatTime, beats>>
viewVars      == <<head, reads, server, edge, req, browser, wallet, hook, pending, faults>>
siteVars == <<route, limiterVars, faucetVars, waitlistVars, heartbeatVars, viewVars>>

SiteInit ==
  /\ route \in {"limiter", "faucet", "waitlist", "heartbeat", "accounts"}
  /\ Limiter!LimiterInit /\ TheFaucet!FaucetInit /\ TheWaitlist!WaitlistInit
  /\ TheHeartbeat!HeartbeatInit /\ Views!Init

SiteNext ==
  /\ UNCHANGED route
  /\ \/ /\ route = "limiter" /\ Limiter!LimiterNext
        /\ UNCHANGED <<faucetVars, waitlistVars, heartbeatVars, viewVars>>
     \/ /\ route = "faucet" /\ TheFaucet!FaucetNext
        /\ UNCHANGED <<limiterVars, waitlistVars, heartbeatVars, viewVars>>
     \/ /\ route = "waitlist" /\ TheWaitlist!WaitlistNext
        /\ UNCHANGED <<limiterVars, faucetVars, heartbeatVars, viewVars>>
     \/ /\ route = "heartbeat" /\ TheHeartbeat!HeartbeatNext
        /\ UNCHANGED <<limiterVars, faucetVars, waitlistVars, viewVars>>
     \/ /\ route = "accounts" /\ Views!Next
        /\ UNCHANGED <<limiterVars, faucetVars, waitlistVars, heartbeatVars>>

\* Of the five, only the accounts are under fairness: on every other route what is
\* promised is safety.
SiteSpec == SiteInit /\ [][SiteNext]_siteVars /\ (route = "accounts" => Views!Fair)
-----------------------------------------------------------------------------
\* The properties of the parts, each stated and explained in its own module.

\* RateLimiter: who is turned away, and who is let through.
LimitIsHonest == Limiter!LimitIsHonest

\* Faucet: no wallet is paid twice, and a day's drops stay within its cap.
DropsAreLimited == TheFaucet!DropsAreLimited

\* Faucet: a wallet turned away for good may have been paid.
LockedOutOnlyIfSent == TheFaucet!LockedOutOnlyIfSent

\* Waitlist: an export shows every accepted version once, each email's first as its row.
ExportIsFaithful == TheWaitlist!ExportIsFaithful

\* Waitlist: no snapshot is partial.
SnapshotsAreComplete == TheWaitlist!SnapshotsAreComplete

\* Heartbeat: "Agents online" is true when it is said.
OnlineIsTrue == TheHeartbeat!OnlineIsTrue

\* AccountViews: a page goes back only across instances.
StepsBackOnlyAcross == Views!StepsBackOnlyAcross

\* AccountViews: a refresh is answered from after its transaction, and the answer is shown
\* unless another instance's was read later.
RefreshIsAnswered == Views!RefreshIsAnswered

\* AccountViews: every load ends, with a copy or an error.
EveryLoadEnds == (route = "accounts") => Views!EveryLoadEnds
=============================================================================
