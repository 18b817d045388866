------------------------------- MODULE Faucet --------------------------------
(***************************************************************************)
(* The devnet faucet (app/api/faucet/route.ts): concurrent requests pay a  *)
(* fixed amount once per wallet and up to a number of drops per day, with  *)
(* markers in blob storage as the only shared state.  Every await of       *)
(* `drip` ends an action; storage and RPC calls fail, a write may happen   *)
(* although its call failed, and a request may be killed at any await.     *)
(***************************************************************************)
EXTENDS Integers, FiniteSets

CONSTANTS
  Requests, RequestedBy,       \* requests, and the wallet each one names
  AMOUNT, RESERVE, TX_FEE,     \* lamports
  MAX_DROPS_PER_DAY,
  FAUCET_BALANCE,              \* what the faucet's key holds at first
  MAX_DAY                      \* bound

VARIABLES
  drip,          \* of each request: where it is, the day it put itself on, the day of
                 \* its second count, and its answer
  walletMarker,  \* wallets with a marker
  dayMarkers,    \* pairs of a day and a wallet
  tx,            \* the transfer of each request: none, out, paid, failed, expired
  balance,       \* of the faucet's key
  today,
  spoiled        \* wallets for which storage failed or a request was killed (history)

faucetVars == <<drip, walletMarker, dayMarkers, tx, balance, today, spoiled>>
stores == <<walletMarker, dayMarkers, spoiled>>
chain  == <<tx, balance>>

FaucetInit ==
  /\ drip = [r \in Requests |-> [pc |-> "idle", marked |-> 0, counted |-> 0, answer |-> 0]]
  /\ walletMarker = {} /\ dayMarkers = {} /\ spoiled = {}
  /\ tx = [r \in Requests |-> "none"]
  /\ balance = FAUCET_BALANCE
  /\ today = 1

Refusal(r)       == IF drip[r].answer = 0 THEN 502 ELSE drip[r].answer
At(r, pc)        == drip[r].pc = pc
GoesTo(r, pc)    == drip' = [drip EXCEPT ![r].pc = pc]
Answers(r, code) == drip' = [drip EXCEPT ![r].pc = "done", ![r].answer = code]
Spoils(r)        == spoiled' = spoiled \cup {RequestedBy[r]}
CountToday       == Cardinality({ m \in dayMarkers : m[1] = today })
Running(r)       == drip[r].pc \notin {"idle", "done"}

\* Not devnet, not configured, over the rate limit, no valid address; or on to the checks.
Arrives(r) ==
  /\ At(r, "idle")
  /\ GoesTo(r, "balance") \/ \E code \in {404, 429, 400} : Answers(r, code)
  /\ UNCHANGED <<stores, chain, today>>

ChecksBalance(r) ==
  /\ At(r, "balance")
  /\ \/ Answers(r, 500)
     \/ balance < AMOUNT + RESERVE /\ Answers(r, 503)
     \/ balance >= AMOUNT + RESERVE /\ GoesTo(r, "count")
  /\ UNCHANGED <<stores, chain, today>>

CountsFirst(r) ==
  /\ At(r, "count")
  /\ \/ Answers(r, 500)
     \/ CountToday >= MAX_DROPS_PER_DAY /\ Answers(r, 503)
     \/ CountToday < MAX_DROPS_PER_DAY /\ GoesTo(r, "claim")
  /\ UNCHANGED <<stores, chain, today>>

\* The wallet's marker is put only if there is none; the day is read when that is done.
Claims(r) ==
  /\ At(r, "claim")
  /\ \/ /\ RequestedBy[r] \notin walletMarker
        /\ walletMarker' = walletMarker \cup {RequestedBy[r]}
        /\ \/ drip' = [drip EXCEPT ![r].pc = "mark", ![r].marked = today] /\ UNCHANGED spoiled
           \/ GoesTo(r, "head") /\ Spoils(r)          \* put, but the answer is lost
     \/ GoesTo(r, "head") /\ UNCHANGED <<walletMarker, spoiled>>    \* it exists, or the put failed
  /\ UNCHANGED <<dayMarkers, chain, today>>

Heads(r) ==
  /\ At(r, "head")
  /\ \/ RequestedBy[r] \in walletMarker /\ Answers(r, 409)
     \/ Answers(r, 500)                               \* no marker, or head failed
  /\ UNCHANGED <<stores, chain, today>>

MarksDay(r) ==
  LET marked == dayMarkers \cup {<<drip[r].marked, RequestedBy[r]>>}
  IN  /\ At(r, "mark")
      /\ \/ GoesTo(r, "recount") /\ dayMarkers' = marked /\ UNCHANGED spoiled
         \/ Answers(r, 500) /\ dayMarkers' \in {marked, dayMarkers} /\ Spoils(r)
      /\ UNCHANGED <<walletMarker, chain, today>>

\* (faulty: the day is not counted again after the marker is put)
TrustsFirstCount(r) ==
  /\ At(r, "recount")
  /\ drip' = [drip EXCEPT ![r].pc = "send", ![r].counted = today]
  /\ UNCHANGED <<stores, chain, today>>

Recounts(r) ==
  /\ At(r, "recount")
  /\ \/ Answers(r, 500) /\ Spoils(r)
     \/ /\ CountToday > MAX_DROPS_PER_DAY
        /\ drip' = [drip EXCEPT ![r].counted = today, ![r].pc = "release", ![r].answer = 503]
        /\ UNCHANGED spoiled
     \/ /\ CountToday <= MAX_DROPS_PER_DAY
        /\ drip' = [drip EXCEPT ![r].counted = today, ![r].pc = "send"]
        /\ UNCHANGED spoiled
  /\ UNCHANGED <<walletMarker, dayMarkers, chain, today>>

\* (faulty: the wallet's marker is left behind)
ReleasesDayOnly(r) ==
  /\ At(r, "release") /\ Answers(r, Refusal(r))
  /\ dayMarkers' = dayMarkers \ {<<drip[r].marked, RequestedBy[r]>>}
  /\ UNCHANGED <<walletMarker, spoiled, chain, today>>

\* 503 over the cap, 502 for a failed send.  A failed deletion is logged only.
Releases(r) ==
  /\ At(r, "release") /\ Answers(r, Refusal(r))
  /\ \/ /\ walletMarker' = walletMarker \ {RequestedBy[r]}
        /\ dayMarkers' = dayMarkers \ {<<drip[r].marked, RequestedBy[r]>>}
        /\ UNCHANGED spoiled
     \/ Spoils(r) /\ UNCHANGED <<walletMarker, dayMarkers>>
  /\ UNCHANGED <<chain, today>>

\* No blockhash, or the node refuses the transaction: release.  It accepts it: confirm.
\* Any other failure: the transaction may be out, so the claim stays.
Sends(r) ==
  /\ At(r, "send")
  /\ \/ GoesTo(r, "release") /\ UNCHANGED tx
     \/ GoesTo(r, "confirm") /\ tx' = [tx EXCEPT ![r] = "out"]
     \/ Answers(r, 504) /\ (UNCHANGED tx \/ tx' = [tx EXCEPT ![r] = "out"])
  /\ UNCHANGED <<stores, balance, today>>

Confirms(r) ==
  /\ At(r, "confirm")
  /\ \/ tx[r] = "paid" /\ GoesTo(r, "record")
     \/ tx[r] = "failed" /\ GoesTo(r, "release")
     \/ Answers(r, 504)
  /\ UNCHANGED <<stores, chain, today>>

\* The marker's content becomes "sent"; a failure is logged only.
Records(r) ==
  /\ At(r, "record") /\ Answers(r, 200)
  /\ \/ walletMarker' = walletMarker \cup {RequestedBy[r]}
     \/ UNCHANGED walletMarker
  /\ UNCHANGED <<dayMarkers, spoiled, chain, today>>

Killed(r) ==
  /\ Running(r) /\ Answers(r, 0) /\ Spoils(r)
  /\ UNCHANGED <<walletMarker, dayMarkers, chain, today>>

\* The chain executes a transfer, fails it for lack of funds, or never takes it.
Executes(r) ==
  /\ tx[r] = "out"
  /\ \/ /\ balance >= AMOUNT + TX_FEE
        /\ tx' = [tx EXCEPT ![r] = "paid"] /\ balance' = balance - AMOUNT - TX_FEE
     \/ /\ balance < AMOUNT + TX_FEE /\ balance >= TX_FEE
        /\ tx' = [tx EXCEPT ![r] = "failed"] /\ balance' = balance - TX_FEE
     \/ tx' = [tx EXCEPT ![r] = "expired"] /\ UNCHANGED balance
  /\ UNCHANGED <<drip, stores, today>>

Midnight ==
  /\ today < MAX_DAY /\ today' = today + 1
  /\ UNCHANGED <<drip, stores, chain>>

FaucetNext ==
  \/ Midnight
  \/ \E r \in Requests :
       \/ Arrives(r) \/ ChecksBalance(r) \/ CountsFirst(r) \/ Claims(r) \/ Heads(r)
       \/ MarksDay(r) \/ Recounts(r) \/ Releases(r) \/ Sends(r) \/ Confirms(r)
       \/ Records(r) \/ Killed(r) \/ Executes(r)

FaucetSpec == FaucetInit /\ [][FaucetNext]_faucetVars
-----------------------------------------------------------------------------
(* Properties *)

MayPay(r) == tx[r] \in {"out", "paid"}

\* A wallet is never paid twice, nor is a second transfer to it ever on its way, however
\* requests interleave and whatever fails (route.ts:175, :193-194).
OncePerWallet ==
  \A r, s \in Requests :
    MayPay(r) /\ MayPay(s) /\ RequestedBy[r] = RequestedBy[s] => r = s

\* The transfers that were put on a day and counted that day stay within its cap; one that
\* midnight separates from its count may come on top (route.ts:182, countToday reads today()).
CapPerDay ==
  \A d \in 1..MAX_DAY :
    Cardinality({ r \in Requests : MayPay(r) /\ drip[r].marked = d /\ drip[r].counted = d })
      <= MAX_DROPS_PER_DAY

\* What the faucet gives away is limited, per wallet and per day.
DropsAreLimited == OncePerWallet /\ CapPerDay

\* A wallet that is turned away for good has been sent something, or may have been, unless
\* storage failed: a definite failure lets it try again (route.ts:193).
LockedOutOnlyIfSent ==
  \A w \in walletMarker \ spoiled :
    \E r \in Requests :
      RequestedBy[r] = w /\ (Running(r) \/ MayPay(r) \/ drip[r].answer = 504)
=============================================================================
