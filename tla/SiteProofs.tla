----------------------------- MODULE SiteProofs ------------------------------
(***************************************************************************)
(* What the site's routes promise (Site), for any number of requests,      *)
(* wallets, instances and failures, in any order.                          *)
(***************************************************************************)
EXTENDS Site, FiniteSetTheorems, FunctionTheorems, SequenceTheorems, WellFoundedInduction, TLAPS

-----------------------------------------------------------------------------
(* The heartbeat *)

NoBeat == TheHeartbeat!NoBeat

\* Every time that an instance or the blob knows is one at which a runner reported.
BeatsOK ==
  /\ cached \in [Servers -> beats \cup {NoBeat}]
  /\ writing \subseteq beats /\ blob \in beats \cup {NoBeat}
  /\ heartbeatTime \in Nat /\ \A b \in beats : b \in 0..heartbeatTime

BeatsInv == BeatsOK /\ OnlineIsTrue

LEMMA BeatsInit ==
  ASSUME SiteInit
  PROVE  BeatsInv
BY DEF SiteInit, TheHeartbeat!HeartbeatInit, BeatsInv, BeatsOK, NoBeat, TheHeartbeat!NoBeat,
       OnlineIsTrue, TheHeartbeat!OnlineIsTrue

LEMMA BeatsStep ==
  ASSUME BeatsInv, [SiteNext]_siteVars
  PROVE  BeatsInv'
<1> USE DEF BeatsInv, BeatsOK, NoBeat, TheHeartbeat!NoBeat, OnlineIsTrue, TheHeartbeat!OnlineIsTrue
<1> ONLINE_WITHIN \in Nat
  BY SiteAssumption
<1>1. CASE UNCHANGED heartbeatVars
  BY <1>1 DEF heartbeatVars
<1>2. CASE TheHeartbeat!TimePasses
  BY <1>2 DEF TheHeartbeat!TimePasses
<1>3. CASE TheHeartbeat!GetFails
  BY <1>3 DEF TheHeartbeat!GetFails
<1>4. ASSUME NEW s \in Servers, TheHeartbeat!Posts(s) PROVE BeatsInv'
  BY <1>4 DEF TheHeartbeat!Posts
<1>5. ASSUME NEW s \in Servers, TheHeartbeat!Gets(s) PROVE BeatsInv'
  <2>1. PICK beat \in IF cached[s] # NoBeat THEN {cached[s]} ELSE {blob, NoBeat} :
          pill' = [shows |-> IF TheHeartbeat!Online(beat) THEN "online" ELSE "offline",
                   at |-> heartbeatTime]
    BY <1>5 DEF TheHeartbeat!Gets
  <2>2. beat \in beats \cup {NoBeat}
    OBVIOUS
  <2>3. pill'.shows = "online" => beat \in beats /\ heartbeatTime - beat < ONLINE_WITHIN
    BY <2>1, <2>2 DEF TheHeartbeat!Online
  <2>4. pill'.at = heartbeatTime
    BY <2>1
  <2> QED BY <1>5, <2>3, <2>4 DEF TheHeartbeat!Gets
<1>6. ASSUME NEW s \in Servers, TheHeartbeat!Recycled(s) PROVE BeatsInv'
  BY <1>6 DEF TheHeartbeat!Recycled
<1>7. ASSUME NEW at \in writing, TheHeartbeat!Writes(at) PROVE BeatsInv'
  BY <1>7 DEF TheHeartbeat!Writes
<1> QED
  BY <1>1, <1>2, <1>3, <1>4, <1>5, <1>6, <1>7 DEF SiteNext, TheHeartbeat!HeartbeatNext, siteVars

\* "Agents online" is only said of a runner that did report in the last five minutes,
\* whichever instance answers and however late an old report reaches the blob
\* (heartbeat/route.ts, AgentsOnline.tsx:21).
THEOREM OnlineClaimIsTrue == SiteSpec => []OnlineIsTrue
<1>1. BeatsInv => OnlineIsTrue
  BY DEF BeatsInv
<1> QED BY BeatsInit, BeatsStep, <1>1, PTL DEF SiteSpec

-----------------------------------------------------------------------------
(* The waitlist's snapshots *)

Stored(e)     == \E f \in files : f.entry = e
Unreadable(e) == TheWaitlist!Unreadable(e)

JobType ==
  [pc : {"idle", "list", "download", "done", "failed"}, kind : {"none", "export", "snapshot"},
   listed : SUBSET files, loaded : SUBSET TheWaitlist!Entries, fails : Nat]

JobsOK ==
  /\ job \in [Jobs -> JobType]
  /\ seen = [j \in Jobs |-> seen[j]]
  /\ \A s \in snapshots : s.by \in Jobs /\ job[s.by].pc # "idle"

\* What was stored when a job began still is; once the job has its list, an entry has been
\* loaded, is still to be loaded, or cannot be read.
LoadOK(j) ==
  \A e \in seen[j].stored :
    /\ job[j].pc # "idle" => Stored(e)
    /\ job[j].pc = "download" =>
         e \in job[j].loaded \/ (\E f \in job[j].listed : f.entry = e) \/ Unreadable(e)

LoadsInv == JobsOK /\ (\A j \in Jobs : LoadOK(j)) /\ SnapshotsAreComplete

LEMMA LoadsInit ==
  ASSUME SiteInit
  PROVE  LoadsInv
BY DEF SiteInit, TheWaitlist!WaitlistInit, LoadsInv, JobsOK, JobType, LoadOK,
       SnapshotsAreComplete, TheWaitlist!SnapshotsAreComplete

\* Nothing but the files changes, and they only grow.
LEMMA FilesGrow ==
  ASSUME LoadsInv, files \subseteq files', UNCHANGED <<job, snapshots, seen>>
  PROVE  LoadsInv'
<1>1. TheWaitlist!Entries \subseteq TheWaitlist!Entries'
  BY DEF TheWaitlist!Entries
<1>2. JobsOK'
  BY <1>1 DEF LoadsInv, JobsOK, JobType
<1>3. \A e : (Stored(e) => Stored(e)') /\ (Unreadable(e) => Unreadable(e)')
  BY DEF Stored, Unreadable, TheWaitlist!Unreadable
<1>4. \A j \in Jobs : LoadOK(j)'
  BY <1>3 DEF LoadsInv, LoadOK
<1>5. SnapshotsAreComplete'
  BY <1>3 DEF LoadsInv, SnapshotsAreComplete, TheWaitlist!SnapshotsAreComplete, Unreadable,
         TheWaitlist!Unreadable
<1> QED BY <1>2, <1>4, <1>5 DEF LoadsInv

\* A job j takes a step on the same files.
LEMMA JobSteps ==
  ASSUME LoadsInv, UNCHANGED files, NEW j \in Jobs,
         JobsOK', LoadOK(j)',
         \A k \in Jobs : k # j => job'[k] = job[k] /\ seen'[k] = seen[k],
         job[j].pc = "idle" \/ seen'[j] = seen[j],
         \A s \in snapshots' \ snapshots :
           \A e \in seen'[s.by].stored : e \in s.entries \/ Unreadable(e)
  PROVE  LoadsInv'
<1>1. ASSUME NEW k \in Jobs PROVE LoadOK(k)'
  BY <1>1 DEF LoadsInv, LoadOK, Stored, Unreadable, TheWaitlist!Unreadable
<1>2. ASSUME NEW s \in snapshots PROVE seen'[s.by] = seen[s.by]
  BY <1>2 DEF LoadsInv, JobsOK
<1>3. SnapshotsAreComplete'
  BY <1>2 DEF LoadsInv, SnapshotsAreComplete, TheWaitlist!SnapshotsAreComplete, Unreadable,
         TheWaitlist!Unreadable
<1> QED BY <1>1, <1>3 DEF LoadsInv

LEMMA LoadsStep ==
  ASSUME LoadsInv, [SiteNext]_siteVars
  PROVE  LoadsInv'
<1>1. CASE UNCHANGED waitlistVars
  BY <1>1, FilesGrow DEF waitlistVars
<1>2. CASE TheWaitlist!TimePasses
  BY <1>2, FilesGrow DEF TheWaitlist!TimePasses
<1>3. ASSUME NEW r \in Submissions,
             TheWaitlist!Submits(r) \/ TheWaitlist!PutsFirst(r) \/ TheWaitlist!HeadsFirst(r)
               \/ TheWaitlist!PutsLater(r)
      PROVE  LoadsInv'
  <2>1. files \subseteq files' /\ UNCHANGED <<job, snapshots, seen>>
    BY <1>3 DEF TheWaitlist!Submits, TheWaitlist!PutsFirst, TheWaitlist!HeadsFirst,
                TheWaitlist!PutsLater, TheWaitlist!Stores
  <2> QED BY <2>1, FilesGrow
<1>4. ASSUME NEW j \in Jobs, TheWaitlist!Begins(j) PROVE LoadsInv'
  <2> USE <1>4 DEF TheWaitlist!Begins
  <2>1. JobsOK'
    <3>1. PICK kind \in {"export", "snapshot"} :
            job' = [job EXCEPT ![j].pc = "list", ![j].kind = kind]
      OBVIOUS
    <3>2. [job[j] EXCEPT !.pc = "list", !.kind = kind] \in JobType
      BY DEF LoadsInv, JobsOK, JobType
    <3>3. job' = [job EXCEPT ![j] = [job[j] EXCEPT !.pc = "list", !.kind = kind]]
      BY <3>1 DEF LoadsInv, JobsOK
    <3>4. job' \in [Jobs -> JobType]
      BY <3>2, <3>3 DEF LoadsInv, JobsOK
    <3>5. \A k \in Jobs : job'[k].pc # "idle" \/ job'[k] = job[k]
      BY <3>3 DEF LoadsInv, JobsOK, JobType
    <3>6. seen' = [k \in Jobs |-> seen'[k]]
      BY DEF LoadsInv, JobsOK
    <3> QED BY <3>4, <3>5, <3>6 DEF LoadsInv, JobsOK, JobType, TheWaitlist!Entries
  <2>2. LoadOK(j)'
    BY DEF LoadsInv, JobsOK, JobType, LoadOK, Stored, TheWaitlist!Entries
  <2> QED BY <2>1, <2>2, JobSteps DEF LoadsInv, JobsOK
<1>5. ASSUME NEW j \in Jobs, TheWaitlist!Lists(j) PROVE LoadsInv'
  <2> USE <1>5 DEF TheWaitlist!Lists, TheWaitlist!JobMoves
  <2>1. JobsOK'
    BY DEF LoadsInv, JobsOK, JobType, TheWaitlist!Entries
  <2>2. LoadOK(j)'
    BY DEF LoadsInv, JobsOK, JobType, LoadOK, Stored, Unreadable, TheWaitlist!Unreadable
  <2> QED BY <2>1, <2>2, JobSteps DEF LoadsInv, JobsOK
<1>6. ASSUME NEW j \in Jobs, TheWaitlist!Downloads(j) PROVE LoadsInv'
  <2> USE <1>6 DEF TheWaitlist!Downloads
  <2>1. JobsOK'
    BY DEF LoadsInv, JobsOK, JobType, TheWaitlist!Entries
  <2>2. LoadOK(j)'
    BY DEF LoadsInv, JobsOK, JobType, LoadOK, Stored, Unreadable, TheWaitlist!Unreadable
  <2> QED BY <2>1, <2>2, JobSteps DEF LoadsInv, JobsOK
<1>7. ASSUME NEW j \in Jobs, TheWaitlist!WritesSnapshot(j) PROVE LoadsInv'
  <2> USE <1>7 DEF TheWaitlist!WritesSnapshot, TheWaitlist!JobMoves
  <2>1. JobsOK'
    BY DEF LoadsInv, JobsOK, JobType, TheWaitlist!Entries
  <2>2. LoadOK(j)'
    BY DEF LoadsInv, JobsOK, JobType, LoadOK, Stored, Unreadable, TheWaitlist!Unreadable
  <2>3. \A s \in snapshots' \ snapshots :
          \A e \in seen'[s.by].stored : e \in s.entries \/ Unreadable(e)
    BY DEF LoadsInv, JobsOK, JobType, LoadOK, Unreadable, TheWaitlist!Unreadable
  <2> QED BY <2>1, <2>2, <2>3, JobSteps DEF LoadsInv, JobsOK
<1>8. ASSUME NEW j \in Jobs, TheWaitlist!Exports(j) PROVE LoadsInv'
  <2> USE <1>8 DEF TheWaitlist!Exports, TheWaitlist!JobMoves
  <2>1. JobsOK'
    BY DEF LoadsInv, JobsOK, JobType, TheWaitlist!Entries
  <2>2. LoadOK(j)'
    BY DEF LoadsInv, JobsOK, JobType, LoadOK, Stored, Unreadable, TheWaitlist!Unreadable
  <2> QED BY <2>1, <2>2, JobSteps DEF LoadsInv, JobsOK
<1> QED
  BY <1>1, <1>2, <1>3, <1>4, <1>5, <1>6, <1>7, <1>8
  DEF SiteNext, TheWaitlist!WaitlistNext, siteVars

\* Every snapshot of the waitlist holds every readable entry that was stored when its job
\* began, however many submissions run beside it and downloads fail
\* (waitlistStore.ts:120-121, waitlist/backup/route.ts).
THEOREM NoSnapshotIsPartial == SiteSpec => []SnapshotsAreComplete
<1>1. LoadsInv => SnapshotsAreComplete
  BY DEF LoadsInv
<1> QED BY LoadsInit, LoadsStep, <1>1, PTL DEF SiteSpec

-----------------------------------------------------------------------------
(* The faucet *)

DripPc == {"idle", "balance", "count", "claim", "head", "mark", "recount", "send", "confirm",
           "release", "record", "done"}
DripType == [pc : DripPc, marked : Nat, counted : Nat, answer : Nat]

TxType == {"none", "out", "paid", "failed", "expired"}

FaucetOK ==
  /\ drip \in [Drips -> DripType] /\ tx \in [Drips -> TxType]
  /\ today \in Nat /\ IsFiniteSet(dayMarkers)

At(r, pcs) == drip[r].pc \in pcs
MayPay(r)  == TheFaucet!MayPay(r)

\* A request holds its wallet's marker from its claim to its end, and for as long as its
\* transfer may pay.
Holder(r) == At(r, {"mark", "recount", "send", "confirm", "release", "record"}) \/ MayPay(r)

\* It is on its day from the marker of the day on, and counted there once it may send.
OnDay(r)     == At(r, {"recount", "send", "confirm", "record"}) \/ MayPay(r)
Placed(r, d) ==
  (At(r, {"send", "confirm", "record"}) \/ MayPay(r)) /\ drip[r].marked = d /\ drip[r].counted = d

\* Where its transfer is follows from where the request is; one that ended with its
\* transfer out said so, or spoiled its wallet.
TxOK(r) ==
  /\ At(r, {"idle", "balance", "count", "claim", "head", "mark", "recount", "send"}) =>
       tx[r] = "none"
  /\ At(r, {"release"}) => tx[r] \in {"none", "failed"}
  /\ At(r, {"confirm"}) => tx[r] # "none"
  /\ At(r, {"record"}) => tx[r] = "paid"
  /\ drip[r].answer = 504 => At(r, {"done"})
  /\ At(r, {"done"}) /\ tx[r] = "out" => drip[r].answer = 504 \/ RequestedBy[r] \in spoiled

\* The marker of its wallet, and of its day, are there.
MarkersOK(r) ==
  /\ Holder(r) => RequestedBy[r] \in walletMarker
  /\ OnDay(r) => <<drip[r].marked, RequestedBy[r]>> \in dayMarkers

OneHolder ==
  \A r, s \in Drips : Holder(r) /\ Holder(s) /\ RequestedBy[r] = RequestedBy[s] => r = s

\* Who a marker stands for: its holder, or one that could not tell.
StandsFor(r, w) == RequestedBy[r] = w /\ (Holder(r) \/ drip[r].answer = 504)
Owned(w)        == \E r \in Drips : StandsFor(r, w)

PlacedOn(d) == { r \in Drips : Placed(r, d) }
MarkedOn(d) == { m \in dayMarkers : m[1] = d }
CapOK == \A d \in Nat : Cardinality(PlacedOn(d)) <= MAX_DROPS_PER_DAY

DropsInv ==
  /\ FaucetOK /\ OneHolder /\ CapOK
  /\ \A r \in Drips : TxOK(r) /\ MarkersOK(r)
  /\ \A w \in walletMarker \ spoiled : Owned(w)

\* The requests placed on a day are of different wallets, each with a marker of the day.
AllApart == FaucetOK /\ OneHolder /\ \A r \in Drips : MarkersOK(r)

PlacedByMarkers ==
  \A d \in Nat :
    /\ IsFiniteSet(PlacedOn(d))
    /\ Cardinality(PlacedOn(d)) <= Cardinality(MarkedOn(d))
    /\ Cardinality(PlacedOn(d)) \in Nat /\ Cardinality(MarkedOn(d)) \in Nat

LEMMA DropsApart == AllApart => PlacedByMarkers
<1> SUFFICES ASSUME AllApart, NEW d \in Nat
             PROVE  /\ IsFiniteSet(PlacedOn(d))
                    /\ Cardinality(PlacedOn(d)) <= Cardinality(MarkedOn(d))
                    /\ Cardinality(PlacedOn(d)) \in Nat /\ Cardinality(MarkedOn(d)) \in Nat
  BY DEF PlacedByMarkers
<1> DEFINE f == [r \in PlacedOn(d) |-> <<d, RequestedBy[r]>>]
<1>1. IsFiniteSet(MarkedOn(d))
  BY FS_Subset DEF AllApart, FaucetOK, MarkedOn
<1>2. \A r \in PlacedOn(d) : r \in Drips /\ Holder(r) /\ OnDay(r) /\ drip[r].marked = d
  BY DEF PlacedOn, Placed, Holder, OnDay, At
<1>3. \A r \in PlacedOn(d) : f[r] \in MarkedOn(d)
  BY <1>2 DEF AllApart, MarkersOK, MarkedOn
<1>4. \A r, s \in PlacedOn(d) : f[r] = f[s] => r = s
  BY <1>2 DEF AllApart, OneHolder
<1>5. f \in Injection(PlacedOn(d), MarkedOn(d))
  <2> HIDE DEF PlacedOn, MarkedOn
  <2> QED BY <1>3, <1>4 DEF Injection, IsInjective
<1> HIDE DEF f
<1>6. IsFiniteSet(PlacedOn(d)) /\ Cardinality(PlacedOn(d)) <= Cardinality(MarkedOn(d))
  BY <1>1, <1>5, FS_Injection
<1> QED BY <1>1, <1>6, FS_CardinalityType

LEMMA DropsStayApart == AllApart' => PlacedByMarkers'
BY DropsApart, PTL

\* What request r's steps do to the others: nothing, save that it may put and remove the
\* markers it holds.
Touches(r) ==
  /\ \A s \in Drips \ {r} : drip'[s] = drip[s] /\ tx'[s] = tx[s]
  /\ walletMarker' \in {walletMarker, walletMarker \cup {RequestedBy[r]},
                        walletMarker \ {RequestedBy[r]}}
  /\ LET own == <<drip[r].marked, RequestedBy[r]>>
     IN  dayMarkers' \in {dayMarkers, dayMarkers \cup {own}, dayMarkers \ {own}}
  /\ spoiled \subseteq spoiled'
  /\ ~(walletMarker \subseteq walletMarker' /\ dayMarkers \subseteq dayMarkers') =>
       Holder(r) /\ ~Holder(r)'

\* It becomes the holder only of a marker that was not there, and is placed on a day only
\* when the day's markers were within the cap.
Claiming(r) == Holder(r)' => Holder(r) \/ RequestedBy[r] \notin walletMarker
Placing(r) ==
  \A d \in Nat : Placed(r, d)' =>
    Placed(r, d) \/ (Cardinality(MarkedOn(d)) <= MAX_DROPS_PER_DAY /\ dayMarkers' = dayMarkers)

\* Its own marker is owned as before.
Owning(r) ==
  RequestedBy[r] \in walletMarker' \ spoiled' =>
    \/ StandsFor(r, RequestedBy[r])'
    \/ RequestedBy[r] \in walletMarker \ spoiled /\ ~StandsFor(r, RequestedBy[r])

LEMMA DripSteps ==
  ASSUME DropsInv, NEW r \in Drips, FaucetOK', TxOK(r)', MarkersOK(r)',
         Touches(r), Claiming(r), Placing(r), Owning(r)
  PROVE  DropsInv'
<1>1. ASSUME NEW s \in Drips, s # r
      PROVE  /\ (Holder(s)' <=> Holder(s)) /\ (OnDay(s)' <=> OnDay(s))
             /\ \A d \in Nat : Placed(s, d)' <=> Placed(s, d)
             /\ \A w : StandsFor(s, w)' <=> StandsFor(s, w)
  BY <1>1 DEF Touches, Holder, OnDay, Placed, StandsFor, At, MayPay, TheFaucet!MayPay
<1>2. ASSUME NEW s \in Drips, s # r PROVE TxOK(s)'
  BY <1>2 DEF DropsInv, TxOK, Touches, At
<1>3. ASSUME NEW s \in Drips, s # r, Holder(s) PROVE ~Holder(r) \/ RequestedBy[r] # RequestedBy[s]
  BY <1>3 DEF DropsInv, OneHolder
<1>4. ASSUME NEW s \in Drips, s # r PROVE MarkersOK(s)'
  <2>1. OnDay(s) => Holder(s)
    BY DEF OnDay, Holder, At
  <2>2. Holder(s) => RequestedBy[s] \in walletMarker'
    BY <1>3, <1>4 DEF DropsInv, MarkersOK, Touches
  <2>3. OnDay(s) => <<drip[s].marked, RequestedBy[s]>> \in dayMarkers'
    BY <1>3, <1>4, <2>1 DEF DropsInv, MarkersOK, Touches
  <2> QED BY <1>1, <1>4, <2>2, <2>3 DEF MarkersOK, Touches
<1>5. OneHolder'
  <2> SUFFICES ASSUME NEW s \in Drips, s # r, Holder(r)', Holder(s)',
                      RequestedBy[r] = RequestedBy[s]
               PROVE  FALSE
    BY <1>1 DEF OneHolder, DropsInv
  <2>1. Holder(s) /\ RequestedBy[r] \in walletMarker
    BY <1>1 DEF DropsInv, MarkersOK
  <2> QED BY <1>3, <2>1 DEF Claiming
<1>6. \A w \in walletMarker' \ spoiled' : Owned(w)'
  <2> SUFFICES ASSUME NEW w \in walletMarker' \ spoiled' PROVE \E s \in Drips : StandsFor(s, w)'
    BY DEF Owned
  <2>1. CASE w = RequestedBy[r] /\ StandsFor(r, w)'
    BY <2>1
  <2>2. CASE w # RequestedBy[r] \/ (w \in walletMarker \ spoiled /\ ~StandsFor(r, w))
    <3>1. w \in walletMarker \ spoiled
      BY <2>2 DEF Touches
    <3>2. PICK s \in Drips : StandsFor(s, w)
      BY <3>1 DEF DropsInv, Owned
    <3>3. s # r
      BY <2>2, <3>2 DEF StandsFor
    <3> QED BY <1>1, <3>2, <3>3
  <2> QED BY <2>1, <2>2 DEF Owning
<1>7. CapOK'
  <2> SUFFICES ASSUME NEW d \in Nat
               PROVE  Cardinality(PlacedOn(d)') <= MAX_DROPS_PER_DAY
    BY DEF CapOK
  <2>0. MAX_DROPS_PER_DAY \in Nat
    BY SiteAssumption
  <2>1. \A s \in Drips : MarkersOK(s)'
    BY <1>4
  <2>2. /\ Cardinality(PlacedOn(d)') <= Cardinality(MarkedOn(d)')
        /\ Cardinality(PlacedOn(d)') \in Nat /\ Cardinality(MarkedOn(d)') \in Nat
    <3>1. AllApart'
      BY <1>5, <2>1 DEF AllApart
    <3> QED BY <3>1, DropsStayApart DEF PlacedByMarkers
  <2>3. CASE Placed(r, d)' => Placed(r, d)
    <3>1. PlacedOn(d)' \subseteq PlacedOn(d)
      BY <1>1, <2>3 DEF PlacedOn
    <3>2. IsFiniteSet(PlacedOn(d)) /\ Cardinality(PlacedOn(d)) \in Nat
      BY DropsApart DEF DropsInv, AllApart, PlacedByMarkers
    <3>3. Cardinality(PlacedOn(d)') <= Cardinality(PlacedOn(d))
      BY <3>1, <3>2, FS_Subset
    <3> QED BY <2>0, <2>2, <3>2, <3>3 DEF DropsInv, CapOK
  <2>4. CASE Cardinality(MarkedOn(d)) <= MAX_DROPS_PER_DAY /\ dayMarkers' = dayMarkers
    <3>1. MarkedOn(d)' = MarkedOn(d)
      BY <2>4 DEF MarkedOn
    <3> QED BY <2>0, <2>2, <2>4, <3>1
  <2> QED BY <2>3, <2>4 DEF Placing
<1> QED BY <1>2, <1>4, <1>5, <1>6, <1>7 DEF DropsInv

\* A request goes somewhere, with an answer; the days of its record are set on the way.
DripMoves(r, pc, answer) ==
  /\ drip' \in [Drips -> DripType] /\ \A s \in Drips \ {r} : drip'[s] = drip[s]
  /\ drip'[r].pc = pc /\ drip'[r].answer = answer

TxMoves(r, t) ==
  /\ tx' \in [Drips -> TxType] /\ \A s \in Drips \ {r} : tx'[s] = tx[s]
  /\ tx'[r] = t

SameDays(r) == drip'[r].marked = drip[r].marked /\ drip'[r].counted = drip[r].counted

LEMMA DripSet ==
  ASSUME FaucetOK, NEW r \in Drips, NEW d \in DripType, drip' = [drip EXCEPT ![r] = d]
  PROVE  /\ drip' \in [Drips -> DripType] /\ \A s \in Drips \ {r} : drip'[s] = drip[s]
         /\ drip'[r] = d /\ drip[r] \in DripType
BY DEF FaucetOK

LEMMA TxSet ==
  ASSUME FaucetOK, NEW r \in Drips, NEW t \in TxType, tx' = [tx EXCEPT ![r] = t]
  PROVE  TxMoves(r, t)
BY DEF FaucetOK, TxMoves

LEMMA TxStays ==
  ASSUME FaucetOK, NEW r \in Drips, tx' = tx
  PROVE  TxMoves(r, tx[r]) /\ tx[r] \in TxType
BY DEF FaucetOK, TxMoves

LEMMA DripGoes ==
  ASSUME FaucetOK, NEW r \in Drips, NEW pc \in DripPc, TheFaucet!GoesTo(r, pc)
  PROVE  DripMoves(r, pc, drip[r].answer) /\ SameDays(r)
BY DEF FaucetOK, DripType, TheFaucet!GoesTo, DripMoves, SameDays

LEMMA DripAnswers ==
  ASSUME FaucetOK, NEW r \in Drips, NEW code \in Nat, TheFaucet!Answers(r, code)
  PROVE  DripMoves(r, "done", code) /\ SameDays(r)
<1>1. drip' = [drip EXCEPT ![r] = [drip[r] EXCEPT !.pc = "done", !.answer = code]]
  BY DEF FaucetOK, TheFaucet!Answers
<1>2. [drip[r] EXCEPT !.pc = "done", !.answer = code] \in DripType
  BY DEF FaucetOK, DripType, DripPc
<1>3. drip'[r] = [drip[r] EXCEPT !.pc = "done", !.answer = code] /\ drip[r] \in DripType
  BY <1>1, <1>2, DripSet
<1> QED BY <1>1, <1>2, <1>3, DripSet DEF DripType, DripMoves, SameDays

\* What is left to show of each step of a request.
DripStep(r) ==
  /\ drip' \in [Drips -> DripType] /\ tx' \in [Drips -> TxType]
  /\ TxOK(r)' /\ MarkersOK(r)' /\ Touches(r) /\ Claiming(r) /\ Placing(r) /\ Owning(r)
  /\ UNCHANGED today

LEMMA DripStepsKeep ==
  ASSUME DropsInv, NEW r \in Drips, DripStep(r)
  PROVE  DropsInv'
<1>1. IsFiniteSet(dayMarkers')
  BY FS_AddElement, FS_RemoveElement DEF DripStep, Touches, DropsInv, FaucetOK
<1> QED BY <1>1, DripSteps DEF DripStep, DropsInv, FaucetOK

\* A step before the claim, or that ends a request which never claimed.
LEMMA EarlyStep ==
  ASSUME DropsInv, NEW r \in Drips, NEW pc \in {"balance", "count", "claim", "head", "done"},
         NEW answer \in Nat \ {504},
         At(r, {"idle", "balance", "count", "claim", "head"}),
         DripMoves(r, pc, answer), SameDays(r),
         UNCHANGED <<walletMarker, dayMarkers, spoiled, tx, today>>
  PROVE  DripStep(r)
<1>0. FaucetOK /\ TxOK(r) /\ MarkersOK(r) /\ tx \in [Drips -> TxType]
  BY DEF DropsInv, FaucetOK
<1>1. TxOK(r)'
  BY <1>0 DEF TxOK, At, DripMoves
<1>2. MarkersOK(r)' /\ Claiming(r) /\ Placing(r)
  BY <1>0 DEF MarkersOK, Holder, OnDay, Claiming, Placing, Placed, At, MayPay,
     TheFaucet!MayPay, DripMoves, SameDays, TxOK
<1>3. Touches(r) /\ Owning(r)
  BY <1>0 DEF Touches, Owning, StandsFor, Holder, At, MayPay, TheFaucet!MayPay,
     DripMoves, TxOK
<1> QED BY <1>0, <1>1, <1>2, <1>3 DEF DripStep, DripMoves

\* A holder goes on, with its marker and its day's.
LEMMA HolderStep ==
  ASSUME DropsInv, NEW r \in Drips, NEW pc \in {"send", "confirm", "release", "record"},
         NEW answer \in Nat \ {504}, NEW t \in TxType,
         At(r, {"recount", "send", "confirm"}), pc = "send" => At(r, {"recount"}),
         pc = "confirm" => At(r, {"send"}),
         drip'[r].marked = drip[r].marked, drip'[r].counted \in {drip[r].counted, today},
         drip[r].pc # "recount" => drip'[r].counted = drip[r].counted,
         pc = "send" => /\ drip'[r].counted = today
                        /\ Cardinality(MarkedOn(today)) <= MAX_DROPS_PER_DAY,
         TxMoves(r, t), t = tx[r] \/ (pc = "confirm" /\ t = "out"),
         pc = "confirm" => t = "out", pc = "record" => t = "paid",
         pc = "release" => t \in {"none", "failed"},
         DripMoves(r, pc, answer),
         UNCHANGED <<walletMarker, dayMarkers, spoiled, today>>
  PROVE  DripStep(r)
<1>0. /\ FaucetOK /\ TxOK(r) /\ MarkersOK(r) /\ tx \in [Drips -> TxType] /\ tx' \in [Drips -> TxType]
      /\ tx'[r] = t /\ \A s \in Drips \ {r} : tx'[s] = tx[s]
      /\ At(r, {"recount", "send"}) => tx[r] = "none"
  BY DEF DropsInv, FaucetOK, TxOK, At, TxMoves
<1>1. TxOK(r)'
  BY <1>0 DEF TxOK, At, DripMoves
<1>2. MarkersOK(r)' /\ Claiming(r) /\ Placing(r)
  BY <1>0 DEF MarkersOK, Holder, OnDay, Claiming, Placing, Placed, At, MayPay,
     TheFaucet!MayPay, DripMoves, SameDays, TxOK
<1>3. Touches(r) /\ Owning(r)
  BY <1>0 DEF Touches, Owning, StandsFor, Holder, At, MayPay, TheFaucet!MayPay,
     DripMoves, TxOK
<1> QED BY <1>0, <1>1, <1>2, <1>3 DEF DripStep, DripMoves

\* A request ends and leaves the markers: it was paid, could not tell, or spoils its wallet.
LEMMA EndStep ==
  ASSUME DropsInv, NEW r \in Drips, NEW code \in Nat, NEW t \in TxType,
         DripMoves(r, "done", code), SameDays(r), TxMoves(r, t),
         t = tx[r] \/ (t = "out" /\ code = 504 /\ At(r, {"send"})),
         dayMarkers' \in {dayMarkers, dayMarkers \cup {<<drip[r].marked, RequestedBy[r]>>}},
         spoiled' \in {spoiled, spoiled \cup {RequestedBy[r]}},
         RequestedBy[r] \in spoiled' \/ code = 504 \/ t = "paid",
         UNCHANGED <<walletMarker, today>>
  PROVE  DripStep(r)
<1>0. /\ FaucetOK /\ TxOK(r) /\ MarkersOK(r) /\ tx \in [Drips -> TxType] /\ tx' \in [Drips -> TxType]
      /\ tx'[r] = t /\ \A s \in Drips \ {r} : tx'[s] = tx[s]
  BY DEF DropsInv, FaucetOK, TxMoves
<1>1. TxOK(r)'
  BY <1>0 DEF TxOK, At, DripMoves
<1>2. MarkersOK(r)' /\ Claiming(r) /\ Placing(r)
  BY <1>0 DEF MarkersOK, Holder, OnDay, Claiming, Placing, Placed, At, MayPay,
     TheFaucet!MayPay, DripMoves, SameDays, TxOK
<1>3. Touches(r) /\ Owning(r)
  BY <1>0 DEF Touches, Owning, StandsFor, Holder, At, MayPay, TheFaucet!MayPay,
     DripMoves, TxOK
<1> QED BY <1>0, <1>1, <1>2, <1>3 DEF DripStep, DripMoves

LEMMA ClaimStep ==
  ASSUME DropsInv, NEW r \in Drips, TheFaucet!Claims(r)
  PROVE  DripStep(r)
<1> USE DEF TheFaucet!stores, TheFaucet!chain, TheFaucet!Spoils
<1>0. /\ FaucetOK /\ TxOK(r) /\ MarkersOK(r) /\ tx \in [Drips -> TxType] /\ today \in Nat
      /\ At(r, {"claim"}) /\ drip[r] \in DripType /\ drip[r].answer # 504
      /\ UNCHANGED <<dayMarkers, tx, today>>
  BY DEF DropsInv, FaucetOK, TheFaucet!Claims, TheFaucet!At, At, TxOK
<1>1. CASE /\ drip' = [drip EXCEPT ![r].pc = "mark", ![r].marked = today]
           /\ RequestedBy[r] \notin walletMarker /\ UNCHANGED spoiled
           /\ walletMarker' = walletMarker \cup {RequestedBy[r]}
  <2>0. DripMoves(r, "mark", drip[r].answer)
    <3> DEFINE d == [drip[r] EXCEPT !.pc = "mark", !.marked = today]
    <3>1. drip' = [drip EXCEPT ![r] = d]
      BY <1>0, <1>1 DEF FaucetOK
    <3>2. d \in DripType /\ d.pc = "mark" /\ d.answer = drip[r].answer
      BY <1>0 DEF DripType, DripPc
    <3> HIDE DEF d
    <3>3. /\ drip' \in [Drips -> DripType] /\ \A s \in Drips \ {r} : drip'[s] = drip[s]
          /\ drip'[r] = d
      BY <1>0, <3>1, <3>2 DEF FaucetOK
    <3> QED BY <3>2, <3>3 DEF DripMoves
  <2>1. TxOK(r)'
    BY <1>0, <1>1, <2>0 DEF TxOK, At, DripMoves
  <2>2. MarkersOK(r)' /\ Claiming(r) /\ Placing(r)
    BY <1>0, <1>1, <2>0 DEF MarkersOK, Holder, OnDay, Claiming, Placing, Placed, At, MayPay,
       TheFaucet!MayPay, DripMoves, SameDays, TxOK
  <2>3. Touches(r) /\ Owning(r)
    BY <1>0, <1>1, <2>0 DEF Touches, Owning, StandsFor, Holder, At, MayPay, TheFaucet!MayPay,
       DripMoves, TxOK
  <2> QED BY <1>0, <1>1, <2>0, <2>1, <2>2, <2>3 DEF DripStep, DripMoves
<1>2. CASE /\ TheFaucet!GoesTo(r, "head") /\ RequestedBy[r] \notin walletMarker
           /\ spoiled' = spoiled \cup {RequestedBy[r]}
           /\ walletMarker' = walletMarker \cup {RequestedBy[r]}
  <2>0. DripMoves(r, "head", drip[r].answer) /\ SameDays(r)
    BY <1>0, <1>2, DripGoes DEF DripPc
  <2>1. TxOK(r)'
    BY <1>0, <1>2, <2>0 DEF TxOK, At, DripMoves
  <2>2. MarkersOK(r)' /\ Claiming(r) /\ Placing(r)
    BY <1>0, <1>2, <2>0 DEF MarkersOK, Holder, OnDay, Claiming, Placing, Placed, At, MayPay,
       TheFaucet!MayPay, DripMoves, SameDays, TxOK
  <2>3. Touches(r) /\ Owning(r)
    BY <1>0, <1>2, <2>0 DEF Touches, Owning, StandsFor, Holder, At, MayPay, TheFaucet!MayPay,
       DripMoves, TxOK
  <2> QED BY <1>0, <1>2, <2>0, <2>1, <2>2, <2>3 DEF DripStep, DripMoves
<1>3. CASE TheFaucet!GoesTo(r, "head") /\ UNCHANGED <<walletMarker, spoiled>>
  <2>1. DripMoves(r, "head", drip[r].answer) /\ SameDays(r)
    BY <1>0, <1>3, DripGoes DEF DripPc
  <2> QED BY <1>0, <1>3, <2>1, EarlyStep DEF At, DripType
<1> QED BY <1>1, <1>2, <1>3 DEF TheFaucet!Claims

LEMMA MarkStep ==
  ASSUME DropsInv, NEW r \in Drips, TheFaucet!MarksDay(r)
  PROVE  DripStep(r)
<1> USE DEF TheFaucet!stores, TheFaucet!chain, TheFaucet!Spoils
<1>0. /\ FaucetOK /\ TxOK(r) /\ MarkersOK(r) /\ tx \in [Drips -> TxType] /\ today \in Nat
      /\ At(r, {"mark"}) /\ drip[r] \in DripType /\ drip[r].answer # 504
      /\ UNCHANGED <<walletMarker, tx, today>>
  BY DEF DropsInv, FaucetOK, TheFaucet!MarksDay, TheFaucet!At, At, TxOK
<1>1. CASE /\ TheFaucet!GoesTo(r, "recount") /\ UNCHANGED spoiled
           /\ dayMarkers' = dayMarkers \cup {<<drip[r].marked, RequestedBy[r]>>}
  <2>0. DripMoves(r, "recount", drip[r].answer) /\ SameDays(r)
    BY <1>0, <1>1, DripGoes DEF DripPc
  <2>1. TxOK(r)'
    BY <1>0, <1>1, <2>0 DEF TxOK, At, DripMoves
  <2>2. MarkersOK(r)' /\ Claiming(r) /\ Placing(r)
    BY <1>0, <1>1, <2>0 DEF MarkersOK, Holder, OnDay, Claiming, Placing, Placed, At, MayPay,
       TheFaucet!MayPay, DripMoves, SameDays, TxOK
  <2>3. Touches(r) /\ Owning(r)
    BY <1>0, <1>1, <2>0 DEF Touches, Owning, StandsFor, Holder, At, MayPay, TheFaucet!MayPay,
       DripMoves, TxOK
  <2> QED BY <1>0, <1>1, <2>0, <2>1, <2>2, <2>3 DEF DripStep, DripMoves
<1>2. CASE /\ TheFaucet!Answers(r, 500) /\ spoiled' = spoiled \cup {RequestedBy[r]}
           /\ dayMarkers' \in {dayMarkers \cup {<<drip[r].marked, RequestedBy[r]>>}, dayMarkers}
  <2>1. PICK code \in Nat : DripMoves(r, "done", code) /\ SameDays(r)
    BY <1>0, <1>2, DripAnswers
  <2>2. TxMoves(r, tx[r]) /\ tx[r] \in TxType
    BY <1>0, TxStays
  <2>3. /\ dayMarkers' \in {dayMarkers, dayMarkers \cup {<<drip[r].marked, RequestedBy[r]>>}}
        /\ RequestedBy[r] \in spoiled'
    BY <1>2
  <2> HIDE DEF DripMoves
  <2> QED BY <1>0, <1>2, <2>1, <2>2, <2>3, EndStep
<1> QED BY <1>1, <1>2 DEF TheFaucet!MarksDay

LEMMA ReleaseStep ==
  ASSUME DropsInv, NEW r \in Drips, TheFaucet!Releases(r)
  PROVE  DripStep(r)
<1> USE DEF TheFaucet!stores, TheFaucet!chain, TheFaucet!Spoils
<1>0. /\ FaucetOK /\ TxOK(r) /\ MarkersOK(r) /\ tx \in [Drips -> TxType]
      /\ At(r, {"release"}) /\ drip[r] \in DripType /\ drip[r].answer # 504
      /\ UNCHANGED <<tx, today>>
  BY DEF DropsInv, FaucetOK, TheFaucet!Releases, TheFaucet!At, At, TxOK
<1>1. PICK code \in Nat \ {504} : DripMoves(r, "done", code) /\ SameDays(r)
  <2>1. TheFaucet!Refusal(r) \in Nat \ {504} /\ TheFaucet!Answers(r, TheFaucet!Refusal(r))
    BY <1>0 DEF TheFaucet!Releases, TheFaucet!Refusal, DripType
  <2> QED BY <1>0, <2>1, DripAnswers
<1>2. CASE /\ walletMarker' = walletMarker \ {RequestedBy[r]} /\ UNCHANGED spoiled
           /\ dayMarkers' = dayMarkers \ {<<drip[r].marked, RequestedBy[r]>>}
  <2>1. TxOK(r)'
    BY <1>0, <1>1, <1>2 DEF TxOK, At, DripMoves
  <2>2. MarkersOK(r)' /\ Claiming(r) /\ Placing(r)
    BY <1>0, <1>1, <1>2 DEF MarkersOK, Holder, OnDay, Claiming, Placing, Placed, At, MayPay,
       TheFaucet!MayPay, DripMoves, SameDays, TxOK
  <2>3. Touches(r) /\ Owning(r)
    BY <1>0, <1>1, <1>2 DEF Touches, Owning, StandsFor, Holder, At, MayPay, TheFaucet!MayPay,
       DripMoves, TxOK
  <2> QED BY <1>0, <1>1, <1>2, <2>1, <2>2, <2>3 DEF DripStep, DripMoves
<1>3. CASE spoiled' = spoiled \cup {RequestedBy[r]} /\ UNCHANGED <<walletMarker, dayMarkers>>
  <2>1. TxMoves(r, tx[r]) /\ tx[r] \in TxType
    BY <1>0, TxStays
  <2> QED BY <1>0, <1>1, <1>3, <2>1, EndStep
<1> QED BY <1>2, <1>3 DEF TheFaucet!Releases

LEMMA ExecuteStep ==
  ASSUME DropsInv, NEW r \in Drips, TheFaucet!Executes(r)
  PROVE  DripStep(r)
<1> USE DEF TheFaucet!stores
<1>0. /\ FaucetOK /\ TxOK(r) /\ MarkersOK(r) /\ tx \in [Drips -> TxType] /\ drip' = drip
      /\ drip \in [Drips -> DripType] /\ tx[r] = "out" /\ drip[r].pc \in DripPc
      /\ UNCHANGED <<walletMarker, dayMarkers, spoiled, today>>
  BY DEF DropsInv, FaucetOK, TheFaucet!Executes, DripType
<1>1. PICK t \in {"paid", "failed", "expired"} : tx' = [tx EXCEPT ![r] = t]
  BY DEF TheFaucet!Executes
<1>2. /\ tx' \in [Drips -> TxType] /\ tx'[r] = t /\ \A s \in Drips \ {r} : tx'[s] = tx[s]
      /\ DripMoves(r, drip[r].pc, drip[r].answer) /\ SameDays(r)
  BY <1>0, <1>1 DEF TxType, DripMoves, SameDays
<1>3. TxOK(r)'
  BY <1>0, <1>1, <1>2 DEF TxOK, At, DripMoves
<1>4. MarkersOK(r)' /\ Claiming(r) /\ Placing(r)
  BY <1>0, <1>1, <1>2 DEF MarkersOK, Holder, OnDay, Claiming, Placing, Placed, At, MayPay,
     TheFaucet!MayPay, DripMoves, SameDays, TxOK
<1>5. Touches(r) /\ Owning(r)
  BY <1>0, <1>1, <1>2 DEF DripPc, Touches, Owning, StandsFor, Holder, At, MayPay, TheFaucet!MayPay,
     DripMoves, TxOK
<1> QED BY <1>0, <1>1, <1>2, <1>3, <1>4, <1>5 DEF DripStep, DripMoves

\* The faucet's module counts as this one does.
LEMMA SameCardinality == \A S : TheFaucet!Cardinality(S) = Cardinality(S)
BY DEF TheFaucet!Cardinality, Cardinality

LEMMA RecountStep ==
  ASSUME DropsInv, NEW r \in Drips, TheFaucet!Recounts(r)
  PROVE  DripStep(r)
<1> USE DEF TheFaucet!stores, TheFaucet!chain, TheFaucet!Spoils
<1>0. /\ FaucetOK /\ TxOK(r) /\ today \in Nat
      /\ At(r, {"recount"}) /\ drip[r] \in DripType /\ drip[r].answer \in Nat \ {504}
      /\ tx[r] = "none" /\ UNCHANGED <<walletMarker, dayMarkers, tx, today>>
  BY DEF DropsInv, FaucetOK, TheFaucet!Recounts, TheFaucet!At, At, TxOK, DripType
<1>1. TxMoves(r, tx[r]) /\ tx[r] \in TxType
  BY <1>0, TxStays
<1>2. CASE TheFaucet!Answers(r, 500) /\ spoiled' = spoiled \cup {RequestedBy[r]}
  <2>1. PICK code \in Nat : DripMoves(r, "done", code) /\ SameDays(r)
    BY <1>0, <1>2, DripAnswers
  <2> QED BY <1>0, <1>1, <1>2, <2>1, EndStep
<1>3. ASSUME NEW pc \in {"release", "send"}, NEW answer \in Nat \ {504}, UNCHANGED spoiled,
             DripMoves(r, pc, answer), drip'[r].marked = drip[r].marked, drip'[r].counted = today,
             pc = "send" => Cardinality(MarkedOn(today)) <= MAX_DROPS_PER_DAY
      PROVE  DripStep(r)
  BY <1>0, <1>1, <1>3, HolderStep DEF At
<1> DEFINE f == [drip EXCEPT ![r].counted = today]
           g(pc) == [f EXCEPT ![r].pc = pc]
<1>4. /\ f \in [Drips -> DripType] /\ \A s \in Drips \ {r} : f[s] = drip[s]
      /\ f[r].marked = drip[r].marked /\ f[r].counted = today /\ f[r].answer = drip[r].answer
  BY <1>0 DEF FaucetOK, DripType
<1> HIDE DEF f
<1>5. ASSUME NEW pc \in {"release", "send"}
      PROVE  /\ g(pc) \in [Drips -> DripType] /\ \A s \in Drips \ {r} : g(pc)[s] = drip[s]
             /\ g(pc)[r].marked = drip[r].marked /\ g(pc)[r].counted = today
             /\ g(pc)[r].answer = drip[r].answer /\ g(pc)[r].pc = pc
  BY <1>4 DEF DripType, DripPc
<1>6. CASE /\ drip' = [drip EXCEPT ![r].counted = today, ![r].pc = "release", ![r].answer = 503]
           /\ UNCHANGED spoiled
  <2> DEFINE h == g("release")
  <2>1. drip' = [h EXCEPT ![r].answer = 503]
    BY <1>6 DEF f
  <2>2. /\ h \in [Drips -> DripType] /\ \A s \in Drips \ {r} : h[s] = drip[s]
        /\ h[r].marked = drip[r].marked /\ h[r].counted = today /\ h[r].pc = "release"
    BY <1>5
  <2> HIDE DEF h
  <2>3. DripMoves(r, "release", 503) /\ drip'[r].marked = drip[r].marked /\ drip'[r].counted = today
    BY <2>1, <2>2 DEF DripMoves, DripType
  <2> QED BY <1>3, <1>6, <2>3
<1>7. CASE /\ drip' = [drip EXCEPT ![r].counted = today, ![r].pc = "send"] /\ UNCHANGED spoiled
           /\ TheFaucet!CountToday <= MAX_DROPS_PER_DAY
  <2>1. drip' = g("send")
    BY <1>7 DEF f
  <2>2. /\ DripMoves(r, "send", drip[r].answer)
        /\ drip'[r].marked = drip[r].marked /\ drip'[r].counted = today
    <3> HIDE DEF g
    <3> QED BY <1>5, <2>1 DEF DripMoves
  <2>3. TheFaucet!CountToday = Cardinality(MarkedOn(today))
    BY SameCardinality DEF TheFaucet!CountToday, MarkedOn
  <2> QED BY <1>0, <1>3, <1>7, <2>2, <2>3
<1> QED BY <1>2, <1>6, <1>7 DEF TheFaucet!Recounts

LEMMA SendStep ==
  ASSUME DropsInv, NEW r \in Drips,
         \/ TheFaucet!Sends(r) \/ TheFaucet!Confirms(r) \/ TheFaucet!Records(r)
         \/ TheFaucet!Killed(r)
  PROVE  DripStep(r)
<1> USE DEF TheFaucet!stores, TheFaucet!chain, TheFaucet!Spoils, TheFaucet!At
<1>0. /\ FaucetOK /\ TxOK(r) /\ MarkersOK(r) /\ tx \in [Drips -> TxType]
      /\ drip[r] \in DripType /\ tx[r] \in TxType /\ UNCHANGED <<dayMarkers, today>>
  BY DEF DropsInv, FaucetOK, TheFaucet!Sends, TheFaucet!Confirms, TheFaucet!Records,
         TheFaucet!Killed
<1>1. tx' = tx => TxMoves(r, tx[r])
  BY <1>0, TxStays
<1>2. CASE TheFaucet!Records(r)
  <2>1. tx[r] = "paid" /\ RequestedBy[r] \in walletMarker
    BY <1>0, <1>2 DEF TxOK, MarkersOK, Holder, At, TheFaucet!Records
  <2>2. UNCHANGED <<walletMarker, spoiled, tx>>
    BY <1>2, <2>1 DEF TheFaucet!Records
  <2>3. DripMoves(r, "done", 200) /\ SameDays(r)
    BY <1>0, <1>2, DripAnswers DEF TheFaucet!Records
  <2> QED BY <1>0, <1>1, <2>1, <2>2, <2>3, EndStep
<1>3. CASE TheFaucet!Killed(r)
  <2>1. PICK code \in Nat : DripMoves(r, "done", code) /\ SameDays(r)
    BY <1>0, <1>3, DripAnswers DEF TheFaucet!Killed
  <2>2. UNCHANGED <<walletMarker, tx>> /\ spoiled' = spoiled \cup {RequestedBy[r]}
    BY <1>3 DEF TheFaucet!Killed
  <2> QED BY <1>0, <1>1, <2>1, <2>2, EndStep
<1>4. ASSUME TheFaucet!Answers(r, 504), UNCHANGED <<walletMarker, spoiled>>,
             NEW t \in TxType, TxMoves(r, t), t = tx[r] \/ (t = "out" /\ At(r, {"send"}))
      PROVE  DripStep(r)
  <2>1. DripMoves(r, "done", 504) /\ SameDays(r)
    BY <1>0, <1>4, DripAnswers
  <2> QED BY <1>0, <1>4, <2>1, EndStep
<1>5. ASSUME NEW pc \in {"confirm", "release", "record"}, TheFaucet!GoesTo(r, pc),
             UNCHANGED <<walletMarker, spoiled>>, At(r, {"send", "confirm"}),
             NEW t \in TxType, TxMoves(r, t), t = tx[r] \/ pc = "confirm",
             pc = "confirm" => t = "out" /\ At(r, {"send"}),
             pc = "record" => t = "paid", pc = "release" => t \in {"none", "failed"}
      PROVE  DripStep(r)
  <2>1. DripMoves(r, pc, drip[r].answer) /\ SameDays(r) /\ drip[r].answer \in Nat \ {504}
    BY <1>0, <1>5, DripGoes DEF DripPc, DripType, TxOK, At
  <2> QED BY <1>0, <1>5, <2>1, HolderStep DEF At, SameDays
<1>6. CASE TheFaucet!Sends(r)
  <2>1. At(r, {"send"}) /\ tx[r] = "none" /\ UNCHANGED <<walletMarker, spoiled>> /\ "out" \in TxType
    BY <1>0, <1>6 DEF TheFaucet!Sends, At, TxOK, TxType
  <2>2. CASE TheFaucet!GoesTo(r, "release") /\ tx' = tx
    BY <1>0, <1>1, <1>5, <2>1, <2>2 DEF At
  <2>3. CASE TheFaucet!GoesTo(r, "confirm") /\ tx' = [tx EXCEPT ![r] = "out"]
    BY <1>0, <1>5, <2>1, <2>3, TxSet DEF At
  <2>4. CASE TheFaucet!Answers(r, 504) /\ tx' = tx
    BY <1>0, <1>1, <1>4, <2>1, <2>4
  <2>5. CASE TheFaucet!Answers(r, 504) /\ tx' = [tx EXCEPT ![r] = "out"]
    BY <1>0, <1>4, <2>1, <2>5, TxSet
  <2> QED BY <1>6, <2>2, <2>3, <2>4, <2>5 DEF TheFaucet!Sends
<1>7. CASE TheFaucet!Confirms(r)
  <2>1. At(r, {"confirm"}) /\ tx' = tx /\ UNCHANGED <<walletMarker, spoiled>>
    BY <1>7 DEF TheFaucet!Confirms, At
  <2>2. CASE tx[r] = "paid" /\ TheFaucet!GoesTo(r, "record")
    BY <1>0, <1>1, <1>5, <2>1, <2>2 DEF At
  <2>3. CASE tx[r] = "failed" /\ TheFaucet!GoesTo(r, "release")
    BY <1>0, <1>1, <1>5, <2>1, <2>3 DEF At
  <2>4. CASE TheFaucet!Answers(r, 504)
    BY <1>0, <1>1, <1>4, <2>1, <2>4
  <2> QED BY <1>7, <2>2, <2>3, <2>4 DEF TheFaucet!Confirms
<1> QED BY <1>2, <1>3, <1>6, <1>7

LEMMA CheckStep ==
  ASSUME DropsInv, NEW r \in Drips,
         \/ TheFaucet!Arrives(r) \/ TheFaucet!ChecksBalance(r) \/ TheFaucet!CountsFirst(r)
         \/ TheFaucet!Heads(r)
  PROVE  DripStep(r)
<1> USE DEF TheFaucet!stores, TheFaucet!chain, TheFaucet!At
<1>0. /\ FaucetOK /\ TxOK(r) /\ drip[r] \in DripType /\ At(r, {"idle", "balance", "count", "head"})
      /\ UNCHANGED <<walletMarker, dayMarkers, spoiled, tx, today>>
      /\ drip[r].answer \in Nat \ {504}
  BY DEF DropsInv, FaucetOK, TheFaucet!Arrives, TheFaucet!ChecksBalance,
         TheFaucet!CountsFirst, TheFaucet!Heads, At, TxOK, DripType
<1>1. \/ \E pc \in {"balance", "count", "claim"} : TheFaucet!GoesTo(r, pc)
      \/ \E code \in {404, 429, 400, 500, 503, 409} : TheFaucet!Answers(r, code)
  BY DEF TheFaucet!Arrives, TheFaucet!ChecksBalance, TheFaucet!CountsFirst, TheFaucet!Heads
<1>2. \E pc \in {"balance", "count", "claim", "done"}, answer \in Nat \ {504} :
        DripMoves(r, pc, answer) /\ SameDays(r)
  <2>1. ASSUME NEW pc \in {"balance", "count", "claim"}, TheFaucet!GoesTo(r, pc)
        PROVE  DripMoves(r, pc, drip[r].answer) /\ SameDays(r)
    BY <1>0, <2>1, DripGoes DEF DripPc
  <2>2. ASSUME NEW code \in {404, 429, 400, 500, 503, 409}, TheFaucet!Answers(r, code)
        PROVE  code \in Nat \ {504} /\ DripMoves(r, "done", code) /\ SameDays(r)
    BY <1>0, <2>2, DripAnswers
  <2> QED BY <1>0, <1>1, <2>1, <2>2
<1> QED BY <1>0, <1>2, EarlyStep DEF At

LEMMA DropsStep ==
  ASSUME DropsInv, [SiteNext]_siteVars
  PROVE  DropsInv'
<1>1. CASE UNCHANGED faucetVars \/ TheFaucet!Midnight
  <2>1. /\ UNCHANGED <<drip, walletMarker, dayMarkers, tx, spoiled>>
        /\ today \in Nat => today' \in Nat
    BY <1>1 DEF faucetVars, TheFaucet!Midnight, TheFaucet!stores, TheFaucet!chain
  <2> QED BY <2>1 DEF DropsInv, FaucetOK, OneHolder, CapOK, PlacedOn, Placed, TxOK, MarkersOK,
                      Owned, StandsFor, Holder, OnDay, At, MayPay, TheFaucet!MayPay
<1>2. ASSUME NEW r \in Drips, DripStep(r) PROVE DropsInv'
  BY <1>2, DripStepsKeep
<1>3. ASSUME TheFaucet!FaucetNext PROVE TheFaucet!Midnight \/ \E r \in Drips : DripStep(r)
  BY <1>3, CheckStep, ClaimStep, MarkStep, RecountStep, ReleaseStep, SendStep, ExecuteStep
     DEF TheFaucet!FaucetNext
<1> QED BY <1>1, <1>2, <1>3 DEF SiteNext, siteVars

LEMMA DropsInit ==
  ASSUME SiteInit
  PROVE  DropsInv
<1> USE DEF SiteInit, TheFaucet!FaucetInit
<1>1. MAX_DROPS_PER_DAY \in Nat
  BY SiteAssumption
<1>2. \A r \in Drips : ~Holder(r) /\ ~OnDay(r) /\ \A d \in Nat : ~Placed(r, d)
  BY DEF Holder, OnDay, Placed, At, MayPay, TheFaucet!MayPay
<1>3. FaucetOK
  BY FS_EmptySet DEF FaucetOK, DripType, DripPc, TxType
<1>4. CapOK
  <2>1. \A d \in Nat : PlacedOn(d) = {}
    BY <1>2 DEF PlacedOn
  <2> QED BY <1>1, <2>1, FS_EmptySet DEF CapOK
<1>5. \A r \in Drips : TxOK(r) /\ MarkersOK(r)
  BY <1>2 DEF TxOK, MarkersOK, At
<1> QED BY <1>2, <1>3, <1>4, <1>5 DEF DropsInv, OneHolder

\* No wallet is ever sent two drops, and those put and counted on one day stay within its
\* cap, for any number of concurrent requests, with storage and RPC calls that fail or
\* succeed unseen and requests killed at any await (faucet/route.ts:175-194).
THEOREM DropsStayLimited == SiteSpec => []DropsAreLimited
<1>1. DropsInv => DropsAreLimited
  <2> SUFFICES ASSUME DropsInv PROVE TheFaucet!OncePerWallet /\ TheFaucet!CapPerDay
    BY DEF DropsAreLimited, TheFaucet!DropsAreLimited
  <2>1. TheFaucet!OncePerWallet
    BY DEF DropsInv, OneHolder, Holder, MayPay, TheFaucet!OncePerWallet
  <2>2. TheFaucet!CapPerDay
    <3> SUFFICES ASSUME NEW d \in 1..MAX_DAY
                 PROVE  Cardinality({ r \in Drips : TheFaucet!MayPay(r) /\ drip[r].marked = d
                                                      /\ drip[r].counted = d }) <= MAX_DROPS_PER_DAY
      BY SameCardinality DEF TheFaucet!CapPerDay
    <3> DEFINE P == { r \in Drips : TheFaucet!MayPay(r) /\ drip[r].marked = d
                                      /\ drip[r].counted = d }
    <3>1. d \in Nat /\ MAX_DROPS_PER_DAY \in Nat
      BY SiteAssumption
    <3>2. P \subseteq PlacedOn(d)
      BY DEF PlacedOn, Placed, MayPay
    <3>3. IsFiniteSet(PlacedOn(d)) /\ Cardinality(PlacedOn(d)) \in Nat
      BY <3>1, DropsApart DEF DropsInv, AllApart, PlacedByMarkers
    <3>4. Cardinality(PlacedOn(d)) <= MAX_DROPS_PER_DAY
      BY <3>1 DEF DropsInv, CapOK
    <3> HIDE DEF P
    <3>5. Cardinality(P) <= Cardinality(PlacedOn(d)) /\ Cardinality(P) \in Nat
      BY <3>2, <3>3, FS_Subset, FS_CardinalityType
    <3> QED BY <3>1, <3>3, <3>4, <3>5 DEF P
  <2> QED BY <2>1, <2>2
<1> QED BY DropsInit, DropsStep, <1>1, PTL DEF SiteSpec

\* A wallet that keeps a marker, and so is turned away for good, was sent its drop or may
\* have been, unless storage failed for it or a request was killed: a definite failure
\* always lets it try again (faucet/route.ts:193).
THEOREM MarkersAreEarned == SiteSpec => []LockedOutOnlyIfSent
<1>1. DropsInv => LockedOutOnlyIfSent
  <2>1. \A r \in Drips : Holder(r) => TheFaucet!Running(r) \/ TheFaucet!MayPay(r)
    BY DEF Holder, At, MayPay, TheFaucet!Running
  <2> QED BY <2>1 DEF DropsInv, Owned, StandsFor, LockedOutOnlyIfSent,
                      TheFaucet!LockedOutOnlyIfSent
<1> QED BY DropsInit, DropsStep, <1>1, PTL DEF SiteSpec

-----------------------------------------------------------------------------
(* The accounts, as the instances of the route and the caches show them *)

Ids  == Views!Ids
Keys == Wallets \cup {NoWallet}
Copy == [at : Nat, slot : Nat, stale : BOOLEAN, from : Instances]
Request ==
  [phase : {"free", "sent", "loading", "retry", "replied", "failed"}, fresh : BOOLEAN,
   minSlot : Nat, server : Instances, tries : Nat, reply : Copy, callers : [Hooks -> Keys]]

ViewsOK ==
  /\ head \in Nat /\ reads \in Nat
  /\ server \in [Instances -> [cache : Copy, load : {-1} \cup 0..head]]
  /\ edge \in Copy
  /\ req \in [Ids -> Request]
  /\ browser \in [last : Copy, minSlot : Nat, inflight : {0} \cup Ids]
  /\ wallet \in [key : Keys, changes : Nat]

Cache(s) == server[s].cache
Copies   == {edge, browser.last} \cup { req[i].reply : i \in Ids }
              \cup { Cache(s) : s \in Instances }

\* Every copy in the system was once the cache of the instance that read it, which holds
\* that instance's newest: the slots of its copies are in the order of their times.
CacheOK(s) ==
  /\ ~Cache(s).stale /\ Cache(s).at <= reads /\ Cache(s).slot <= head
  /\ Cache(s) = Views!NoCopy \/ Cache(s).from = s

CopyOK(c) ==
  /\ c.at <= Cache(c.from).at /\ c.slot <= Cache(c.from).slot
  /\ c.at = 0 => c.slot = 0

InOrder(c, d) == c.at <= d.at /\ (c.from = d.from \/ c.at = d.at) => c.slot <= d.slot

CopiesOK ==
  /\ \A s \in Instances : CacheOK(s)
  /\ \A c \in Copies : CopyOK(c)
  /\ \A c, d \in Copies : InOrder(c, d)

\* The route answers a fresh request behind its slot only with what it cannot better.
ReplyOK(i) ==
  req[i].phase = "replied" /\ req[i].fresh /\ ~req[i].reply.stale /\ req[i].tries < MIN_SLOT_TRIES
    => req[i].reply.slot >= req[i].minSlot

ViewsInv == ViewsOK /\ CopiesOK /\ \A i \in Ids : ReplyOK(i)

LEMMA SomeInstance == Views!Some \in Instances /\ Views!NoCopy \in Copy
BY SiteAssumption DEF Views!Some, Views!NoCopy, Copy

LEMMA CopiesAreCopies ==
  ASSUME ViewsOK
  PROVE  Copies \subseteq Copy /\ \A s \in Instances : Cache(s) \in Copy
BY DEF ViewsOK, Copies, Cache, Request

LEMMA CopiesStayCopies ==
  ASSUME ViewsOK'
  PROVE  Copies' \subseteq Copy /\ \A s \in Instances : Cache(s)' \in Copy
BY DEF ViewsOK, Copies, Cache, Request

\* A copy that is there already, or none.
Known(c) == \/ c.at = 0 /\ c.slot = 0
            \/ \E d \in Copies : c.at = d.at /\ c.slot = d.slot /\ c.from = d.from

\* Two copies that are known are in order too.
LEMMA KnownInOrder ==
  ASSUME ViewsInv, NEW c \in Copy, NEW d \in Copy, Known(c), Known(d)
  PROVE  InOrder(c, d)
<1>1. Copies \subseteq Copy
  BY CopiesAreCopies DEF ViewsInv
<1> SUFFICES ASSUME c.at <= d.at, c.from = d.from \/ c.at = d.at PROVE c.slot <= d.slot
  BY DEF InOrder
<1>2. CASE c.at = 0 /\ c.slot = 0
  BY <1>2 DEF Copy
<1>3. ASSUME NEW x \in Copies, c.at = x.at, c.slot = x.slot, c.from = x.from
      PROVE  c.slot <= d.slot
  <2>1. CASE d.at = 0 /\ d.slot = 0
    <3>1. x \in Copy /\ CopyOK(x)
      BY <1>1 DEF ViewsInv, CopiesOK
    <3> QED BY <1>3, <2>1, <3>1 DEF Copy, CopyOK
  <2>2. ASSUME NEW y \in Copies, d.at = y.at, d.slot = y.slot, d.from = y.from
        PROVE  c.slot <= d.slot
    BY <1>3, <2>2 DEF ViewsInv, CopiesOK, InOrder
  <2> QED BY <2>1, <2>2 DEF Known
<1> QED BY <1>2, <1>3 DEF Known

LEMMA CopiesKept ==
  ASSUME ViewsInv, ViewsOK', \A s \in Instances : Cache(s)' = Cache(s),
         head <= head', reads <= reads', \A c \in Copies' : Known(c)
  PROVE  CopiesOK'
<1>1. /\ Copies \subseteq Copy /\ Copies' \subseteq Copy
      /\ \A s \in Instances : Cache(s) \in Copy
      /\ head \in Nat /\ reads \in Nat /\ head' \in Nat /\ reads' \in Nat
  BY CopiesAreCopies, CopiesStayCopies DEF ViewsInv, ViewsOK
<1>2. ASSUME NEW s \in Instances PROVE CacheOK(s)'
  <2>1. CacheOK(s)
    BY DEF ViewsInv, CopiesOK
  <2> QED BY <1>1, <2>1 DEF CacheOK, Copy
<1>3. ASSUME NEW c \in Copies' PROVE CopyOK(c)'
  <2>1. c \in Copy /\ Known(c) /\ Cache(c.from)' = Cache(c.from) /\ Cache(c.from) \in Copy
    BY <1>1 DEF Copy
  <2>2. CASE c.at = 0 /\ c.slot = 0
    BY <2>1, <2>2 DEF CopyOK, Copy
  <2>3. ASSUME NEW d \in Copies, c.at = d.at, c.slot = d.slot, c.from = d.from
        PROVE  CopyOK(c)'
    <3>1. CopyOK(d)
      BY DEF ViewsInv, CopiesOK
    <3> QED BY <2>1, <2>3, <3>1 DEF CopyOK
  <2> QED BY <2>1, <2>2, <2>3 DEF Known
<1>4. ASSUME NEW c \in Copies', NEW d \in Copies' PROVE InOrder(c, d)
  BY <1>1, KnownInOrder
<1> QED BY <1>2, <1>3, <1>4 DEF CopiesOK

\* The cache of an instance takes a copy newer than all.
LEMMA CopiesRenewed ==
  ASSUME ViewsInv, ViewsOK', NEW s \in Instances,
         \A r \in Instances \ {s} : Cache(r)' = Cache(r),
         Cache(s)'.at = reads + 1, Cache(s)'.from = s, ~Cache(s)'.stale,
         Cache(s).slot <= Cache(s)'.slot, Cache(s)'.slot <= head,
         reads' = reads + 1, head' = head,
         \A c \in Copies' : Known(c) \/ c = Cache(s)'
  PROVE  CopiesOK'
<1> DEFINE new == Cache(s)'
<1>1. /\ Copies \subseteq Copy /\ Copies' \subseteq Copy
      /\ \A r \in Instances : Cache(r) \in Copy /\ CacheOK(r)
      /\ head \in Nat /\ reads \in Nat /\ new \in Copy
  BY CopiesAreCopies, CopiesStayCopies DEF ViewsInv, ViewsOK, CopiesOK
<1>2. ASSUME NEW r \in Instances PROVE CacheOK(r)'
  BY <1>1 DEF CacheOK, Copy
<1>3. ASSUME NEW c \in Copies', Known(c)
      PROVE  /\ c.at <= reads /\ CopyOK(c)'
             /\ c.from = s => c.slot <= new.slot
  <2>1. c \in Copy /\ c.from \in Instances /\ Cache(c.from) \in Copy /\ CacheOK(c.from)
    BY <1>1 DEF Copy
  <2>2. Cache(c.from)' \in Copy
    BY <1>1, <2>1
  <2>3. CASE c.at = 0 /\ c.slot = 0
    BY <1>1, <2>1, <2>2, <2>3 DEF CopyOK, Copy
  <2>4. ASSUME NEW d \in Copies, c.at = d.at, c.slot = d.slot, c.from = d.from
        PROVE  /\ c.at <= reads /\ CopyOK(c)'
               /\ c.from = s => c.slot <= new.slot
    <3>1. CopyOK(d)
      BY DEF ViewsInv, CopiesOK
    <3>2. /\ c.at <= Cache(c.from).at /\ c.slot <= Cache(c.from).slot
          /\ c.at = 0 => c.slot = 0 /\ Cache(c.from).at <= reads
      BY <2>1, <2>4, <3>1 DEF CopyOK, CacheOK
    <3>3. /\ Cache(c.from).at <= reads
          /\ Cache(c.from).at <= Cache(c.from)'.at /\ Cache(c.from).slot <= Cache(c.from)'.slot
      BY <1>1, <2>1 DEF CacheOK, Copy
    <3> HIDE DEF new
    <3> QED BY <1>1, <2>1, <2>2, <3>2, <3>3 DEF CopyOK, Copy, new
  <2> QED BY <1>3, <2>3, <2>4 DEF Known
<1>4. ASSUME NEW c, c = new PROVE CopyOK(c)'
  BY <1>1, <1>4 DEF CopyOK, Copy
<1>5. ASSUME NEW c \in Copies', NEW d \in Copies' PROVE InOrder(c, d)
  <2>1. c \in Copy /\ d \in Copy
    BY <1>1
  <2>2. CASE Known(c) /\ Known(d)
    BY <2>1, <2>2, KnownInOrder
  <2>3. CASE c = new /\ d = new
    BY <2>1, <2>3 DEF InOrder, Copy
  <2>4. CASE Known(c) /\ d = new
    BY <1>1, <1>3, <2>1, <2>4 DEF InOrder, Copy
  <2>5. CASE c = new /\ Known(d)
    BY <1>1, <1>3, <2>1, <2>5 DEF InOrder, Copy
  <2> QED BY <2>2, <2>3, <2>4, <2>5
<1> QED BY <1>2, <1>3, <1>4, <1>5 DEF CopiesOK

\* A request goes on as it was, or with no answer.
GoesOn(i) ==
  /\ req'[i] \in Request
  /\ \/ /\ req'[i].phase = req[i].phase /\ req'[i].fresh = req[i].fresh
        /\ req'[i].minSlot = req[i].minSlot /\ req'[i].tries = req[i].tries
        /\ req'[i].reply = req[i].reply
     \/ req'[i].phase # "replied" /\ req'[i].reply \in {req[i].reply, Views!NoCopy}

\* It is answered with a copy that it may be answered with.
GetsReply(i, c) ==
  /\ req'[i] \in Request /\ req'[i].reply = c
  /\ req[i].fresh /\ ~c.stale /\ req[i].tries < MIN_SLOT_TRIES => c.slot >= req[i].minSlot
  /\ req'[i].fresh = req[i].fresh /\ req'[i].minSlot = req[i].minSlot
  /\ req'[i].tries = req[i].tries

LEMMA RequestSteps ==
  ASSUME ViewsInv, NEW i \in Ids, NEW c, GoesOn(i) \/ GetsReply(i, c)
  PROVE  /\ req'[i] \in Request /\ ReplyOK(i)'
         /\ req'[i].reply \in {req[i].reply, Views!NoCopy, c}
BY DEF ViewsInv, GoesOn, GetsReply, ReplyOK

LEMMA ServedReply ==
  ASSUME ViewsOK, NEW i \in Ids, NEW c \in Copy, req'[i] = Views!Served(i, c),
         req[i].fresh /\ ~c.stale /\ req[i].tries < MIN_SLOT_TRIES => c.slot >= req[i].minSlot
  PROVE  GetsReply(i, c)
<1>1. req[i] \in Request
  BY DEF ViewsOK
<1>2. Views!Served(i, c) \in Request
  BY <1>1 DEF Views!Served, Request
<1> QED BY <1>1, <1>2 DEF GetsReply, Views!Served, Request

LEMMA FreeRequest ==
  Views!Free \in Request /\ Views!Free.reply = Views!NoCopy /\ Views!Free.phase = "free"
BY SomeInstance DEF Views!Free, Request, Keys

LEMMA FetchSteps ==
  ASSUME ViewsInv, NEW h \in Hooks, NEW fresh \in BOOLEAN,
         Views!FetchProgramAccounts(h, fresh)
  PROVE  /\ req' \in [Ids -> Request] /\ \A i \in Ids : GoesOn(i)
         /\ browser' \in [last : Copy, minSlot : Nat, inflight : {0} \cup Ids]
         /\ browser'.last = browser.last
<1> USE DEF Ids
<1>0. /\ ViewsOK /\ req \in [Ids -> Request] /\ wallet.key \in Keys
      /\ browser \in [last : Copy, minSlot : Nat, inflight : {0} \cup Ids]
      /\ wallet.key \in Keys
  BY DEF ViewsInv, ViewsOK
<1>1. CASE ~fresh /\ browser.inflight # 0
  <2> DEFINE b == browser.inflight
  <2>1. b \in Ids /\ req[b] \in Request
    BY <1>0, <1>1
  <2>2. req' = [req EXCEPT ![b] = [req[b] EXCEPT !.callers = [req[b].callers EXCEPT ![h] = wallet.key]]]
        /\ browser' = browser
    BY <1>0, <1>1, <2>1 DEF Views!FetchProgramAccounts
  <2> DEFINE callers == [req[b].callers EXCEPT ![h] = wallet.key]
             q == [req[b] EXCEPT !.callers = callers]
  <2>3. callers \in [Hooks -> Keys]
    BY <1>0, <2>1 DEF Request
  <2> HIDE DEF callers
  <2>4. /\ q \in Request /\ q.phase = req[b].phase /\ q.fresh = req[b].fresh
        /\ q.minSlot = req[b].minSlot /\ q.tries = req[b].tries /\ q.reply = req[b].reply
    BY <2>1, <2>3 DEF Request
  <2>5. req' = [req EXCEPT ![b] = q]
    BY <2>2 DEF callers
  <2> HIDE DEF q, b
  <2>6. req' \in [Ids -> Request] /\ \A i \in Ids : GoesOn(i)
    BY <1>0, <2>1, <2>4, <2>5 DEF GoesOn
  <2> QED BY <1>0, <2>2, <2>6
<1>2. CASE fresh \/ browser.inflight = 0
  <2> DEFINE minSlot == IF fresh THEN browser.minSlot ELSE 0
             callers == [Views!Free.callers EXCEPT ![h] = wallet.key]
             q == [Views!Free EXCEPT !.phase = "sent", !.fresh = fresh, !.callers = callers,
                                     !.minSlot = minSlot]
  <2>1. PICK i \in Ids : /\ req' = [req EXCEPT ![i] = q]
                         /\ browser' = [browser EXCEPT !.inflight = i]
    BY <1>0, <1>2 DEF Views!FetchProgramAccounts, Views!Ids
  <2>2. minSlot \in Nat /\ callers \in [Hooks -> Keys]
    BY <1>0, FreeRequest DEF Request
  <2> HIDE DEF minSlot, callers
  <2>3. q \in Request /\ q.reply = Views!NoCopy /\ q.phase = "sent"
    <3> DEFINE q1 == [Views!Free EXCEPT !.phase = "sent"]
               q2 == [q1 EXCEPT !.fresh = fresh]
               q3 == [q2 EXCEPT !.callers = callers]
    <3>1. q1 \in Request /\ q1.reply = Views!NoCopy /\ q1.phase = "sent"
      BY FreeRequest DEF Request
    <3> HIDE DEF q1
    <3>2. q2 \in Request /\ q2.reply = Views!NoCopy /\ q2.phase = "sent"
      BY <3>1 DEF Request
    <3> HIDE DEF q2
    <3>3. q3 \in Request /\ q3.reply = Views!NoCopy /\ q3.phase = "sent"
      BY <2>2, <3>2 DEF Request
    <3> HIDE DEF q3
    <3>4. q = [q3 EXCEPT !.minSlot = minSlot]
      BY DEF q1, q2, q3
    <3> HIDE DEF q
    <3> QED BY <2>2, <3>3, <3>4 DEF Request
  <2> HIDE DEF q
  <2>4. req' \in [Ids -> Request] /\ \A j \in Ids : GoesOn(j)
    BY <1>0, <2>1, <2>3 DEF GoesOn
  <2> QED BY <1>0, <2>1, <2>4
<1> QED BY <1>1, <1>2

\* A step that reads nothing new from the chain.
LEMMA QuietStep ==
  ASSUME ViewsInv, ViewsOK', \A s \in Instances : Cache(s)' = Cache(s),
         head <= head', reads' = reads,
         \A i \in Ids : GoesOn(i) \/ \E c : Known(c) /\ GetsReply(i, c),
         Known(edge'), Known(browser'.last)
  PROVE  ViewsInv'
<1>1. Known(Views!NoCopy) /\ \A s \in Instances : Known(Cache(s))
  BY DEF Known, Copies, Views!NoCopy
<1>2. ASSUME NEW i \in Ids PROVE Known(req'[i].reply) /\ ReplyOK(i)'
  <2>1. Known(req[i].reply)
    BY DEF Known, Copies
  <2>2. PICK c : GoesOn(i) \/ (Known(c) /\ GetsReply(i, c))
    OBVIOUS
  <2> QED BY <1>1, <2>1, <2>2, RequestSteps DEF GoesOn
<1>3. \A c \in Copies' : Known(c)
  BY <1>1, <1>2 DEF Copies
<1>4. CopiesOK'
  BY <1>3, CopiesKept DEF ViewsInv, ViewsOK
<1> QED BY <1>2, <1>4 DEF ViewsInv

LEMMA Unanswered ==
  ASSUME ViewsOK, req' = req, NEW i \in Ids
  PROVE  GoesOn(i)
BY DEF ViewsOK, GoesOn

\* The hooks, and this browser's transactions.
LEMMA PageSteps ==
  ASSUME ViewsInv,
         \/ \E h \in Hooks : Views!Hook(h) \/ Views!Refresh(h)
         \/ Views!Sends \/ Views!Confirms \/ Views!Notes \/ Views!Throws
         \/ \E k \in Keys : Views!Connect(k)
  PROVE  /\ ViewsInv'
         /\ UNCHANGED <<head, browser.last>> \/ (head' = head + 1 /\ browser' = browser)
<1> USE DEF Views!Chain, Views!Remote, Views!NoFault
<1>1. /\ ViewsOK /\ wallet.key \in Keys /\ wallet.changes \in Nat /\ head \in Nat
      /\ browser \in [last : Copy, minSlot : Nat, inflight : {0} \cup Ids]
      /\ Known(edge) /\ Known(browser.last)
  BY DEF ViewsInv, ViewsOK, Known, Copies
<1>2. UNCHANGED <<reads, server, edge>> /\ head' \in {head, head + 1}
  BY DEF Views!Hook, Views!Loads, Views!ShowsLast, Views!Refresh, Views!RefreshesAfter,
         Views!Sends, Views!Confirms, Views!Notes, Views!Throws, Views!Connect
<1>3. wallet' \in [key : Keys, changes : Nat]
  <2>1. CASE UNCHANGED wallet
    BY <1>1, <2>1 DEF ViewsOK
  <2>2. CASE \E k \in Keys : Views!Connect(k)
    <3>1. PICK k \in Keys : wallet' = [key |-> k, changes |-> wallet.changes + 1]
      BY <2>2 DEF Views!Connect
    <3>2. wallet.changes + 1 \in Nat
      BY <1>1
    <3> QED BY <3>1, <3>2
  <2> QED BY <2>1, <2>2
       DEF Views!Hook, Views!Loads, Views!ShowsLast, Views!Refresh, Views!RefreshesAfter,
           Views!Sends, Views!Confirms, Views!Notes, Views!Throws
<1> DEFINE Fetches ==
      /\ browser' \in [last : Copy, minSlot : Nat, inflight : {0} \cup Ids]
      /\ req' \in [Ids -> Request] /\ \A i \in Ids : GoesOn(i)
      /\ browser'.last = browser.last /\ (head' # head => browser' = browser)
<1>4. Fetches
  <2>1. CASE req' = req /\ browser' = browser
    BY <1>1, <2>1, Unanswered DEF ViewsOK
  <2>2. ASSUME NEW h \in Hooks, NEW fresh \in BOOLEAN, Views!FetchProgramAccounts(h, fresh),
               head' = head
        PROVE  Fetches
    BY <2>2, FetchSteps
  <2>3. CASE Views!Notes
    <3>1. req' = req /\ head' = head
      BY <2>3 DEF Views!Notes
    <3>2. Views!MaxOf(browser.minSlot, head) \in Nat
      BY <1>1 DEF Views!MaxOf
    <3>3. /\ browser' \in [last : Copy, minSlot : Nat, inflight : {0} \cup Ids]
          /\ browser'.last = browser.last
      BY <1>1, <2>3, <3>2 DEF Views!Notes
    <3> QED BY <1>1, <3>1, <3>3, Unanswered DEF ViewsOK
  <2> QED BY <2>1, <2>2, <2>3
       DEF Views!Hook, Views!Loads, Views!ShowsLast, Views!Refresh, Views!RefreshesAfter,
           Views!Sends, Views!Confirms, Views!Throws, Views!Connect, Views!LoadHook
<1>5. ViewsOK' /\ \A r \in Instances : Cache(r)' = Cache(r) /\ head <= head'
  BY <1>1, <1>2, <1>3, <1>4 DEF ViewsOK, Cache
<1>6. ViewsInv'
  BY <1>1, <1>2, <1>4, <1>5, QuietStep
<1> QED BY <1>2, <1>4, <1>6

\* The route answers from a cache, or starts a load.
LEMMA ServeSteps ==
  ASSUME ViewsInv,
         \E i \in Ids : \/ Views!FromEdge(i)
                        \/ \E s \in Instances : Views!FromCache(i, s) \/ Views!Reload(i, s)
  PROVE  ViewsInv' /\ UNCHANGED <<head, browser>>
<1> USE DEF Views!Local, Views!NoFault
<1>1. /\ ViewsOK /\ head \in Nat /\ req \in [Ids -> Request] /\ edge \in Copy
      /\ server \in [Instances -> [cache : Copy, load : {-1} \cup 0..head]]
      /\ Known(edge) /\ Known(browser.last)
      /\ \A s \in Instances : Known(Cache(s)) /\ Cache(s) \in Copy
  BY CopiesAreCopies DEF ViewsInv, ViewsOK, Known, Copies
<1>2. UNCHANGED <<head, reads, browser, wallet>>
  BY DEF Views!FromEdge, Views!FromCache, Views!Reload
<1>3. ASSUME NEW i \in Ids, NEW c \in Copy, Known(c), req' = [req EXCEPT ![i] = Views!Served(i, c)],
             req[i].fresh /\ ~c.stale /\ req[i].tries < MIN_SLOT_TRIES => c.slot >= req[i].minSlot,
             server' = server, edge' \in {edge, c}
      PROVE  ViewsInv'
  <2>1. req'[i] = Views!Served(i, c) /\ \A j \in Ids \ {i} : req'[j] = req[j]
    BY <1>1, <1>3
  <2>2. GetsReply(i, c)
    BY <1>1, <1>3, <2>1, ServedReply
  <2>3. \A j \in Ids \ {i} : GoesOn(j)
    BY <1>1, <2>1 DEF GoesOn
  <2>4. req' \in [Ids -> Request]
    BY <1>1, <1>3, <2>2 DEF GetsReply
  <2>5. ViewsOK' /\ \A r \in Instances : Cache(r)' = Cache(r)
    BY <1>1, <1>2, <1>3, <2>4 DEF ViewsOK, Cache
  <2> QED BY <1>1, <1>2, <1>3, <2>2, <2>3, <2>5, QuietStep DEF ViewsOK
<1>4. ASSUME NEW i \in Ids, Views!FromEdge(i) PROVE ViewsInv'
  BY <1>1, <1>3, <1>4 DEF Views!FromEdge
<1>5. ASSUME NEW i \in Ids, NEW s \in Instances, Views!FromCache(i, s) PROVE ViewsInv'
  <2>1. server[s].cache = Cache(s)
    BY DEF Cache
  <2>2. Cache(s).slot >= req[i].minSlot
    BY <1>1, <1>5, <2>1 DEF Views!FromCache, Views!Behind, Copy, Request
  <2> QED BY <1>1, <1>3, <1>5, <2>1, <2>2 DEF Views!FromCache, Views!MayKeep
<1>6. ASSUME NEW i \in Ids, NEW s \in Instances, Views!Reload(i, s) PROVE ViewsInv'
  <2> DEFINE q == [req[i] EXCEPT !.phase = "loading", !.server = s, !.tries = req[i].tries + 1]
  <2>1. req' = [req EXCEPT ![i] = q] /\ edge' = edge
    BY <1>1, <1>6 DEF Views!Reload
  <2>2. q \in Request /\ q.phase = "loading" /\ q.reply = req[i].reply
    <3>1. req[i] \in Request /\ req[i].tries + 1 \in Nat
      BY <1>1 DEF Request
    <3> QED BY <3>1 DEF Request
  <2> HIDE DEF q
  <2>3. req' \in [Ids -> Request] /\ \A j \in Ids : GoesOn(j)
    BY <1>1, <2>1, <2>2 DEF GoesOn
  <2>4. PICK slot \in 0..head : server' = [server EXCEPT ![s].load = IF @ = -1 THEN slot ELSE @]
    BY <1>6 DEF Views!Reload, Views!Idle
  <2>5. /\ server' \in [Instances -> [cache : Copy, load : {-1} \cup 0..head]]
        /\ server'[s].cache = server[s].cache
    BY <1>1, <2>4
  <2>6. ViewsOK' /\ \A r \in Instances : Cache(r)' = Cache(r)
    BY <1>1, <1>2, <2>1, <2>3, <2>4, <2>5 DEF ViewsOK, Cache
  <2> QED BY <1>1, <1>2, <2>1, <2>3, <2>6, QuietStep DEF ViewsOK
<1> QED BY <1>2, <1>4, <1>5, <1>6

\* A load ends: whoever waits is served, or tries again.
LEMMA LoadEndSteps ==
  ASSUME ViewsInv, NEW s \in Instances, Views!LoadEnds(s)
  PROVE  ViewsInv' /\ UNCHANGED <<head, browser>>
<1> USE DEF Views!Local, Views!NoFault
<1>1. /\ ViewsOK /\ CopiesOK /\ head \in Nat /\ reads \in Nat /\ req \in [Ids -> Request]
      /\ edge \in Copy
      /\ server \in [Instances -> [cache : Copy, load : {-1} \cup 0..head]]
      /\ Known(edge) /\ Known(browser.last)
      /\ \A r \in Instances : Known(Cache(r)) /\ Cache(r) \in Copy
      /\ \A i \in Ids : Known(req[i].reply)
      /\ server[s].cache = Cache(s) /\ CacheOK(s)
  BY CopiesAreCopies DEF ViewsInv, ViewsOK, Known, Copies, Cache, CopiesOK
<1>2. /\ UNCHANGED <<head, browser, wallet>> /\ reads' = reads + 1 /\ server[s].load \in 0..head
  BY <1>1 DEF Views!LoadEnds, Views!Idle
<1> DEFINE new  == [at |-> reads', slot |-> server[s].load, stale |-> FALSE, from |-> s]
           copy == Views!Cached(server[s].cache, new)
<1>3. new \in Copy /\ new.at = reads + 1 /\ new.slot \in 0..head /\ ~new.stale
      /\ new.from = s
  BY <1>1, <1>2 DEF Copy
<1>4. /\ server' = [server EXCEPT ![s] = [cache |-> copy, load |-> -1]]
      /\ req' = [i \in Ids |->
           IF i \notin Views!WaitingAt(s) THEN req[i]
           ELSE IF Views!TriesAgain(i, copy) THEN [req[i] EXCEPT !.phase = "retry"]
           ELSE Views!Served(i, copy)]
      /\ edge' \in {edge, copy}
  BY DEF Views!LoadEnds, Views!Idle, Ids
<1>5. /\ copy \in Copy /\ ~copy.stale
      /\ \/ copy = Cache(s)
         \/ /\ copy.at = reads + 1 /\ copy.from = s
            /\ Cache(s).slot <= copy.slot /\ copy.slot <= head
  <2>1. Cache(s).slot \in Nat
    BY <1>1 DEF Copy
  <2>2. Cache(s) = Views!NoCopy => Cache(s).slot = 0
    BY DEF Views!NoCopy
  <2> HIDE DEF new
  <2> QED BY <1>1, <1>3, <2>1, <2>2 DEF Views!Cached, CacheOK
<1> HIDE DEF new, copy
<1>6. ASSUME NEW i \in Ids PROVE GoesOn(i) \/ GetsReply(i, copy)
  <2>1. CASE req'[i] = req[i]
    BY <1>1, <2>1 DEF GoesOn
  <2>2. CASE req'[i] = [req[i] EXCEPT !.phase = "retry"]
    <3>1. req[i] \in Request
      BY <1>1
    <3> QED BY <2>2, <3>1 DEF GoesOn, Request
  <2>3. CASE req'[i] = Views!Served(i, copy) /\ ~Views!TriesAgain(i, copy)
    <3>1. req[i].tries < MIN_SLOT_TRIES => copy.slot >= req[i].minSlot
      BY <1>1, <1>5, <2>3 DEF Views!TriesAgain, Views!Behind, Copy, Request
    <3> QED BY <1>1, <1>5, <2>3, <3>1, ServedReply
  <2> QED BY <1>4, <2>1, <2>2, <2>3
<1>7. /\ req' \in [Ids -> Request]
      /\ \A i \in Ids : ReplyOK(i)' /\ req'[i].reply \in {req[i].reply, Views!NoCopy, copy}
  <2>1. \A i \in Ids : /\ req'[i] \in Request /\ ReplyOK(i)'
                       /\ req'[i].reply \in {req[i].reply, Views!NoCopy, copy}
    BY <1>6, RequestSteps
  <2>2. req' = [i \in Ids |-> req'[i]]
    BY <1>4
  <2> QED BY <2>1, <2>2
<1>8. ViewsOK' /\ Cache(s)' = copy /\ \A r \in Instances \ {s} : Cache(r)' = Cache(r)
  BY <1>1, <1>2, <1>4, <1>5, <1>7 DEF ViewsOK, Cache
<1>9. \A c \in Copies' : Known(c) \/ c = Cache(s)'
  <2>1. Known(Views!NoCopy)
    BY DEF Known, Views!NoCopy
  <2> QED BY <1>1, <1>2, <1>4, <1>7, <1>8, <2>1 DEF Copies
<1>10. CopiesOK'
  <2>1. CASE copy = Cache(s)
    BY <1>1, <1>2, <1>8, <1>9, <2>1, CopiesKept
  <2>2. CASE copy.at = reads + 1 /\ copy.from = s /\ Cache(s).slot <= copy.slot
             /\ copy.slot <= head
    BY <1>2, <1>5, <1>8, <1>9, <2>2, CopiesRenewed
  <2> QED BY <1>5, <2>1, <2>2
<1> QED BY <1>2, <1>7, <1>8, <1>10 DEF ViewsInv

\* It fails: the last copy is served as stale, or an error.
LEMMA LoadFailSteps ==
  ASSUME ViewsInv, NEW s \in Instances, Views!LoadFails(s)
  PROVE  ViewsInv' /\ UNCHANGED <<head, browser>>
<1> USE DEF Views!Local
<1>1. /\ ViewsOK /\ head \in Nat /\ reads \in Nat /\ req \in [Ids -> Request] /\ edge \in Copy
      /\ server \in [Instances -> [cache : Copy, load : {-1} \cup 0..head]]
      /\ Known(edge) /\ Known(browser.last) /\ Cache(s) \in Copy /\ Cache(s) \in Copies
      /\ server[s].cache = Cache(s)
  BY CopiesAreCopies DEF ViewsInv, ViewsOK, Known, Copies, Cache
<1>2. UNCHANGED <<head, reads, browser, wallet>>
  BY DEF Views!LoadFails
<1> DEFINE stale == [server[s].cache EXCEPT !.stale = TRUE]
<1>3. stale \in Copy /\ stale.stale /\ Known(stale)
  <2>1. stale \in Copy /\ stale.stale /\ stale.at = Cache(s).at
        /\ stale.slot = Cache(s).slot /\ stale.from = Cache(s).from
    BY <1>1 DEF Copy
  <2> QED BY <1>1, <2>1 DEF Known
<1>4. /\ server' = [server EXCEPT ![s].load = -1]
      /\ req' = [i \in Ids |->
           IF i \notin Views!WaitingAt(s) THEN req[i]
           ELSE IF server[s].cache = Views!NoCopy THEN [req[i] EXCEPT !.phase = "failed"]
           ELSE Views!Served(i, stale)]
      /\ edge' \in {edge, stale}
  BY DEF Views!LoadFails, Views!Idle, Ids
<1> HIDE DEF stale
<1>5. ASSUME NEW i \in Ids PROVE GoesOn(i) \/ GetsReply(i, stale)
  <2>1. CASE req'[i] = req[i]
    BY <1>1, <2>1 DEF GoesOn
  <2>2. CASE req'[i] = [req[i] EXCEPT !.phase = "failed"]
    <3>1. req[i] \in Request
      BY <1>1
    <3> QED BY <2>2, <3>1 DEF GoesOn, Request
  <2>3. CASE req'[i] = Views!Served(i, stale)
    BY <1>1, <1>3, <2>3, ServedReply
  <2> QED BY <1>4, <2>1, <2>2, <2>3
<1>6. req' \in [Ids -> Request]
  <2>1. \A i \in Ids : req'[i] \in Request
    BY <1>5 DEF GoesOn, GetsReply
  <2>2. req' = [i \in Ids |-> req'[i]]
    BY <1>4
  <2> QED BY <2>1, <2>2
<1>7. ViewsOK' /\ \A r \in Instances : Cache(r)' = Cache(r)
  BY <1>1, <1>2, <1>3, <1>4, <1>6 DEF ViewsOK, Cache
<1> QED BY <1>1, <1>2, <1>3, <1>4, <1>5, <1>7, QuietStep

\* What a page may show after c: nothing of an older slot but what another instance read
\* later.
SameOrLater(c, d) ==
  c.slot <= d.slot \/ (c.at < d.at /\ c.from # d.from)

\* A response reaches the page, or not: an older one than the page's is dropped.
LEMMA AnswerSteps ==
  ASSUME ViewsInv, NEW i \in Ids, Views!Responds(i) \/ Views!Fails(i)
  PROVE  /\ ViewsInv' /\ head' = head
         /\ browser.last.slot \in Nat /\ browser'.last.slot \in Nat
         /\ req[i].reply.slot \in Nat
         /\ SameOrLater(browser.last, browser'.last)
         /\ Views!Responds(i) => SameOrLater(req[i].reply, browser'.last)
<1> USE DEF Views!Finished, Views!Server, Views!NoFault
<1>1. /\ ViewsOK /\ CopiesOK /\ req \in [Ids -> Request] /\ head \in Nat /\ reads \in Nat
      /\ browser \in [last : Copy, minSlot : Nat, inflight : {0} \cup Ids]
      /\ browser.last \in Copies /\ req[i].reply \in Copies /\ Known(edge)
      /\ Copies \subseteq Copy
  BY CopiesAreCopies DEF ViewsInv, ViewsOK, Copies, Known
<1>2. /\ UNCHANGED <<head, reads, server, edge, wallet>> /\ req' = [req EXCEPT ![i] = Views!Free]
  BY DEF Views!Responds, Views!Fails
<1>3. req' \in [Ids -> Request] /\ \A j \in Ids : GoesOn(j)
  BY <1>1, <1>2, FreeRequest DEF GoesOn
<1>4. Views!Newer(i) \in {browser.last, req[i].reply}
  BY DEF Views!Newer
<1>5. SameOrLater(browser.last, Views!Newer(i)) /\ SameOrLater(req[i].reply, Views!Newer(i))
  <2> DEFINE last == browser.last
             reply == req[i].reply
  <2>1. /\ last \in Copy /\ reply \in Copy
        /\ InOrder(last, reply) /\ InOrder(reply, last)
    BY <1>1 DEF CopiesOK
  <2>2. last = Views!NoCopy => last.slot = 0
    BY DEF Views!NoCopy
  <2>3. Views!Newer(i) = IF last # Views!NoCopy /\ reply.at < last.at THEN last ELSE reply
    BY DEF Views!Newer
  <2> HIDE DEF last, reply
  <2>4. SameOrLater(last, Views!Newer(i)) /\ SameOrLater(reply, Views!Newer(i))
    BY <2>1, <2>2, <2>3 DEF Copy, InOrder, SameOrLater
  <2> QED BY <2>4 DEF last, reply
<1>6. /\ browser' \in [last : Copy, minSlot : Nat, inflight : {0} \cup Ids]
      /\ browser'.last \in {browser.last, req[i].reply}
      /\ browser'.last = browser.last \/ browser'.last = Views!Newer(i)
      /\ Views!Responds(i) => browser'.last = Views!Newer(i)
  <2> HIDE DEF Views!Finished, Views!Server, Views!NoFault
  <2>1. CASE Views!Responds(i)
    <3>1. browser' = [browser EXCEPT !.last = Views!Newer(i),
                                     !.inflight = IF browser.inflight = i THEN 0 ELSE browser.inflight]
      BY <1>1, <2>1 DEF Views!Responds
    <3>2. Views!Newer(i) \in Copy
      BY <1>1, <1>4
    <3> HIDE DEF Views!Newer
    <3> QED BY <1>1, <1>4, <3>1, <3>2
  <2>2. CASE Views!Fails(i) /\ ~Views!Responds(i)
    <3>1. browser' = [browser EXCEPT !.inflight = IF browser.inflight = i THEN 0 ELSE browser.inflight]
      BY <1>1, <2>2 DEF Views!Fails
    <3> QED BY <1>1, <2>2, <3>1
  <2> QED BY <2>1, <2>2
<1>7. ViewsOK' /\ \A r \in Instances : Cache(r)' = Cache(r)
  BY <1>1, <1>2, <1>3, <1>6 DEF ViewsOK, Cache
<1>8. Known(browser'.last)
  BY <1>1, <1>6 DEF Known
<1>9. ViewsInv'
  BY <1>1, <1>2, <1>3, <1>7, <1>8, QuietStep
<1>10. SameOrLater(browser.last, browser.last)
  BY <1>1 DEF SameOrLater, Copy
<1>11. browser.last.slot \in Nat /\ browser'.last.slot \in Nat /\ req[i].reply.slot \in Nat
  BY <1>1, <1>6 DEF Copy
<1> QED BY <1>2, <1>5, <1>6, <1>9, <1>10, <1>11

LEMMA ViewsStep ==
  ASSUME ViewsInv, [SiteNext]_siteVars
  PROVE  /\ ViewsInv' /\ SameOrLater(browser.last, browser'.last)
         /\ browser.last.slot \in Nat /\ browser'.last.slot \in Nat
         /\ head' = head \/ (head' = head + 1 /\ browser' = browser)
<1>0. browser.last \in Copy
  BY DEF ViewsInv, ViewsOK
<1>1. CASE UNCHANGED viewVars
  BY <1>0, <1>1 DEF viewVars, ViewsInv, ViewsOK, CopiesOK, CacheOK, CopyOK, ReplyOK, Copies,
                    Cache, SameOrLater, Copy
<1>2. ASSUME ViewsInv', UNCHANGED browser \/ browser'.last = browser.last
      PROVE  /\ SameOrLater(browser.last, browser'.last)
             /\ browser.last.slot \in Nat /\ browser'.last.slot \in Nat
  BY <1>0, <1>2 DEF SameOrLater, Copy
<1>3. CASE \/ \E h \in Hooks : Views!Hook(h) \/ Views!Refresh(h)
           \/ Views!Sends \/ Views!Confirms \/ Views!Notes \/ Views!Throws
           \/ \E k \in Keys : Views!Connect(k)
  BY <1>2, <1>3, PageSteps
<1>4. CASE \E i \in Ids : \/ Views!FromEdge(i)
                          \/ \E s \in Instances : Views!FromCache(i, s) \/ Views!Reload(i, s)
  BY <1>2, <1>4, ServeSteps
<1>5. CASE \E s \in Instances : Views!LoadEnds(s) \/ Views!LoadFails(s)
  BY <1>2, <1>5, LoadEndSteps, LoadFailSteps
<1>6. CASE \E i \in Ids : Views!Responds(i) \/ Views!Fails(i)
  BY <1>6, AnswerSteps
<1> QED
  BY <1>1, <1>3, <1>4, <1>5, <1>6
  DEF SiteNext, siteVars, Views!Next, Views!Serve, Views!Ends, Views!Answers, Keys, Ids

LEMMA ViewsStart ==
  ASSUME SiteInit
  PROVE  ViewsInv
<1> USE DEF SiteInit, Views!Init
<1>1. /\ head = 0 /\ reads = 0 /\ edge = Views!NoCopy /\ browser.last = Views!NoCopy
      /\ browser \in [last : Copy, minSlot : Nat, inflight : {0} \cup Ids]
      /\ wallet \in [key : Keys, changes : Nat] /\ req = [i \in Ids |-> Views!Free]
      /\ server = [s \in Instances |-> [cache |-> Views!NoCopy, load |-> -1]]
      /\ Views!NoCopy \in Copy
  BY SomeInstance DEF Keys, Ids, Views!Idle
<1>2. \A s \in Instances : Cache(s) = Views!NoCopy
  BY <1>1 DEF Cache
<1>3. ViewsOK
  BY <1>1, FreeRequest DEF ViewsOK
<1>4. Copies = {Views!NoCopy} /\ \A i \in Ids : req[i].phase = "free"
  BY <1>1, <1>2, FreeRequest DEF Copies
<1>5. /\ Views!NoCopy.at = 0 /\ Views!NoCopy.slot = 0 /\ Views!NoCopy.stale = FALSE
      /\ Views!NoCopy.from \in Instances
  BY SomeInstance DEF Views!NoCopy
<1>6. CopiesOK
  BY <1>1, <1>2, <1>4, <1>5 DEF CopiesOK, CacheOK, CopyOK, InOrder
<1>7. \A i \in Ids : ReplyOK(i)
  BY <1>4 DEF ReplyOK
<1> QED BY <1>3, <1>6, <1>7 DEF ViewsInv

ShownOK == browser.last \in Copy /\ head \in Nat /\ browser.last.slot \in 0..head

\* With any number of instances of the accounts route, what a page shows was the chain's at
\* some slot, and goes back to an older slot only for what another instance read later:
\* never for two copies of one instance, whatever the lag of the nodes, the age of the
\* edge's copy, the order of the responses and the failures (accounts/route.ts:60,
\* lib/accounts.ts:43-45).
THEOREM PagesStepBackOnlyAcross == SiteSpec => StepsBackOnlyAcross
<1>1. SiteInit => ViewsInv
  BY ViewsStart
<1>2. ViewsInv /\ [SiteNext]_siteVars => ViewsInv'
  BY ViewsStep
<1>3. ViewsInv => ShownOK
  <2> SUFFICES ASSUME ViewsInv PROVE ShownOK
    OBVIOUS
  <2> DEFINE c == browser.last
  <2>1. c \in Copy /\ c \in Copies /\ head \in Nat
    BY DEF ViewsInv, ViewsOK, Copies
  <2>2. c.from \in Instances /\ Cache(c.from) \in Copy
    BY <2>1, CopiesAreCopies DEF ViewsInv, Copy
  <2>3. c.slot <= Cache(c.from).slot /\ Cache(c.from).slot <= head
    BY <2>1, <2>2 DEF ViewsInv, CopiesOK, CopyOK, CacheOK
  <2> HIDE DEF c
  <2>4. c.slot \in 0..head
    BY <2>1, <2>2, <2>3 DEF Copy
  <2> QED BY <2>1, <2>4 DEF c, ShownOK
<1>4. ViewsInv' => ShownOK'
  BY <1>3, PTL
<1>5. ASSUME ViewsInv, [SiteNext]_siteVars
      PROVE  [Views!Snapshots!Advance \/ Views!Snapshots!Show]_<<head, browser.last>>
  <2>1. /\ ViewsInv' /\ SameOrLater(browser.last, browser'.last)
        /\ head' = head \/ (head' = head + 1 /\ browser' = browser)
    BY <1>5, ViewsStep
  <2>2. CASE head' = head + 1 /\ browser' = browser
    BY <2>2 DEF Views!Snapshots!Advance
  <2>3. CASE head' = head
    <3>1. /\ browser.last \in Copy /\ browser'.last \in Copy
          /\ browser'.last.slot \in 0..head
      BY <1>3, <1>4, <1>5, <2>1, <2>3 DEF ShownOK
    <3>2. Views!Snapshots!Replaces(browser'.last, browser.last)
      BY <2>1, <3>1 DEF SameOrLater, Views!Snapshots!Replaces, Copy
    <3> QED BY <2>3, <3>1, <3>2 DEF Views!Snapshots!Show
  <2> QED BY <2>1, <2>2, <2>3
<1>6. SiteInit => Views!Snapshots!Init
  BY DEF SiteInit, Views!Init, Views!NoCopy, Views!Snapshots!Init
<1> QED BY <1>1, <1>2, <1>5, <1>6, PTL
        DEF SiteSpec, StepsBackOnlyAcross, Views!StepsBackOnlyAcross, Views!Snapshots!Spec

\* With any number of instances, the answer to a fresh load after a transaction is not from
\* before it, unless the route could not read the chain or gave up on nodes that lag, and
\* the page shows it unless it already shows what another instance read later
\* (accounts/route.ts:12-13, 53-62; lib/accounts.ts:45).
THEOREM RefreshesAreAnswered == SiteSpec => RefreshIsAnswered
<1>1. ASSUME ViewsInv
      PROVE  [\A i \in Views!Ids :
                Views!Responds(i) /\ req[i].fresh /\ ~req[i].reply.stale
                  /\ req[i].tries < MIN_SLOT_TRIES
                => /\ req[i].reply.slot >= req[i].minSlot
                   /\ \/ browser'.last.slot >= req[i].minSlot
                      \/ /\ browser'.last.at > req[i].reply.at
                         /\ browser'.last.from # req[i].reply.from]_(Views!vars)
  <2> SUFFICES ASSUME NEW i \in Ids, Views!Responds(i), req[i].fresh, ~req[i].reply.stale,
                      req[i].tries < MIN_SLOT_TRIES
               PROVE  /\ req[i].reply.slot >= req[i].minSlot
                      /\ \/ browser'.last.slot >= req[i].minSlot
                         \/ /\ browser'.last.at > req[i].reply.at
                            /\ browser'.last.from # req[i].reply.from
    BY DEF Ids
  <2>1. ViewsInv' /\ SameOrLater(req[i].reply, browser'.last)
    BY <1>1, AnswerSteps
  <2>2. req[i].reply.slot >= req[i].minSlot
    BY <1>1 DEF ViewsInv, ReplyOK, Views!Responds
  <2>3. /\ req[i].reply.slot \in Nat /\ req[i].minSlot \in Nat /\ browser'.last.slot \in Nat
        /\ req[i].reply.at \in Nat /\ browser'.last.at \in Nat
    BY <1>1, <2>1 DEF ViewsInv, ViewsOK, Request, Copy
  <2> QED BY <2>1, <2>2, <2>3 DEF SameOrLater
<1>2. SiteInit => ViewsInv
  BY ViewsStart
<1>3. ViewsInv /\ [SiteNext]_siteVars => ViewsInv'
  BY ViewsStep
<1> QED BY <1>1, <1>2, <1>3, PTL DEF SiteSpec, RefreshIsAnswered, Views!RefreshIsAnswered

-----------------------------------------------------------------------------
(* Ranks in a finite set *)

\* A set of numbers that has one has a least.
LEMMA LeastOf ==
  ASSUME NEW S, S \subseteq Nat, NEW x \in S
  PROVE  \E k \in S : \A l \in S : k <= l
<1>1. PICK k \in S : \A l \in S : ~(<<l, k>> \in OpToRel(<, Nat))
  BY NatLessThanWellFounded, WFMin
<1>2. \A l \in S : ~(l < k)
  BY <1>1 DEF OpToRel
<1> QED BY <1>2

\* The n-th of the set S in the order R: the one with n of them up to and including it.
Ranked(S, R, n) == CHOOSE x \in S : Cardinality({ y \in S : <<y, x>> \in R }) = n

\* R orders all of S.
Orders(R, S) ==
  /\ \A x \in S : <<x, x>> \in R
  /\ \A x, y \in S : <<x, y>> \in R \/ <<y, x>> \in R
  /\ \A x, y \in S : <<x, y>> \in R /\ <<y, x>> \in R => x = y
  /\ \A x, y, z \in S : <<x, y>> \in R /\ <<y, z>> \in R => <<x, z>> \in R

\* There is one n-th for each n up to the size of the set, each element is the n-th for one
\* n, and they come in order.
LEMMA RankedOnce ==
  ASSUME NEW S, IsFiniteSet(S), NEW R, Orders(R, S)
  PROVE  /\ Cardinality(S) \in Nat
         /\ \A n \in 1..Cardinality(S) : Ranked(S, R, n) \in S
         /\ \A n, k \in 1..Cardinality(S) :
              n < k => /\ <<Ranked(S, R, n), Ranked(S, R, k)>> \in R
                       /\ Ranked(S, R, n) # Ranked(S, R, k)
         /\ \A x \in S : \E n \in 1..Cardinality(S) : Ranked(S, R, n) = x
<1> DEFINE upto(x) == { y \in S : <<y, x>> \in R }
           rank == [x \in S |-> Cardinality(upto(x))]
           ranks == { rank[x] : x \in S }
<1>1. Cardinality(S) \in Nat
  BY FS_CardinalityType
<1>2. ASSUME NEW x \in S
      PROVE  IsFiniteSet(upto(x)) /\ rank[x] \in 1..Cardinality(S) /\ rank[x] \in Nat
  <2>1. x \in upto(x) /\ upto(x) \in SUBSET S
    BY Zenon DEF Orders
  <2> HIDE DEF upto
  <2>2. IsFiniteSet(upto(x)) /\ Cardinality(upto(x)) <= Cardinality(S)
    BY <2>1, FS_Subset
  <2>3. Cardinality(upto(x)) # 0
    BY <2>1, <2>2, FS_EmptySet
  <2>4. Cardinality(upto(x)) \in Nat
    BY <2>2, FS_CardinalityType
  <2> QED BY <1>1, <2>2, <2>3, <2>4
<1>3. ASSUME NEW x \in S, NEW y \in S, <<x, y>> \in R, x # y PROVE rank[x] < rank[y]
  <2>1. upto(x) \subseteq upto(y) /\ y \in upto(y) /\ y \notin upto(x)
    BY <1>3, Zenon DEF Orders
  <2>2. IsFiniteSet(upto(y)) /\ rank[x] \in Nat /\ rank[y] \in Nat
    BY <1>2
  <2> HIDE DEF upto
  <2>3. Cardinality(upto(x)) <= Cardinality(upto(y)) /\ Cardinality(upto(x)) # Cardinality(upto(y))
    BY <2>1, <2>2, FS_Subset
  <2> QED BY <2>2, <2>3
<1>4. \A x, y \in S : rank[x] = rank[y] => x = y
  <2> HIDE DEF rank
  <2>1. ASSUME NEW x \in S, NEW y \in S, rank[x] = rank[y], x # y PROVE FALSE
    <3>1. <<x, y>> \in R \/ <<y, x>> \in R
      BY DEF Orders
    <3>2. rank[x] < rank[y] \/ rank[y] < rank[x]
      BY <1>3, <2>1, <3>1
    <3>3. rank[x] \in Nat
      BY <1>2
    <3> QED BY <2>1, <3>2, <3>3
  <2> QED BY <2>1
<1>5. rank \in Bijection(S, ranks)
  BY <1>4, Fun_IsBij
<1>6. ranks = 1..Cardinality(S)
  <2>1. IsFiniteSet(ranks) /\ Cardinality(ranks) = Cardinality(S)
    BY <1>1, <1>5, FS_Bijection DEF ExistsBijection
  <2>2. ranks \subseteq 1..Cardinality(S)
    BY <1>2
  <2>3. IsFiniteSet(1..Cardinality(S)) /\ Cardinality(1..Cardinality(S)) = Cardinality(S)
    BY <1>1, FS_Interval
  <2> HIDE DEF ranks
  <2> QED BY <2>1, <2>2, <2>3, FS_Subset
<1> HIDE DEF rank
<1>7. ASSUME NEW n \in 1..Cardinality(S) PROVE Ranked(S, R, n) \in S /\ rank[Ranked(S, R, n)] = n
  <2>1. \E x \in S : rank[x] = n
    BY <1>6
  <2> QED BY <2>1 DEF Ranked, rank
<1>8. ASSUME NEW n \in 1..Cardinality(S), NEW k \in 1..Cardinality(S), n < k
      PROVE  <<Ranked(S, R, n), Ranked(S, R, k)>> \in R /\ Ranked(S, R, n) # Ranked(S, R, k)
  <2> DEFINE x == Ranked(S, R, n)
             y == Ranked(S, R, k)
  <2>1. x \in S /\ y \in S /\ rank[x] = n /\ rank[y] = k
    BY <1>7
  <2> HIDE DEF x, y
  <2>2. n \in Nat /\ k \in Nat /\ ~(k < n) /\ n # k
    BY <1>1, <1>8
  <2>3. x # y
    BY <2>1, <2>2
  <2>4. ~(<<y, x>> \in R)
    <3>1. ASSUME <<y, x>> \in R PROVE FALSE
      <4>1. rank[y] < rank[x]
        BY <1>3, <2>1, <2>3, <3>1
      <4> QED BY <2>1, <2>2, <4>1
    <3> QED BY <3>1
  <2>5. <<x, y>> \in R
    BY <2>1, <2>4, Zenon DEF Orders
  <2> QED BY <2>3, <2>5 DEF x, y
<1>9. ASSUME NEW x \in S PROVE \E n \in 1..Cardinality(S) : Ranked(S, R, n) = x
  <2>1. rank[x] \in 1..Cardinality(S)
    BY <1>2
  <2>2. Ranked(S, R, rank[x]) \in S /\ rank[Ranked(S, R, rank[x])] = rank[x]
    BY <1>7, <2>1
  <2> QED BY <1>4, <2>1, <2>2
<1> QED BY <1>1, <1>7, <1>8, <1>9, Zenon

-----------------------------------------------------------------------------
(* The limiter *)

\* The n-th of the positions in `at`: the one with n of them up to and including it.
Nth(at, n) == CHOOSE i \in at : Cardinality({ k \in at : k <= i }) = n

\* There is one n-th position for each n up to their number, each is the n-th for one n,
\* and they come in order.
LEMMA NthPositions ==
  ASSUME NEW at, IsFiniteSet(at), \A i \in at : i \in Int
  PROVE  /\ Cardinality(at) \in Nat
         /\ \A n \in 1..Cardinality(at) : Nth(at, n) \in at
         /\ \A n, k \in 1..Cardinality(at) : n < k => Nth(at, n) < Nth(at, k)
         /\ \A i \in at : \E n \in 1..Cardinality(at) : Nth(at, n) = i
<1> DEFINE R == { p \in at \X at : p[1] <= p[2] }
<1>1. \A i, j \in at : <<i, j>> \in R <=> i <= j
  OBVIOUS
<1> HIDE DEF R
<1>2. Orders(R, at)
  <2>1. \A i, j, k \in at : /\ i <= i /\ (i <= j \/ j <= i)
                            /\ (i <= j /\ j <= i => i = j)
                            /\ (i <= j /\ j <= k => i <= k)
    OBVIOUS
  <2> QED BY <1>1, <2>1, Zenon DEF Orders
<1>3. \A n : Nth(at, n) = Ranked(at, R, n)
  <2>1. \A i \in at : { k \in at : k <= i } = { k \in at : <<k, i>> \in R }
    BY <1>1
  <2> QED BY <2>1, Zenon DEF Nth, Ranked
<1>4. /\ Cardinality(at) \in Nat
      /\ \A n \in 1..Cardinality(at) : Nth(at, n) \in at
      /\ \A n, k \in 1..Cardinality(at) :
           n < k => <<Nth(at, n), Nth(at, k)>> \in R /\ Nth(at, n) # Nth(at, k)
      /\ \A i \in at : \E n \in 1..Cardinality(at) : Nth(at, n) = i
  BY <1>2, <1>3, RankedOnce
<1>5. \A i, j \in at : i <= j /\ i # j => i < j
  OBVIOUS
<1>6. \A n, k \in 1..Cardinality(at) : n < k => Nth(at, n) < Nth(at, k)
  BY <1>1, <1>4, <1>5, Zenon
<1> QED BY <1>4, <1>6, Zenon

\* The limiter counts as everyone does.
LEMMA LimiterCounts == \A S : Limiter!Cardinality(S) = Cardinality(S)
BY DEF Limiter!Cardinality, Cardinality

\* An interval has one length.
LEMMA SameInterval ==
  ASSUME NEW m \in Nat, NEW n \in Nat, 1..m = 1..n
  PROVE  m = n
<1>1. ASSUME m < n PROVE FALSE
  <2>1. n \in 1..n /\ n \notin 1..m
    BY <1>1
  <2> QED BY <2>1
<1>2. ASSUME n < m PROVE FALSE
  <2>1. m \in 1..m /\ m \notin 1..n
    BY <1>2
  <2> QED BY <2>1
<1> QED BY <1>1, <1>2

\* t consists of the entries of s at the places p, in the order of s.
Picks(p, t, s) ==
  /\ \A n \in 1..Len(t) : p[n] \in 1..Len(s) /\ t[n] = s[p[n]]
  /\ \A n, k \in 1..Len(t) : n < k => p[n] < p[k]

Places(at) == [n \in 1..Cardinality(at) |-> Nth(at, n)]

\* t is what a filter leaves of s, a sequence of elements of S: its entries at the
\* positions in `at`, each once and in order.
Filtered(t, s, at, S) ==
  /\ t \in Seq(S)
  /\ Len(t) = Cardinality(at)
  /\ Cardinality(at) \in Nat /\ Cardinality(at) <= Len(s)
  /\ Picks(Places(at), t, s)
  /\ \A n \in 1..Cardinality(at) : Places(at)[n] \in at
  /\ \A i \in at : \E n \in 1..Cardinality(at) : Places(at)[n] = i

LEMMA KeptEntries ==
  ASSUME NEW S, NEW s \in Seq(S), NEW at, at \subseteq 1..Len(s)
  PROVE  Filtered(Limiter!KeptAt(s, at), s, at, S)
<1> DEFINE kept == Limiter!KeptAt(s, at)
           N == Cardinality(at)
<1>1. Len(s) \in Nat /\ IsFiniteSet(1..Len(s)) /\ Cardinality(1..Len(s)) = Len(s)
  <2>1. Len(s) \in Nat
    BY LenProperties
  <2> QED BY <2>1, FS_Interval
<1>2. IsFiniteSet(at) /\ N <= Len(s) /\ \A i \in at : i \in Int /\ i \in 1..Len(s)
  <2>1. IsFiniteSet(at) /\ Cardinality(at) <= Cardinality(1..Len(s))
    BY <1>1, FS_Subset, Zenon
  <2>2. \A i \in at : i \in 1..Len(s)
    BY Zenon
  <2> QED BY <1>1, <2>1, <2>2
<1>3. /\ N \in Nat
      /\ \A n \in 1..N : Nth(at, n) \in at
      /\ \A n, k \in 1..N : n < k => Nth(at, n) < Nth(at, k)
      /\ \A i \in at : \E n \in 1..N : Nth(at, n) = i
  BY <1>2, NthPositions
<1>4. kept = [n \in 1..N |-> s[Nth(at, n)]]
  BY Zenon DEF Limiter!KeptAt, Nth, Limiter!Cardinality, Cardinality
<1> HIDE DEF kept, N
<1>5. \A n \in 1..N : s[Nth(at, n)] \in S
  BY <1>2, <1>3, ElementOfSeq
<1>6. kept \in [1..N -> S]
  BY <1>4, <1>5
<1>7. kept \in Seq(S)
  BY <1>3, <1>6, SeqDef
<1>8. Len(kept) = N
  <2>1. DOMAIN kept = 1..Len(kept) /\ DOMAIN kept = 1..N /\ Len(kept) \in Nat
    BY <1>6, <1>7, LenProperties
  <2> QED BY <1>3, <2>1, SameInterval
<1>9. Places(at) = [n \in 1..N |-> Nth(at, n)]
  BY DEF Places, N
<1>10. /\ \A n \in 1..N : Places(at)[n] \in at
       /\ \A i \in at : \E n \in 1..N : Places(at)[n] = i
  BY <1>3, <1>9
<1>11. Picks(Places(at), kept, s)
  <2>1. \A n \in 1..N : Places(at)[n] = Nth(at, n) /\ kept[n] = s[Nth(at, n)]
    BY <1>4, <1>9
  <2>2. \A n \in 1..N : Places(at)[n] \in 1..Len(s) /\ kept[n] = s[Places(at)[n]]
    BY <1>2, <1>3, <2>1, Zenon
  <2>3. \A n, k \in 1..N : n < k => Places(at)[n] < Places(at)[k]
    BY <1>3, <2>1
  <2> QED BY <1>8, <2>2, <2>3, Zenon DEF Picks
<1> QED BY <1>2, <1>3, <1>7, <1>8, <1>10, <1>11, Zenon DEF Filtered, kept, N

\* The limiter's bounds are numbers, and none of them 0 that must not be.
LEMMA LimiterBounds ==
  WINDOW_MS \in Nat \ {0} /\ MAX_KEYS \in Nat \ {0} /\ MAX_HITS \in Nat
BY SiteAssumption

\* An entry of the map, and a call in the history.
Hit  == [key : Clients, times : Seq(Int)]
Call == [key : Clients, at : Int, over : BOOLEAN]

\* m is the last of the calls cs by key.
IsLast(cs, key, m) ==
  /\ m \in 1..Len(cs) /\ cs[m].key = key
  /\ \A l \in 1..Len(cs) : cs[l].key = key => l <= m

\* Between call m and its client's next, MAX_KEYS other clients call.
Between(cs, m, u)  == { cs[k].key : k \in (m + 1)..u }
PushedOut(cs, m) ==
  \E u \in m..Len(cs) : /\ cs[m].key \notin Between(cs, m, u)
                        /\ Cardinality(Between(cs, m, u)) >= MAX_KEYS

\* Call m need not be remembered: it is out of the window, or the limiter had to make
\* room after it or a later one of its client.
Lost(cs, now, m) ==
  \/ now - cs[m].at >= WINDOW_MS
  \/ \E l \in m..Len(cs) : cs[l].key = cs[m].key /\ PushedOut(cs, l)

\* g says which call each time of an entry is the time of: no call twice, the last one
\* last, and every call of the key that is not lost.
Tells(g, e, cs, now) ==
  LET N == Len(e.times)
  IN  /\ N > 0
      /\ \A n \in 1..N : cs[g[n]].key = e.key /\ cs[g[n]].at = e.times[n]
      /\ \A n, k \in 1..N : g[n] = g[k] => n = k
      /\ IsLast(cs, e.key, g[N])
      /\ \A m \in 1..Len(cs) :
           cs[m].key = e.key => Lost(cs, now, m) \/ \E n \in 1..N : g[n] = m

\* The map remembers the calls: its entries are those of different keys, in the order in
\* which these last called, each true; and a key has no entry only if its calls are lost.
Remembers(map, cs, now) ==
  /\ map \in Seq(Hit)
  /\ \A i \in 1..Len(map) :
       \E g \in [1..Len(map[i].times) -> 1..Len(cs)] : Tells(g, map[i], cs, now)
  /\ \A i, j \in 1..Len(map) : i < j =>
       /\ map[i].key # map[j].key
       /\ \A m, l \in 1..Len(cs) :
            IsLast(cs, map[i].key, m) /\ IsLast(cs, map[j].key, l) => m < l
  /\ \A m \in 1..Len(cs) :
       Lost(cs, now, m) \/ \E i \in 1..Len(map) : map[i].key = cs[m].key

\* The history is in the order of time.
CallsInOrder(cs, now) ==
  /\ cs \in Seq(Call) /\ now \in Nat
  /\ \A m \in 1..Len(cs) : cs[m].at <= now
  /\ \A m, l \in 1..Len(cs) : m <= l => cs[m].at <= cs[l].at

\* What makes the limiter's promise inductive: its map remembers the calls that count.
LimiterInv ==
  /\ CallsInOrder(calls, limiterTime)
  /\ Remembers(hits, calls, limiterTime)
  /\ LimitIsHonest

\* An entry of the map is a key and its times.
LEMMA EntryTyped ==
  ASSUME NEW map \in Seq(Hit), NEW i \in 1..Len(map)
  PROVE  /\ map[i] \in Hit /\ map[i].key \in Clients /\ map[i].times \in Seq(Int)
         /\ Len(map[i].times) \in Nat
<1>1. map[i] \in Hit
  BY ElementOfSeq
<1>2. map[i].key \in Clients /\ map[i].times \in Seq(Int)
  BY <1>1 DEF Hit
<1> QED BY <1>1, <1>2, LenProperties

\* A map that lost only entries whose calls are lost still remembers the rest.
LEMMA SubmapRemembers ==
  ASSUME NEW cs, NEW now, NEW map, Remembers(map, cs, now), NEW map2, map2 \in Seq(Hit),
         NEW h, Picks(h, map2, map),
         \A i \in 1..Len(map) :
           \/ \E n \in 1..Len(map2) : h[n] = i
           \/ \A m \in 1..Len(cs) : cs[m].key = map[i].key => Lost(cs, now, m)
  PROVE  Remembers(map2, cs, now)
<1>1. ASSUME NEW n \in 1..Len(map2)
      PROVE  \E g \in [1..Len(map2[n].times) -> 1..Len(cs)] : Tells(g, map2[n], cs, now)
  BY DEF Remembers, Picks
<1>2. ASSUME NEW n \in 1..Len(map2), NEW k \in 1..Len(map2), n < k
      PROVE  /\ map2[n].key # map2[k].key
             /\ \A m, l \in 1..Len(cs) :
                  IsLast(cs, map2[n].key, m) /\ IsLast(cs, map2[k].key, l) => m < l
  <2>1. /\ h[n] \in 1..Len(map) /\ h[k] \in 1..Len(map) /\ h[n] < h[k]
        /\ map2[n] = map[h[n]] /\ map2[k] = map[h[k]]
    BY <1>2 DEF Picks
  <2>2. /\ map[h[n]].key # map[h[k]].key
        /\ \A m, l \in 1..Len(cs) :
             IsLast(cs, map[h[n]].key, m) /\ IsLast(cs, map[h[k]].key, l) => m < l
    <3>1. \A i, j \in 1..Len(map) : i < j =>
            /\ map[i].key # map[j].key
            /\ \A m, l \in 1..Len(cs) :
                 IsLast(cs, map[i].key, m) /\ IsLast(cs, map[j].key, l) => m < l
      BY Zenon DEF Remembers
    <3> QED BY <2>1, <3>1, Zenon
  <2> QED BY ONLY <2>1, <2>2
<1>3. ASSUME NEW m \in 1..Len(cs)
      PROVE  Lost(cs, now, m) \/ \E n \in 1..Len(map2) : map2[n].key = cs[m].key
  <2>1. CASE Lost(cs, now, m)
    BY <2>1
  <2>2. ASSUME NEW i \in 1..Len(map), map[i].key = cs[m].key
        PROVE  Lost(cs, now, m) \/ \E n \in 1..Len(map2) : map2[n].key = cs[m].key
    BY <2>2 DEF Picks
  <2> QED BY <2>1, <2>2 DEF Remembers
<1> QED BY <1>1, <1>2, <1>3, Zenon DEF Remembers

\* A sweep drops only keys whose calls are all out of the window.
LEMMA SweepRemembers ==
  ASSUME CallsInOrder(calls, limiterTime), Remembers(hits, calls, limiterTime)
  PROVE  /\ Remembers(Limiter!Swept, calls, limiterTime)
         /\ Len(Limiter!Swept) \in Nat /\ Len(Limiter!Swept) <= Len(hits)
<1> DEFINE at  == { i \in 1..Len(hits) : limiterTime - Limiter!LastHit(hits[i]) < WINDOW_MS }
           map == Limiter!KeptAt(hits, at)
<1>1. hits \in Seq(Hit) /\ at \subseteq 1..Len(hits) /\ Len(hits) \in Nat
  BY LenProperties DEF Remembers
<1> DEFINE h == Places(at)
<1>2. /\ map \in Seq(Hit) /\ Len(map) \in Nat /\ Len(map) <= Len(hits)
      /\ Picks(h, map, hits)
      /\ \A i \in at : \E n \in 1..Len(map) : h[n] = i
  <2> HIDE DEF at
  <2>1. /\ Limiter!KeptAt(hits, at) \in Seq(Hit)
        /\ Len(Limiter!KeptAt(hits, at)) = Cardinality(at)
        /\ Cardinality(at) \in Nat /\ Cardinality(at) <= Len(hits)
        /\ Picks(Places(at), Limiter!KeptAt(hits, at), hits)
        /\ \A i \in at : \E n \in 1..Cardinality(at) : Places(at)[n] = i
    <3>1. Filtered(Limiter!KeptAt(hits, at), hits, at, Hit)
      BY <1>1, KeptEntries
    <3> QED BY <3>1, Zenon DEF Filtered
  <2> HIDE DEF map, h
  <2> QED BY <2>1, Zenon DEF map, h
<1>3. ASSUME NEW i \in 1..Len(hits), i \notin at, NEW m \in 1..Len(calls),
             calls[m].key = hits[i].key
      PROVE  Lost(calls, limiterTime, m)
  <2>1. PICK g \in [1..Len(hits[i].times) -> 1..Len(calls)] : Tells(g, hits[i], calls, limiterTime)
    BY DEF Remembers
  <2> DEFINE N == Len(hits[i].times)
  <2>2. N \in Nat /\ N > 0 /\ N \in 1..N
    BY <1>1, <2>1, EntryTyped DEF Tells
  <2>3. g[N] \in 1..Len(calls) /\ m <= g[N] /\ calls[g[N]].at = hits[i].times[N]
    BY <1>3, <2>1, <2>2 DEF Tells, IsLast
  <2>4. calls[m].at <= hits[i].times[N]
    BY <2>3 DEF CallsInOrder
  <2>5. ~(limiterTime - hits[i].times[N] < WINDOW_MS)
    BY <1>3 DEF Limiter!LastHit
  <2>6. /\ limiterTime \in Int /\ WINDOW_MS \in Int /\ calls[m].at \in Int
        /\ hits[i].times[N] \in Int
    <3>1. calls[m] \in Call
      BY ElementOfSeq DEF CallsInOrder
    <3>2. hits[i].times[N] \in Int
      BY <1>1, <2>2, EntryTyped, ElementOfSeq
    <3> QED BY <3>1, <3>2, LimiterBounds DEF CallsInOrder, Call
  <2>7. limiterTime - calls[m].at >= WINDOW_MS
    <3> HIDE DEF N
    <3> QED BY <2>4, <2>5, <2>6
  <2> QED BY <2>7 DEF Lost
<1>4. Remembers(map, calls, limiterTime)
  <2> HIDE DEF map, at, h
  <2>2. \A i \in 1..Len(hits) :
          \/ \E n \in 1..Len(map) : h[n] = i
          \/ \A m \in 1..Len(calls) : calls[m].key = hits[i].key => Lost(calls, limiterTime, m)
    BY <1>2, <1>3
  <2> QED BY <1>2, <2>2, SubmapRemembers
<1>5. Limiter!Swept = map \/ Limiter!Swept = hits
  BY DEF Limiter!Swept
<1> HIDE DEF map
<1> QED BY <1>1, <1>2, <1>4, <1>5

\* As time passes more calls are lost, and the map still remembers the rest.
LEMMA TimeRemembers ==
  ASSUME NEW cs, NEW now, CallsInOrder(cs, now), NEW map, Remembers(map, cs, now)
  PROVE  CallsInOrder(cs, now + 1) /\ Remembers(map, cs, now + 1)
<1>1. now \in Nat /\ cs \in Seq(Call) /\ \A m \in 1..Len(cs) : cs[m].at \in Int
  <2>1. cs \in Seq(Call) /\ now \in Nat
    BY DEF CallsInOrder
  <2>2. \A m \in 1..Len(cs) : cs[m] \in Call
    BY <2>1, ElementOfSeq
  <2> QED BY <2>1, <2>2 DEF Call
<1>2. CallsInOrder(cs, now + 1)
  <2>1. ASSUME NEW m \in 1..Len(cs) PROVE cs[m].at <= now + 1
    BY <1>1 DEF CallsInOrder
  <2>2. now + 1 \in Nat
    BY <1>1
  <2> QED BY <2>1, <2>2, Zenon DEF CallsInOrder
<1>3. ASSUME NEW m \in 1..Len(cs), Lost(cs, now, m) PROVE Lost(cs, now + 1, m)
  <2>1. CASE now - cs[m].at >= WINDOW_MS
    <3>1. cs[m].at \in Int /\ now \in Int /\ WINDOW_MS \in Int
      BY <1>1, LimiterBounds
    <3>2. (now + 1) - cs[m].at >= WINDOW_MS
      BY <2>1, <3>1
    <3> QED BY <3>2, Zenon DEF Lost
  <2> QED BY <1>3, <2>1, Zenon DEF Lost
<1>4. ASSUME NEW i \in 1..Len(map)
      PROVE  \E g \in [1..Len(map[i].times) -> 1..Len(cs)] : Tells(g, map[i], cs, now + 1)
  <2>1. PICK g \in [1..Len(map[i].times) -> 1..Len(cs)] : Tells(g, map[i], cs, now)
    BY DEF Remembers
  <2>2. Tells(g, map[i], cs, now + 1)
    BY <1>3, <2>1, Zenon DEF Tells
  <2> QED BY <2>2
<1>5. ASSUME NEW m \in 1..Len(cs)
      PROVE  Lost(cs, now + 1, m) \/ \E i \in 1..Len(map) : map[i].key = cs[m].key
  BY <1>3, Zenon DEF Remembers
<1> QED BY <1>2, <1>4, <1>5, Zenon DEF Remembers

\* cs2 are the calls cs and one more, c.
OneMore(cs2, cs, c) ==
  /\ Len(cs) \in Nat /\ Len(cs2) = Len(cs) + 1
  /\ \A m \in 1..Len(cs) : cs2[m] = cs[m]
  /\ cs2[Len(cs2)] = c

\* A call more: what was lost stays lost, and only its own client's last call is another.
LEMMA CallsGrow ==
  ASSUME NEW cs, NEW now, CallsInOrder(cs, now), NEW c \in Call, c.at = now
  PROVE  LET cs2 == Append(cs, c)
         IN  /\ OneMore(cs2, cs, c) /\ CallsInOrder(cs2, now)
             /\ \A m \in 1..Len(cs) : Lost(cs, now, m) => Lost(cs2, now, m)
             /\ \A k, m : k # c.key => (IsLast(cs2, k, m) <=> IsLast(cs, k, m))
             /\ \A m : IsLast(cs2, c.key, m) <=> m = Len(cs2)
<1> DEFINE cs2 == Append(cs, c)
           L   == Len(cs)
<1>1. cs \in Seq(Call) /\ now \in Nat /\ L \in Nat
  BY LenProperties DEF CallsInOrder
<1>2. OneMore(cs2, cs, c) /\ cs2 \in Seq(Call)
  BY <1>1, AppendProperties DEF OneMore
<1> HIDE DEF cs2, L
<1>3. Len(cs2) = L + 1 /\ cs2[L + 1] = c /\ \A m \in 1..L : cs2[m] = cs[m]
  BY <1>2 DEF OneMore, L
<1>4. \A m \in 1..(L + 1) : m \in 1..L \/ m = L + 1
  BY <1>1
<1>5. CallsInOrder(cs2, now)
  <2>1. \A m \in 1..L : cs2[m].at <= now
    BY <1>3 DEF CallsInOrder, L
  <2>2. now <= now
    BY <1>1
  <2>3. \A m \in 1..(L + 1) : cs2[m].at <= now
    BY <1>3, <1>4, <2>1, <2>2, Zenon
  <2>4. ASSUME NEW m \in 1..(L + 1), NEW l \in 1..(L + 1), m <= l
        PROVE  cs2[m].at <= cs2[l].at
    <3>1. CASE l = L + 1
      BY <1>3, <2>3, <3>1
    <3>2. CASE l \in 1..L
      <4>1. m \in 1..L
        BY <1>1, <2>4, <3>2
      <4> QED BY <1>3, <2>4, <3>2, <4>1 DEF CallsInOrder, L
    <3> QED BY <1>4, <3>1, <3>2
  <2> QED BY <1>1, <1>2, <1>3, <2>3, <2>4, Zenon DEF CallsInOrder
<1>6. ASSUME NEW m \in 1..L, NEW u \in m..L
      PROVE  Between(cs2, m, u) = Between(cs, m, u)
  <2>1. \A k \in (m + 1)..u : cs2[k] = cs[k]
    BY <1>1, <1>3
  <2> QED BY <2>1 DEF Between
<1>7. ASSUME NEW m \in 1..L, PushedOut(cs, m) PROVE PushedOut(cs2, m)
  <2>1. PICK u \in m..L : /\ cs[m].key \notin Between(cs, m, u)
                          /\ Cardinality(Between(cs, m, u)) >= MAX_KEYS
    BY <1>7 DEF PushedOut, L
  <2>2. cs2[m].key \notin Between(cs2, m, u) /\ Cardinality(Between(cs2, m, u)) >= MAX_KEYS
    BY <1>3, <1>6, <2>1
  <2>3. u \in m..(L + 1)
    BY <1>1
  <2> QED BY <1>3, <2>2, <2>3 DEF PushedOut
<1>8. ASSUME NEW m \in 1..L, Lost(cs, now, m) PROVE Lost(cs2, now, m)
  <2>1. CASE now - cs[m].at >= WINDOW_MS
    BY <1>3, <2>1 DEF Lost
  <2>2. ASSUME NEW l \in m..L, cs[l].key = cs[m].key, PushedOut(cs, l)
        PROVE  Lost(cs2, now, m)
    <3>1. l \in 1..L /\ l \in m..(L + 1)
      BY <1>1
    <3>2. cs2[l].key = cs2[m].key /\ PushedOut(cs2, l)
      BY <1>3, <1>7, <2>2, <3>1
    <3> QED BY <1>3, <3>1, <3>2 DEF Lost
  <2> QED BY <1>8, <2>1, <2>2 DEF Lost, L
<1>9. ASSUME NEW k, NEW m, k # c.key PROVE IsLast(cs2, k, m) <=> IsLast(cs, k, m)
  <2>1. \A l \in 1..(L + 1) : cs2[l].key = k => l \in 1..L /\ cs[l].key = k
    BY <1>3, <1>4, <1>9
  <2>2. \A l \in 1..L : l \in 1..(L + 1) /\ cs2[l].key = cs[l].key
    BY <1>1, <1>3
  <2> QED BY <1>3, <2>1, <2>2, Zenon DEF IsLast, L
<1>10. ASSUME NEW m PROVE IsLast(cs2, c.key, m) <=> m = Len(cs2)
  <2>1. L + 1 \in 1..(L + 1) /\ \A l \in 1..(L + 1) : l <= L + 1 /\ (L + 1 <= l => l = L + 1)
    BY <1>1
  <2> QED BY <1>3, <2>1, Zenon DEF IsLast
<1> QED BY <1>2, <1>5, <1>8, <1>9, <1>10, Zenon DEF cs2, L

\* A full map that does not know the key gives up its first entry.
LEMMA FirstEvicted ==
  ASSUME NEW map \in Seq(Hit), Len(map) <= MAX_KEYS, NEW key,
         Len(map) >= MAX_KEYS, ~Limiter!Holds(map, key)
  PROVE  LET ev == Limiter!Evicted(map, key)
         IN  /\ ev \in Seq(Hit) /\ Len(ev) = Len(map) - 1
             /\ \A i \in 1..Len(ev) : ev[i] = map[i + 1] /\ i + 1 \in 1..Len(map)
<1> DEFINE ev == Limiter!Evicted(map, key)
<1>1. Len(map) \in Nat /\ Len(map) > 0 /\ Len(map) = MAX_KEYS
  <2>1. Len(map) \in Nat
    BY LenProperties
  <2> QED BY <2>1, LimiterBounds
<1>2. ev = SubSeq(map, 2, Len(map))
  <2>1. Len(map) - MAX_KEYS + 2 = 2
    BY <1>1
  <2> QED BY <2>1 DEF Limiter!Evicted
<1> HIDE DEF ev
<1>3. ev \in Seq(Hit) /\ Len(ev) = Len(map) - 1 /\ \A i \in 1..Len(ev) : ev[i] = map[i + 1]
  <2>1. \A i \in 2..Len(map) : map[i] \in Hit
    BY ElementOfSeq
  <2> QED BY <1>1, <1>2, <2>1, SubSeqProperties
<1>4. \A i \in 1..Len(ev) : i + 1 \in 1..Len(map)
  BY <1>1, <1>3
<1> QED BY <1>3, <1>4 DEF ev

\* The map without an entry of the key that calls: what is left are entries of the map, of
\* other keys and fewer than MAX_KEYS, and only a full map that does not know the key gave
\* up another, its first.
LEMMA OthersStay ==
  ASSUME NEW map \in Seq(Hit), Len(map) <= MAX_KEYS, NEW key
  PROVE  LET ev   == Limiter!Evicted(map, key)
             rest == Limiter!Without(ev, key)
         IN  /\ rest \in Seq(Hit) /\ Len(rest) < MAX_KEYS
             /\ \A n \in 1..Len(rest) : rest[n].key # key
             /\ \E h : /\ Picks(h, rest, map)
                       /\ \A i \in 1..Len(map) :
                            \/ map[i].key = key
                            \/ \E n \in 1..Len(rest) : h[n] = i
                            \/ i = 1 /\ Len(map) = MAX_KEYS /\ ~Limiter!Holds(map, key)
<1> DEFINE ev   == Limiter!Evicted(map, key)
           at   == { i \in 1..Len(ev) : ev[i].key # key }
           rest == Limiter!Without(ev, key)
           p    == Places(at)
<1>1. Len(map) \in Nat /\ MAX_KEYS \in Nat /\ MAX_KEYS > 0
  <2>1. Len(map) \in Nat
    BY LenProperties
  <2> QED BY <2>1, LimiterBounds
<1>2. CASE ~(Len(map) >= MAX_KEYS /\ ~Limiter!Holds(map, key))
  <2>1. ev = map
    BY <1>2 DEF Limiter!Evicted
  <2>2. Filtered(rest, map, at, Hit)
    <3>1. at \subseteq 1..Len(map) /\ rest = Limiter!KeptAt(map, at)
      BY <2>1 DEF Limiter!Without
    <3> HIDE DEF at, rest
    <3> QED BY <3>1, KeptEntries
  <2>3. \A i \in at : i \in 1..Len(map) /\ map[i].key # key
    BY <2>1
  <2>4. \A i \in 1..Len(map) : i \in at \/ map[i].key = key
    BY <2>1
  <2>5. at \subseteq 1..Len(map)
    BY <2>3
  <2> HIDE DEF at, rest, p, ev
  <2>6. /\ rest \in Seq(Hit) /\ Len(rest) = Cardinality(at)
        /\ Cardinality(at) \in Nat /\ Cardinality(at) <= Len(map)
        /\ Picks(p, rest, map)
        /\ \A n \in 1..Cardinality(at) : p[n] \in at
        /\ \A i \in at : \E n \in 1..Cardinality(at) : p[n] = i
    BY <2>2, Zenon DEF Filtered, p
  <2>7. \A n \in 1..Len(rest) : rest[n].key # key
    BY <2>3, <2>6 DEF Picks
  <2>8. Len(rest) < MAX_KEYS
    <3>1. CASE Limiter!Holds(map, key)
      <4>1. PICK i \in 1..Len(map) : map[i].key = key
        BY <3>1 DEF Limiter!Holds
      <4>2. i \notin at
        BY <2>3, <4>1
      <4>3. IsFiniteSet(1..Len(map)) /\ Cardinality(1..Len(map)) = Len(map)
        <5>1. Len(map) \in Nat
          BY <1>1
        <5> QED BY ONLY <5>1, FS_Interval
      <4>4. Cardinality(at) # Len(map)
        BY <2>5, <4>1, <4>2, <4>3, FS_Subset
      <4> QED BY <1>1, <2>6, <4>4
    <3>2. CASE ~Limiter!Holds(map, key)
      BY <1>1, <1>2, <2>6, <3>2
    <3> QED BY <3>1, <3>2
  <2>9. \A i \in 1..Len(map) : map[i].key = key \/ \E n \in 1..Len(rest) : p[n] = i
    BY <2>4, <2>6, Zenon
  <2> QED BY <2>6, <2>7, <2>8, <2>9, Zenon DEF rest, ev
<1>3. CASE Len(map) >= MAX_KEYS /\ ~Limiter!Holds(map, key)
  <2>1. Len(map) = MAX_KEYS
    BY <1>1, <1>3
  <2>3. /\ ev \in Seq(Hit) /\ Len(ev) = Len(map) - 1
        /\ \A i \in 1..Len(ev) : ev[i] = map[i + 1] /\ i + 1 \in 1..Len(map)
    BY <1>3, FirstEvicted
  <2>4. \A i \in 1..Len(map) : map[i].key # key
    BY <1>3 DEF Limiter!Holds
  <2>5. at = 1..Len(ev)
    <3> HIDE DEF ev
    <3> QED BY <2>3, <2>4
  <2>6. Filtered(rest, ev, at, Hit)
    <3>1. at \subseteq 1..Len(ev) /\ rest = Limiter!KeptAt(ev, at)
      BY DEF Limiter!Without
    <3> HIDE DEF at, rest, ev
    <3> QED BY <2>3, <3>1, KeptEntries
  <2> DEFINE h == [n \in 1..Len(rest) |-> p[n] + 1]
  <2> HIDE DEF at, rest, p, ev
  <2>7. /\ rest \in Seq(Hit) /\ Len(rest) = Cardinality(at)
        /\ Cardinality(at) \in Nat /\ Cardinality(at) <= Len(ev)
        /\ \A n \in 1..Len(rest) : p[n] \in 1..Len(ev) /\ rest[n] = ev[p[n]]
        /\ \A n, k \in 1..Len(rest) : n < k => p[n] < p[k]
        /\ \A i \in at : \E n \in 1..Len(rest) : p[n] = i
    BY <2>6, Zenon DEF Filtered, Picks, p
  <2>8. \A n \in 1..Len(rest) : h[n] = p[n] + 1
    OBVIOUS
  <2> HIDE DEF h
  <2>9. Picks(h, rest, map)
    <3>1. \A n \in 1..Len(rest) : h[n] \in 1..Len(map) /\ rest[n] = map[h[n]]
      BY <2>3, <2>7, <2>8
    <3>2. ASSUME NEW n \in 1..Len(rest), NEW k \in 1..Len(rest), n < k PROVE h[n] < h[k]
      <4>1. p[n] < p[k] /\ p[n] \in 1..Len(ev) /\ p[k] \in 1..Len(ev)
        BY <2>7, <3>2
      <4>2. p[n] \in Int /\ p[k] \in Int
        BY <1>1, <2>3, <4>1
      <4> QED BY <2>8, <4>1, <4>2
    <3> QED BY <3>1, <3>2 DEF Picks
  <2>10. \A n \in 1..Len(rest) : rest[n].key # key
    <3>1. ASSUME NEW n \in 1..Len(rest) PROVE rest[n].key # key
      <4>1. p[n] \in 1..Len(ev) /\ rest[n] = ev[p[n]]
        BY <2>7
      <4>2. rest[n] = map[p[n] + 1] /\ p[n] + 1 \in 1..Len(map)
        BY <2>3, <4>1
      <4> QED BY <2>4, <4>2
    <3> QED BY <3>1
  <2>11. Len(rest) < MAX_KEYS
    BY <1>1, <2>1, <2>3, <2>7
  <2>12. ASSUME NEW i \in 1..Len(map), i # 1 PROVE \E n \in 1..Len(rest) : h[n] = i
    <3>1. i - 1 \in 1..Len(ev) /\ i - 1 + 1 = i
      BY <1>1, <2>3, <2>12
    <3>2. PICK n \in 1..Len(rest) : p[n] = i - 1
      BY <2>5, <2>7, <3>1
    <3> QED BY <2>8, <3>1, <3>2
  <2>13. \A i \in 1..Len(map) :
           \/ map[i].key = key
           \/ \E n \in 1..Len(rest) : h[n] = i
           \/ i = 1 /\ Len(map) = MAX_KEYS /\ ~Limiter!Holds(map, key)
    BY <1>3, <2>1, <2>12
  <2> QED BY <2>7, <2>9, <2>10, <2>11, <2>13, Zenon DEF rest, ev
<1> QED BY <1>2, <1>3

\* Finitely many clients call between two calls.
LEMMA BetweenFinite ==
  ASSUME NEW cs, NEW m \in Nat, NEW u \in Int
  PROVE  IsFiniteSet(Between(cs, m, u)) /\ Cardinality(Between(cs, m, u)) \in Nat
<1> DEFINE B == Between(cs, m, u)
           I == (m + 1)..u
           q == [k \in I |-> cs[k].key]
<1>1. q \in [I -> B] /\ \A t \in B : \E k \in I : q[k] = t
  BY DEF Between
<1>2. IsFiniteSet(I)
  <2>1. m + 1 \in Int
    OBVIOUS
  <2> QED BY ONLY <2>1, u \in Int, FS_Interval
<1> HIDE DEF B, I, q
<1>3. IsFiniteSet(B)
  <2>1. q \in Surjection(I, B)
    BY <1>1, Fun_IsSurj
  <2> QED BY <1>2, <2>1, FS_Surjection
<1> QED BY <1>3, FS_CardinalityType DEF B

\* A full map's first entry gives way to a new key: MAX_KEYS clients have called since its
\* last call, those of the other entries and the new one, so its calls need not be
\* remembered.
LEMMA FirstGivesWay ==
  ASSUME NEW cs, NEW now, CallsInOrder(cs, now), NEW map, Remembers(map, cs, now),
         Len(map) = MAX_KEYS, NEW c \in Call, c.at = now,
         \A i \in 1..Len(map) : map[i].key # c.key,
         NEW m \in 1..Len(cs), cs[m].key = map[1].key
  PROVE  Lost(Append(cs, c), now, m)
<1> DEFINE cs2 == Append(cs, c)
           L   == Len(cs)
           N   == MAX_KEYS
<1>1. L \in Nat /\ Len(cs2) = L + 1 /\ cs2[L + 1] = c /\ \A k \in 1..L : cs2[k] = cs[k]
  <2>1. OneMore(cs2, cs, c)
    BY CallsGrow
  <2> HIDE DEF cs2
  <2> QED BY <2>1 DEF OneMore
<1> HIDE DEF cs2
<1>2. N \in Nat /\ N > 0 /\ 1 \in 1..N
  BY LimiterBounds
<1>3. ASSUME NEW i \in 1..N PROVE \E l \in 1..L : IsLast(cs, map[i].key, l)
  <2>1. PICK g \in [1..Len(map[i].times) -> 1..L] : Tells(g, map[i], cs, now)
    BY DEF Remembers
  <2> QED BY <2>1 DEF Tells, IsLast
<1>4. PICK l1 \in 1..L : IsLast(cs, map[1].key, l1)
  BY <1>2, <1>3
<1> DEFINE B == Between(cs2, l1, L + 1)
           f == [i \in 1..N |-> IF i = 1 THEN c.key ELSE map[i].key]
<1>5. ASSUME NEW i \in 1..N PROVE f[i] \in B
  <2>1. CASE i = 1
    <3>1. L + 1 \in (l1 + 1)..(L + 1)
      BY <1>1
    <3> QED BY <1>1, <2>1, <3>1 DEF Between
  <2>2. CASE i # 1
    <3>1. PICK l \in 1..L : IsLast(cs, map[i].key, l)
      BY <1>3
    <3>2. 1 < i
      BY <1>2, <2>2
    <3>3. l1 < l
      BY <1>2, <1>4, <3>1, <3>2 DEF Remembers
    <3>4. l \in (l1 + 1)..(L + 1) /\ cs2[l].key = map[i].key
      <4>1. cs2[l].key = map[i].key
        BY <1>1, <3>1 DEF IsLast
      <4> QED BY <1>1, <3>3, <4>1
    <3>5. map[i].key \in B
      BY <3>4 DEF Between
    <3> QED BY <2>2, <3>5
  <2> QED BY <2>1, <2>2
<1>6. ASSUME NEW i \in 1..N, NEW j \in 1..N, i < j PROVE f[i] # f[j]
  <2>1. j # 1 /\ f[j] = map[j].key
    BY <1>2, <1>6
  <2>2. CASE i = 1
    BY <2>1, <2>2
  <2>3. CASE i # 1
    BY <1>6, <2>1, <2>3 DEF Remembers
  <2> QED BY <2>2, <2>3
<1>7. IsFiniteSet(B) /\ Cardinality(B) \in Nat
  BY <1>1, BetweenFinite
<1>8. Cardinality(B) >= N
  <2> HIDE DEF f, B
  <2>1. f \in [1..N -> B]
    <3>1. f = [i \in 1..N |-> IF i = 1 THEN c.key ELSE map[i].key]
      BY DEF f
    <3> QED BY <1>5, <3>1
  <2>2. \A i, j \in 1..N : f[i] = f[j] => i = j
    <3>1. ASSUME NEW i \in 1..N, NEW j \in 1..N, f[i] = f[j], i # j PROVE FALSE
      <4>1. i < j \/ j < i
        BY <1>2, <3>1
      <4> QED BY <1>6, <3>1, <4>1
    <3> QED BY <3>1
  <2>3. f \in Injection(1..N, B)
    BY <2>1, <2>2, Fun_IsInj
  <2>4. Cardinality(1..N) <= Cardinality(B)
    BY <1>7, <2>3, FS_Injection DEF ExistsInjection
  <2>5. Cardinality(1..N) = N
    <3>1. N \in Nat
      BY <1>2
    <3> HIDE DEF N
    <3> QED BY ONLY <3>1, FS_Interval
  <2> QED BY <1>2, <1>7, <2>4, <2>5
<1>9. map[1].key \notin B
  <2>1. ASSUME NEW k \in (l1 + 1)..(L + 1), cs2[k].key = map[1].key PROVE FALSE
    <3>1. k # L + 1
      BY <1>1, <1>2, <2>1
    <3>2. k \in 1..L /\ l1 < k
      BY <1>1, <3>1
    <3>3. cs[k].key = map[1].key
      BY <1>1, <2>1, <3>2
    <3>4. k <= l1
      BY <1>4, <3>2, <3>3 DEF IsLast
    <3> QED BY <1>1, <3>2, <3>4
  <2> QED BY <2>1 DEF Between
<1>10. PushedOut(cs2, l1)
  <2> HIDE DEF B
  <2>1. L + 1 \in l1..(L + 1) /\ L + 1 \in l1..Len(cs2)
    BY <1>1
  <2>2. cs2[l1].key \notin B /\ Cardinality(B) >= MAX_KEYS
    BY <1>1, <1>4, <1>8, <1>9 DEF IsLast
  <2> QED BY <2>1, <2>2 DEF B, PushedOut
<1>11. l1 \in m..Len(cs2) /\ cs2[l1].key = cs2[m].key
  <2>1. m <= l1 /\ cs[l1].key = cs[m].key
    BY <1>4 DEF IsLast
  <2> QED BY <1>1, <2>1
<1>12. Lost(cs2, now, m)
  BY <1>10, <1>11 DEF Lost
<1> QED BY <1>12 DEF cs2

\* g says which of the key's calls the times are of, no call twice; what it leaves out is lost.
Recalls(g, times, key, cs, now) ==
  /\ \A n \in 1..Len(times) :
       g[n] \in 1..Len(cs) /\ cs[g[n]].key = key /\ cs[g[n]].at = times[n]
  /\ \A n, k \in 1..Len(times) : g[n] = g[k] => n = k
  /\ \A m \in 1..Len(cs) :
       cs[m].key = key => Lost(cs, now, m) \/ \E n \in 1..Len(times) : g[n] = m

\* The times the limiter finds under a key, none if it has no entry, tell its calls.
LEMMA TimesRecall ==
  ASSUME NEW cs, NEW now, NEW map, Remembers(map, cs, now), Len(map) <= MAX_KEYS, NEW key
  PROVE  LET times == Limiter!TimesOf(Limiter!Evicted(map, key), key)
         IN  times \in Seq(Int) /\ \E g : Recalls(g, times, key, cs, now)
<1> DEFINE ev == Limiter!Evicted(map, key)
           times == Limiter!TimesOf(ev, key)
<1>1. map \in Seq(Hit)
  BY DEF Remembers
<1>2. CASE Limiter!Holds(map, key)
  <2>1. ev = map
    BY <1>2 DEF Limiter!Evicted
  <2> DEFINE i == CHOOSE i \in 1..Len(map) : map[i].key = key
  <2>2. i \in 1..Len(map) /\ map[i].key = key
    BY <1>2 DEF Limiter!Holds
  <2> HIDE DEF i
  <2>3. times = map[i].times
    BY <1>2, <2>1 DEF Limiter!TimesOf, i
  <2> HIDE DEF times
  <2>4. PICK g \in [1..Len(map[i].times) -> 1..Len(cs)] : Tells(g, map[i], cs, now)
    BY <2>2 DEF Remembers
  <2>5. \A n \in 1..Len(times) : g[n] \in 1..Len(cs)
    BY <2>3, <2>4
  <2>6. Recalls(g, times, key, cs, now)
    BY <2>2, <2>3, <2>4, <2>5, Zenon DEF Tells, Recalls
  <2>7. times \in Seq(Int)
    BY <1>1, <2>2, <2>3, EntryTyped
  <2> QED BY <2>6, <2>7 DEF times
<1>3. CASE ~Limiter!Holds(map, key)
  <2>1. ~Limiter!Holds(ev, key)
    <3>1. CASE Len(map) >= MAX_KEYS
      <4>1. \A i \in 1..Len(ev) : ev[i] = map[i + 1] /\ i + 1 \in 1..Len(map)
        BY <1>1, <1>3, <3>1, FirstEvicted
      <4> HIDE DEF ev
      <4> QED BY <1>3, <4>1 DEF Limiter!Holds
    <3>2. CASE ~(Len(map) >= MAX_KEYS)
      BY <1>3, <3>2 DEF Limiter!Evicted
    <3> QED BY <3>1, <3>2
  <2>2. times = <<>>
    BY <2>1 DEF Limiter!TimesOf
  <2> HIDE DEF times
  <2>3. times \in Seq(Int) /\ Len(times) = 0
    BY <2>2, EmptySeq
  <2>4. ASSUME NEW m \in 1..Len(cs), cs[m].key = key PROVE Lost(cs, now, m)
    BY <1>3, <2>4, Zenon DEF Remembers, Limiter!Holds
  <2>5. \A n \in 1..Len(times) : FALSE
    BY <2>3
  <2>6. Recalls(<<>>, times, key, cs, now)
    BY <2>4, <2>5, Zenon DEF Recalls
  <2> QED BY <2>3, <2>6 DEF times
<1> QED BY <1>2, <1>3

\* An entry tells the calls cs, and only those of the window.
Fresh(e, cs) ==
  /\ e \in Hit /\ Len(e.times) \in Nat
  /\ \E q \in [1..Len(e.times) -> 1..Len(cs)] :
       /\ Tells(q, e, cs, limiterTime)
       /\ \A n \in 1..Len(e.times) : limiterTime - cs[q[n]].at < WINDOW_MS

\* The entry that a key gets when it calls tells its calls of the window.
LEMMA NewEntry ==
  ASSUME NEW cs, CallsInOrder(cs, limiterTime), NEW c \in Call, c.at = limiterTime,
         NEW old \in Seq(Int), NEW g, Recalls(g, old, c.key, cs, limiterTime)
  PROVE  Fresh([key |-> c.key, times |-> Append(Limiter!Recent(old), limiterTime)],
               Append(cs, c))
<1> DEFINE now   == limiterTime
           cs2   == Append(cs, c)
           L     == Len(cs)
           at    == { i \in 1..Len(old) : now - old[i] < WINDOW_MS }
           kept  == Limiter!Recent(old)
           times == Append(kept, now)
           K     == Len(kept)
           e     == [key |-> c.key, times |-> times]
           p     == Places(at)
<1>1. /\ L \in Nat /\ Len(cs2) = L + 1 /\ cs2[L + 1] = c /\ \A k \in 1..L : cs2[k] = cs[k]
      /\ \A m \in 1..L : Lost(cs, now, m) => Lost(cs2, now, m)
      /\ \A m : IsLast(cs2, c.key, m) <=> m = L + 1
  <2>1. /\ OneMore(cs2, cs, c)
        /\ \A m \in 1..L : Lost(cs, now, m) => Lost(cs2, now, m)
        /\ \A m : IsLast(cs2, c.key, m) <=> m = Len(cs2)
    BY CallsGrow
  <2> HIDE DEF cs2
  <2> QED BY <2>1 DEF OneMore
<1>2. Filtered(kept, old, at, Int)
  <2>1. at \subseteq 1..Len(old) /\ kept = Limiter!KeptAt(old, at)
    BY DEF Limiter!Recent
  <2> HIDE DEF at, kept
  <2> QED BY <2>1, KeptEntries
<1>3. now \in Nat /\ WINDOW_MS \in Nat /\ WINDOW_MS > 0
  BY LimiterBounds DEF CallsInOrder
<1>4. \A i \in 1..Len(old) : i \in at <=> now - old[i] < WINDOW_MS
  OBVIOUS
<1> HIDE DEF at, kept, cs2, p
<1>5. /\ kept \in Seq(Int) /\ K \in Nat
      /\ \A n \in 1..K : p[n] \in 1..Len(old) /\ kept[n] = old[p[n]] /\ p[n] \in at
      /\ \A n, k \in 1..K : n < k => p[n] < p[k]
      /\ \A i \in at : \E n \in 1..K : p[n] = i
  BY <1>2, Zenon DEF Filtered, Picks, p
<1>6. /\ times \in Seq(Int) /\ Len(times) = K + 1 /\ times[K + 1] = now
      /\ \A n \in 1..K : times[n] = kept[n]
  BY <1>3, <1>5, AppendProperties
<1> DEFINE q == [n \in 1..(K + 1) |-> IF n = K + 1 THEN L + 1 ELSE g[p[n]]]
<1>7. \A n \in 1..(K + 1) : n \in 1..K \/ n = K + 1
  BY <1>5
<1>8. K + 1 \in 1..(K + 1) /\ \A n \in 1..K : n \in 1..(K + 1) /\ n # K + 1
  BY <1>5
<1>9. q[K + 1] = L + 1 /\ \A n \in 1..K : q[n] = g[p[n]]
  BY <1>8
<1>10. \A n \in 1..K : g[p[n]] \in 1..L
  BY <1>5 DEF Recalls
<1>11. q \in [1..(K + 1) -> 1..(L + 1)]
  <2>1. \A n \in 1..(K + 1) : (IF n = K + 1 THEN L + 1 ELSE g[p[n]]) \in 1..(L + 1)
    BY <1>1, <1>7, <1>10
  <2> QED BY <2>1
<1> HIDE DEF q, times, K
<1>12. ASSUME NEW n \in 1..(K + 1) PROVE cs2[q[n]].key = c.key /\ cs2[q[n]].at = times[n]
  <2>1. CASE n = K + 1
    BY <1>1, <1>6, <1>9, <2>1
  <2>2. CASE n \in 1..K
    <3>1. p[n] \in 1..Len(old) /\ times[n] = old[p[n]] /\ q[n] = g[p[n]] /\ q[n] \in 1..L
      BY <1>5, <1>6, <1>9, <1>10, <2>2
    <3>2. cs[q[n]].key = c.key /\ cs[q[n]].at = times[n]
      BY <3>1 DEF Recalls
    <3> QED BY <1>1, <3>1, <3>2
  <2> QED BY <1>7, <2>1, <2>2
<1>13. ASSUME NEW n \in 1..(K + 1), NEW k \in 1..(K + 1), q[n] = q[k] PROVE n = k
  <2>1. \A i \in 1..K : q[i] # L + 1
    BY <1>1, <1>9, <1>10
  <2>2. CASE n \in 1..K /\ k \in 1..K
    <3>1. g[p[n]] = g[p[k]] /\ p[n] \in 1..Len(old) /\ p[k] \in 1..Len(old)
      BY <1>5, <1>9, <1>13, <2>2
    <3>2. p[n] = p[k]
      BY <3>1 DEF Recalls
    <3>3. n < k \/ k < n \/ n = k
      BY <1>5, <2>2
    <3>4. p[n] \in Int
      BY <3>1
    <3> QED BY <1>5, <2>2, <3>2, <3>3, <3>4
  <2> QED BY <1>7, <1>9, <1>13, <2>1, <2>2
<1>14. ASSUME NEW m \in 1..(L + 1), cs2[m].key = c.key
       PROVE  Lost(cs2, now, m) \/ \E n \in 1..(K + 1) : q[n] = m
  <2>1. CASE m = L + 1
    BY <1>8, <1>9, <2>1
  <2>2. CASE m \in 1..L
    <3>1. cs[m].key = c.key
      BY <1>1, <1>14, <2>2
    <3>2. CASE Lost(cs, now, m)
      BY <1>1, <2>2, <3>2
    <3>3. ASSUME NEW i \in 1..Len(old), g[i] = m
          PROVE  Lost(cs2, now, m) \/ \E n \in 1..(K + 1) : q[n] = m
      <4>1. CASE i \in at
        <5>1. PICK n \in 1..K : p[n] = i
          BY <1>5, <4>1
        <5> QED BY <1>8, <1>9, <3>3, <5>1
      <4>2. CASE i \notin at
        <5>1. ~(now - old[i] < WINDOW_MS) /\ old[i] = cs2[m].at
          BY <1>1, <1>4, <2>2, <3>3, <4>2 DEF Recalls
        <5>2. old[i] \in Int
          BY ElementOfSeq
        <5>3. now - cs2[m].at >= WINDOW_MS
          BY <1>3, <5>1, <5>2
        <5> QED BY <5>3, Zenon DEF Lost
      <4> QED BY <4>1, <4>2
    <3> QED BY <2>2, <3>1, <3>2, <3>3, Zenon DEF Recalls
  <2>3. m \in 1..L \/ m = L + 1
    BY <1>1
  <2> QED BY <2>1, <2>2, <2>3
<1>15. Tells(q, e, cs2, now)
  <2>1. Len(times) = K + 1 /\ K + 1 > 0 /\ Len(cs2) = L + 1
    BY <1>1, <1>5, <1>6
  <2>2. IsLast(cs2, c.key, q[K + 1])
    BY <1>1, <1>9
  <2>3. e.key = c.key /\ e.times = times
    OBVIOUS
  <2> HIDE DEF e
  <2> QED BY <1>12, <1>13, <1>14, <2>1, <2>2, <2>3, Zenon DEF Tells
<1>16. ASSUME NEW n \in 1..(K + 1) PROVE now - cs2[q[n]].at < WINDOW_MS
  <2>1. CASE n = K + 1
    BY <1>3, <1>6, <1>12, <2>1
  <2>2. CASE n \in 1..K
    <3>1. p[n] \in at /\ p[n] \in 1..Len(old) /\ cs2[q[n]].at = old[p[n]]
      BY <1>5, <1>6, <1>12, <2>2
    <3> QED BY <1>4, <3>1
  <2> QED BY <1>7, <2>1, <2>2
<1>17. e \in Hit /\ Len(times) \in Nat /\ Len(times) = K + 1 /\ Len(cs2) = L + 1
  BY <1>1, <1>5, <1>6 DEF Call, Hit
<1>18. Fresh(e, cs2)
  <2>1. e.times = times
    OBVIOUS
  <2> HIDE DEF e
  <2> QED BY <1>11, <1>15, <1>16, <1>17, <2>1, Zenon DEF Fresh
<1> QED BY <1>18 DEF times, kept, cs2

\* Whatever key calls, the map then remembers that call as well.
LEMMA CallRemembers ==
  ASSUME NEW cs, CallsInOrder(cs, limiterTime), NEW map, Remembers(map, cs, limiterTime),
         Len(map) <= MAX_KEYS, NEW c \in Call, c.at = limiterTime
  PROVE  LET ev    == Limiter!Evicted(map, c.key)
             times == Append(Limiter!Recent(Limiter!TimesOf(ev, c.key)), limiterTime)
             map2  == Limiter!Reinserted(ev, c.key, times)
             cs2   == Append(cs, c)
         IN  /\ Remembers(map2, cs2, limiterTime) /\ Len(map2) <= MAX_KEYS
             /\ Fresh([key |-> c.key, times |-> times], cs2)
<1> DEFINE now   == limiterTime
           ev    == Limiter!Evicted(map, c.key)
           times == Append(Limiter!Recent(Limiter!TimesOf(ev, c.key)), now)
           rest  == Limiter!Without(ev, c.key)
           e     == [key |-> c.key, times |-> times]
           map2  == Append(rest, e)
           cs2   == Append(cs, c)
           L     == Len(cs)
           R     == Len(rest)
<1>1. /\ L \in Nat /\ Len(cs2) = L + 1 /\ cs2[L + 1] = c /\ \A k \in 1..L : cs2[k] = cs[k]
      /\ \A m \in 1..L : Lost(cs, now, m) => Lost(cs2, now, m)
      /\ \A k, m : k # c.key => (IsLast(cs2, k, m) <=> IsLast(cs, k, m))
      /\ \A m : IsLast(cs2, c.key, m) <=> m = L + 1
  <2>1. /\ OneMore(cs2, cs, c)
        /\ \A m \in 1..L : Lost(cs, now, m) => Lost(cs2, now, m)
        /\ \A k, m : k # c.key => (IsLast(cs2, k, m) <=> IsLast(cs, k, m))
        /\ \A m : IsLast(cs2, c.key, m) <=> m = Len(cs2)
    BY CallsGrow
  <2> HIDE DEF cs2
  <2> QED BY <2>1 DEF OneMore
<1>2. map \in Seq(Hit)
  BY DEF Remembers
<1>3. /\ rest \in Seq(Hit) /\ R < MAX_KEYS
      /\ \A n \in 1..R : rest[n].key # c.key
      /\ \E h : /\ Picks(h, rest, map)
                /\ \A i \in 1..Len(map) :
                     \/ map[i].key = c.key
                     \/ \E n \in 1..R : h[n] = i
                     \/ i = 1 /\ Len(map) = MAX_KEYS /\ ~Limiter!Holds(map, c.key)
  BY <1>2, OthersStay
<1>4. Fresh(e, cs2)
  <2> DEFINE old == Limiter!TimesOf(ev, c.key)
  <2>1. old \in Seq(Int) /\ \E g : Recalls(g, old, c.key, cs, now)
    BY TimesRecall
  <2> HIDE DEF old
  <2>2. PICK g : Recalls(g, old, c.key, cs, now)
    BY <2>1
  <2> QED BY <2>1, <2>2, NewEntry, Zenon DEF old
<1> HIDE DEF cs2, rest, R, e, times
<1>5. PICK h : /\ Picks(h, rest, map)
               /\ \A i \in 1..Len(map) :
                    \/ map[i].key = c.key
                    \/ \E n \in 1..R : h[n] = i
                    \/ i = 1 /\ Len(map) = MAX_KEYS /\ ~Limiter!Holds(map, c.key)
  BY <1>3
<1>6. R \in Nat /\ \A n \in 1..R : h[n] \in 1..Len(map) /\ rest[n] = map[h[n]]
  <2>1. Len(rest) \in Nat
    BY <1>3, LenProperties
  <2> QED BY <1>5, <2>1 DEF Picks, R
<1>7. \A n, k \in 1..R : n < k => h[n] < h[k]
  BY <1>5 DEF Picks, R
<1>8. /\ map2 \in Seq(Hit) /\ Len(map2) = R + 1 /\ map2[R + 1] = e
      /\ \A n \in 1..R : map2[n] = rest[n]
  BY <1>3, <1>4, AppendProperties DEF R, Fresh
<1> HIDE DEF map2
<1>9. /\ \A n \in 1..(R + 1) : n \in 1..R \/ n = R + 1
      /\ R + 1 \in 1..(R + 1) /\ \A n \in 1..R : n \in 1..(R + 1)
  BY <1>6
<1>10. e.key = c.key
  BY DEF e
<1>11. ASSUME NEW n \in 1..R
       PROVE  \E g \in [1..Len(rest[n].times) -> 1..Len(cs2)] : Tells(g, rest[n], cs2, now)
  <2>1. PICK g \in [1..Len(rest[n].times) -> 1..L] : Tells(g, rest[n], cs, now)
    BY <1>6 DEF Remembers
  <2> DEFINE N == Len(rest[n].times)
  <2>2. g \in [1..N -> 1..Len(cs2)]
    <3>1. \A m \in 1..L : m \in 1..Len(cs2)
      BY <1>1
    <3> QED BY <2>1, <3>1
  <2> HIDE DEF N
  <2>3. /\ N > 0
        /\ \A k \in 1..N : cs[g[k]].key = rest[n].key /\ cs[g[k]].at = rest[n].times[k]
        /\ \A j, k \in 1..N : g[j] = g[k] => j = k
        /\ IsLast(cs, rest[n].key, g[N])
        /\ \A m \in 1..L :
             cs[m].key = rest[n].key => Lost(cs, now, m) \/ \E k \in 1..N : g[k] = m
    BY <2>1, Zenon DEF Tells, N
  <2>4. \A k \in 1..N : cs2[g[k]].key = rest[n].key /\ cs2[g[k]].at = rest[n].times[k]
    BY <1>1, <2>1, <2>3 DEF N
  <2>5. IsLast(cs2, rest[n].key, g[N])
    BY <1>1, <1>3, <2>3
  <2>6. ASSUME NEW m \in 1..Len(cs2), cs2[m].key = rest[n].key
        PROVE  Lost(cs2, now, m) \/ \E k \in 1..N : g[k] = m
    <3>1. m \in 1..L \/ m = L + 1
      BY <1>1
    <3>2. m \in 1..L /\ cs[m].key = rest[n].key
      BY <1>1, <1>3, <2>6, <3>1
    <3> QED BY <1>1, <2>3, <3>2, Zenon
  <2>7. Tells(g, rest[n], cs2, now)
    BY <2>3, <2>4, <2>5, <2>6, Zenon DEF Tells, N
  <2> QED BY <2>2, <2>7 DEF N
<1>12. ASSUME NEW n \in 1..(R + 1)
       PROVE  \E g \in [1..Len(map2[n].times) -> 1..Len(cs2)] : Tells(g, map2[n], cs2, now)
  <2>1. CASE n \in 1..R
    BY <1>8, <1>11, <2>1
  <2>2. CASE n = R + 1
    BY <1>4, <1>8, <2>2, Zenon DEF Fresh
  <2> QED BY <1>9, <2>1, <2>2
<1>13. ASSUME NEW n \in 1..(R + 1), NEW k \in 1..(R + 1), n < k
       PROVE  /\ map2[n].key # map2[k].key
              /\ \A m, l \in 1..Len(cs2) :
                   IsLast(cs2, map2[n].key, m) /\ IsLast(cs2, map2[k].key, l) => m < l
  <2>1. n \in 1..R
    BY <1>6, <1>13
  <2>2. map2[n] = rest[n] /\ rest[n].key # c.key
    BY <1>3, <1>8, <2>1
  <2>3. CASE k \in 1..R
    <3>1. /\ map[h[n]].key # map[h[k]].key
          /\ \A m, l \in 1..L :
               IsLast(cs, map[h[n]].key, m) /\ IsLast(cs, map[h[k]].key, l) => m < l
      BY <1>6, <1>7, <1>13, <2>1, <2>3, Zenon DEF Remembers
    <3>2. map2[n].key = map[h[n]].key /\ map2[k].key = map[h[k]].key /\ rest[k].key # c.key
      BY <1>3, <1>6, <1>8, <2>1, <2>3
    <3>3. \A x, m : IsLast(cs, x, m) => m \in 1..L
      BY DEF IsLast
    <3>4. \A m : IsLast(cs2, map2[n].key, m) => IsLast(cs, map2[n].key, m)
      BY <1>1, <2>2
    <3>5. \A m : IsLast(cs2, map2[k].key, m) => IsLast(cs, map2[k].key, m)
      BY <1>1, <1>8, <2>3, <3>2
    <3> QED BY <3>1, <3>2, <3>3, <3>4, <3>5, Zenon
  <2>4. CASE k = R + 1
    <3>1. map2[k].key = c.key
      BY <1>8, <1>10, <2>4
    <3>2. ASSUME NEW m, NEW l, IsLast(cs2, map2[n].key, m), IsLast(cs2, c.key, l)
          PROVE  m < l
      <4>1. IsLast(cs, rest[n].key, m) /\ l = L + 1
        BY <1>1, <2>2, <3>2
      <4>2. m \in 1..L
        BY <4>1 DEF IsLast
      <4> QED BY <1>1, <4>1, <4>2
    <3> QED BY <2>2, <3>1, <3>2
  <2> QED BY <1>9, <2>3, <2>4
<1>14. ASSUME NEW m \in 1..Len(cs2)
       PROVE  Lost(cs2, now, m) \/ \E n \in 1..(R + 1) : map2[n].key = cs2[m].key
  <2>1. m \in 1..L \/ m = L + 1
    BY <1>1
  <2>2. CASE cs2[m].key = c.key
    BY <1>8, <1>9, <1>10, <2>2
  <2>3. CASE m \in 1..L /\ Lost(cs, now, m)
    BY <1>1, <2>3
  <2>4. ASSUME m \in 1..L, NEW i \in 1..Len(map), map[i].key = cs[m].key, cs[m].key # c.key
        PROVE  Lost(cs2, now, m) \/ \E n \in 1..(R + 1) : map2[n].key = cs2[m].key
    <3>1. CASE \E n \in 1..R : h[n] = i
      <4>1. PICK n \in 1..R : h[n] = i
        BY <3>1
      <4>2. map2[n].key = cs2[m].key /\ n \in 1..(R + 1)
        BY <1>1, <1>6, <1>8, <1>9, <2>4, <4>1
      <4> QED BY <4>2
    <3>2. CASE i = 1 /\ Len(map) = MAX_KEYS /\ ~Limiter!Holds(map, c.key)
      <4>1. \A k \in 1..Len(map) : map[k].key # c.key
        BY <3>2 DEF Limiter!Holds
      <4>2. m \in 1..L /\ cs[m].key = map[1].key
        BY <2>4, <3>2
      <4>3. Lost(cs2, now, m)
        BY <3>2, <4>1, <4>2, FirstGivesWay DEF cs2
      <4> QED BY <4>3
    <3> QED BY <1>5, <2>4, <3>1, <3>2
  <2> QED BY <1>1, <2>1, <2>2, <2>3, <2>4, Zenon DEF Remembers
<1>15. Len(map2) <= MAX_KEYS
  BY <1>3, <1>6, <1>8, LimiterBounds
<1>16. Remembers(map2, cs2, now)
  BY <1>8, <1>12, <1>13, <1>14, Zenon DEF Remembers
<1>17. map2 = Limiter!Reinserted(ev, c.key, times)
  BY DEF Limiter!Reinserted, map2, e, rest
<1> QED BY <1>4, <1>15, <1>16, <1>17, Zenon DEF cs2, times, e

\* The limiter's promise, of the calls cs.
Window(cs, i) ==
  { j \in 1..i : cs[j].key = cs[i].key /\ cs[i].at - cs[j].at < WINDOW_MS }
NextCalls(cs, j, i) == { k \in (j + 1)..i : cs[k].key = cs[j].key }
Forgotten(cs, i) ==
  \E j \in Window(cs, i) \ {i} :
    LET upto == CHOOSE k \in NextCalls(cs, j, i) : \A l \in NextCalls(cs, j, i) : k <= l
    IN  Cardinality({ cs[k].key : k \in (j + 1)..(upto - 1) }) >= MAX_KEYS
Honest(cs, i) ==
  /\ cs[i].over => Cardinality(Window(cs, i)) > MAX_HITS
  /\ Cardinality(Window(cs, i)) > MAX_HITS => cs[i].over \/ Forgotten(cs, i)

\* That is what the property says.
LEMMA HonestCalls ==
  /\ LimitIsHonest <=> Len(hits) <= MAX_KEYS /\ \A i \in 1..Len(calls) : Honest(calls, i)
  /\ LimitIsHonest' <=> Len(hits') <= MAX_KEYS /\ \A i \in 1..Len(calls') : Honest(calls', i)
<1>1. /\ \A i : Limiter!InWindow(i) = Window(calls, i)
      /\ \A i : Limiter!InWindow(i)' = Window(calls', i)
  BY Zenon DEF Limiter!InWindow, Window
<1>2. /\ \A i : Limiter!ForgottenBefore(i) <=> Forgotten(calls, i)
      /\ \A i : Limiter!ForgottenBefore(i)' <=> Forgotten(calls', i)
  BY <1>1, LimiterCounts, Zenon DEF Limiter!ForgottenBefore, Forgotten, NextCalls
<1> QED BY <1>1, <1>2, LimiterCounts, Zenon DEF LimitIsHonest, Limiter!LimitIsHonest, Honest

\* What was answered before stays as honest as it was.
LEMMA OldCallsStayHonest ==
  ASSUME NEW cs, NEW cs2, NEW c, OneMore(cs2, cs, c), NEW i \in 1..Len(cs), Honest(cs, i)
  PROVE  Honest(cs2, i)
<1>1. \A j \in 1..i : cs2[j] = cs[j]
  BY DEF OneMore
<1>2. Window(cs2, i) = Window(cs, i)
  <2>1. i \in 1..i
    BY DEF OneMore
  <2> QED BY <1>1, <2>1, Zenon DEF Window
<1>3. ASSUME NEW j \in Window(cs, i)
      PROVE  /\ NextCalls(cs2, j, i) = NextCalls(cs, j, i)
             /\ \A u \in 1..i :
                  { cs2[k].key : k \in (j + 1)..(u - 1) } = { cs[k].key : k \in (j + 1)..(u - 1) }
  <2>1. j \in 1..i /\ i \in Nat /\ j \in Nat
    BY DEF Window, OneMore
  <2>2. \A k \in (j + 1)..i : k \in 1..i
    BY <2>1
  <2>3. ASSUME NEW u \in 1..i PROVE \A k \in (j + 1)..(u - 1) : k \in 1..i
    BY <2>1
  <2>4. NextCalls(cs2, j, i) = NextCalls(cs, j, i)
    BY <1>1, <2>1, <2>2, Zenon DEF NextCalls
  <2>5. ASSUME NEW u \in 1..i
        PROVE  { cs2[k].key : k \in (j + 1)..(u - 1) } = { cs[k].key : k \in (j + 1)..(u - 1) }
    BY <1>1, <2>3
  <2> QED BY <2>4, <2>5
<1>4. ASSUME Forgotten(cs, i) PROVE Forgotten(cs2, i)
  <2> DEFINE upto(j) ==
               CHOOSE k \in NextCalls(cs, j, i) : \A l \in NextCalls(cs, j, i) : k <= l
  <2>1. PICK j \in Window(cs, i) \ {i} :
          Cardinality({ cs[k].key : k \in (j + 1)..(upto(j) - 1) }) >= MAX_KEYS
    BY <1>4 DEF Forgotten
  <2>2. upto(j) \in 1..i
    <3>1. j \in Nat /\ i \in Nat /\ j < i /\ cs[j].key = cs[i].key
      BY <2>1 DEF Window, OneMore
    <3>2. i \in NextCalls(cs, j, i) /\ NextCalls(cs, j, i) \subseteq Nat
      BY <3>1 DEF NextCalls
    <3>3. \E k \in NextCalls(cs, j, i) : \A l \in NextCalls(cs, j, i) : k <= l
      BY <3>2, LeastOf
    <3>4. upto(j) \in NextCalls(cs, j, i)
      BY <3>3
    <3> HIDE DEF upto
    <3> QED BY <3>1, <3>4 DEF NextCalls
  <2> HIDE DEF upto
  <2>3. { cs2[k].key : k \in (j + 1)..(upto(j) - 1) } = { cs[k].key : k \in (j + 1)..(upto(j) - 1) }
    BY <1>3, <2>1, <2>2
  <2>4. upto(j) = CHOOSE k \in NextCalls(cs2, j, i) : \A l \in NextCalls(cs2, j, i) : k <= l
    <3>1. NextCalls(cs2, j, i) = NextCalls(cs, j, i)
      BY <1>3, <2>1
    <3> QED BY <3>1, Zenon DEF upto
  <2> QED BY <1>2, <2>1, <2>3, <2>4 DEF Forgotten
<1>5. cs2[i] = cs[i]
  BY DEF OneMore
<1> QED BY <1>2, <1>4, <1>5, Zenon DEF Honest

\* A call in the window that the limiter need not remember was pushed out of the map.
LEMMA PushedOutIsForgotten ==
  ASSUME NEW cs, NEW i \in Nat, Len(cs) = i, NEW j \in Window(cs, i), PushedOut(cs, j)
  PROVE  Forgotten(cs, i)
<1>1. j \in 1..i /\ j \in Nat /\ i \in 1..i /\ cs[j].key = cs[i].key
  BY DEF Window
<1>2. PICK u \in j..i : /\ cs[j].key \notin Between(cs, j, u)
                       /\ Cardinality(Between(cs, j, u)) >= MAX_KEYS
  BY DEF PushedOut
<1>3. u \in Nat
  BY <1>1
<1>4. Between(cs, j, u) # {}
  BY <1>2, FS_EmptySet, LimiterBounds
<1>5. j # i
  <2>1. ASSUME j = i PROVE Between(cs, j, u) = {}
    <3>1. \A k \in (j + 1)..u : FALSE
      BY <1>1, <1>3, <2>1
    <3> QED BY <3>1 DEF Between
  <2> QED BY <1>4, <2>1
<1> DEFINE next == NextCalls(cs, j, i)
           upto == CHOOSE k \in next : \A l \in next : k <= l
<1>6. upto \in (j + 1)..i /\ cs[upto].key = cs[j].key
  <2>1. i \in next /\ next \subseteq Nat
    BY <1>1, <1>5 DEF NextCalls
  <2> HIDE DEF next
  <2>2. \E k \in next : \A l \in next : k <= l
    BY <2>1, LeastOf
  <2>3. upto \in next
    BY <2>2
  <2> HIDE DEF upto
  <2> QED BY <2>3 DEF next, NextCalls
<1> HIDE DEF upto
<1>7. u < upto
  <2>1. ASSUME upto <= u PROVE FALSE
    <3>1. upto \in (j + 1)..u
      BY <1>1, <1>3, <1>6, <2>1
    <3>2. cs[upto].key \in Between(cs, j, u)
      BY <3>1 DEF Between
    <3> QED BY <1>2, <1>6, <3>2
  <2> QED BY <1>1, <1>3, <1>6, <2>1
<1>8. Between(cs, j, u) \subseteq Between(cs, j, upto - 1)
  <2>1. \A k \in (j + 1)..u : k \in (j + 1)..(upto - 1)
    BY <1>1, <1>3, <1>6, <1>7
  <2> QED BY <2>1, Zenon DEF Between
<1>9. Cardinality(Between(cs, j, upto - 1)) >= MAX_KEYS
  <2>1. upto - 1 \in Int
    BY <1>1, <1>6
  <2>2. IsFiniteSet(Between(cs, j, upto - 1)) /\ Cardinality(Between(cs, j, upto - 1)) \in Nat
    BY <1>1, <2>1, BetweenFinite
  <2>3. Cardinality(Between(cs, j, u)) <= Cardinality(Between(cs, j, upto - 1))
    BY <1>8, <2>2, FS_Subset
  <2>4. Cardinality(Between(cs, j, u)) \in Nat
    BY <1>1, <1>3, BetweenFinite
  <2> QED BY <1>2, <2>2, <2>3, <2>4, LimiterBounds
<1>10. Cardinality({ cs[k].key : k \in (j + 1)..(upto - 1) }) >= MAX_KEYS
  BY <1>9 DEF Between
<1> QED BY <1>1, <1>5, <1>10, Zenon DEF Forgotten, upto, next

\* What the entry of the last call tells makes the answer to that call honest.
LEMMA LastCallIsHonest ==
  ASSUME NEW cs, NEW i \in Nat, Len(cs) = i, CallsInOrder(cs, limiterTime), NEW e, Fresh(e, cs),
         i > 0, cs[i].key = e.key, cs[i].at = limiterTime,
         cs[i].over = (Len(e.times) > MAX_HITS)
  PROVE  Honest(cs, i)
<1> DEFINE W == Window(cs, i)
           N == Len(e.times)
<1>1. IsFiniteSet(W) /\ Cardinality(W) \in Nat
  <2>1. W \subseteq 1..i
    BY DEF Window
  <2>2. IsFiniteSet(1..i)
    BY ONLY i \in Nat, FS_Interval
  <2> HIDE DEF W
  <2> QED BY <2>1, <2>2, FS_Subset, FS_CardinalityType
<1>2. PICK q \in [1..N -> 1..i] :
        Tells(q, e, cs, limiterTime) /\ \A n \in 1..N : limiterTime - cs[q[n]].at < WINDOW_MS
  BY DEF Fresh
<1>3. N \in Nat /\ MAX_HITS \in Nat /\ MAX_KEYS \in Nat /\ i \in 1..i
  BY LimiterBounds DEF Fresh
<1>4. q \in Injection(1..N, W)
  <2>1. \A n \in 1..N : q[n] \in W
    BY <1>2 DEF Tells, Window
  <2>2. \A n, k \in 1..N : q[n] = q[k] => n = k
    BY <1>2 DEF Tells
  <2>3. q \in [1..N -> W]
    BY <2>1
  <2> HIDE DEF W, N
  <2> QED BY <2>2, <2>3, Fun_IsInj
<1> HIDE DEF W, N
<1>5. /\ Cardinality(1..N) = N /\ N <= Cardinality(W)
      /\ N = Cardinality(W) <=> q \in Surjection(1..N, W)
  <2>1. Cardinality(1..N) = N
    <3>1. N \in Nat
      BY <1>3
    <3> QED BY ONLY <3>1, FS_Interval
  <2> QED BY <1>1, <1>4, <2>1, FS_Injection
<1>6. ASSUME Cardinality(W) > MAX_HITS, ~(N > MAX_HITS) PROVE Forgotten(cs, i)
  <2>1. N # Cardinality(W)
    BY <1>1, <1>3, <1>6
  <2>2. q \in [1..N -> W]
    BY <1>4 DEF Injection
  <2>3. PICK m \in W : \A n \in 1..N : q[n] # m
    BY <1>5, <2>1, <2>2, Fun_IsSurj
  <2>4. m \in 1..i /\ cs[m].key = e.key /\ limiterTime - cs[m].at < WINDOW_MS
    BY <2>3 DEF W, Window
  <2>5. Lost(cs, limiterTime, m)
    BY <1>2, <2>3, <2>4, Zenon DEF Tells, N
  <2>6. \A j \in 1..i : cs[j].at \in Int /\ limiterTime \in Int /\ WINDOW_MS \in Int
    <3>1. \A j \in 1..i : cs[j] \in Call
      BY ElementOfSeq DEF CallsInOrder
    <3>2. limiterTime \in Int /\ WINDOW_MS \in Int
      BY LimiterBounds DEF CallsInOrder
    <3> QED BY <3>1, <3>2 DEF Call
  <2>7. PICK l \in m..i : cs[l].key = cs[m].key /\ PushedOut(cs, l)
    <3>1. ~(limiterTime - cs[m].at >= WINDOW_MS)
      BY <2>4, <2>6
    <3> QED BY <2>5, <3>1 DEF Lost
  <2>8. l \in Window(cs, i)
    <3>1. l \in 1..i /\ cs[m].at <= cs[l].at
      BY <2>4, <2>7 DEF CallsInOrder
    <3>2. limiterTime - cs[l].at < WINDOW_MS
      BY <2>4, <2>6, <3>1
    <3> QED BY <2>4, <2>7, <3>1, <3>2 DEF Window
  <2> QED BY <2>7, <2>8, PushedOutIsForgotten
<1>7. CASE N > MAX_HITS
  <2>1. cs[i].over
    BY <1>7, Zenon DEF N
  <2>2. Cardinality(W) > MAX_HITS
    BY <1>1, <1>3, <1>5, <1>7
  <2> QED BY <2>1, <2>2, Zenon DEF Honest, W
<1>8. CASE ~(N > MAX_HITS)
  <2>1. ~cs[i].over
    BY <1>8, Zenon DEF N
  <2> QED BY <1>6, <1>8, <2>1, Zenon DEF Honest, W
<1> QED BY <1>7, <1>8

LEMMA LimiterInit ==
  ASSUME SiteInit
  PROVE  LimiterInv
<1>1. hits = <<>> /\ calls = <<>> /\ limiterTime \in Nat
  BY LimiterBounds DEF SiteInit, Limiter!LimiterInit
<1>2. Len(hits) = 0 /\ Len(calls) = 0 /\ hits \in Seq(Hit) /\ calls \in Seq(Call)
  BY <1>1, EmptySeq
<1>3. \A i \in 1..0 : FALSE
  OBVIOUS
<1>4. CallsInOrder(calls, limiterTime) /\ Remembers(hits, calls, limiterTime)
  BY <1>1, <1>2, <1>3, Zenon DEF CallsInOrder, Remembers
<1>5. LimitIsHonest
  <2>1. Len(hits) <= MAX_KEYS
    BY <1>2, LimiterBounds
  <2> QED BY <1>2, <1>3, <2>1, HonestCalls
<1> QED BY <1>4, <1>5 DEF LimiterInv

LEMMA LimiterStep ==
  ASSUME LimiterInv, [SiteNext]_siteVars
  PROVE  LimiterInv'
<1>1. /\ CallsInOrder(calls, limiterTime) /\ Remembers(hits, calls, limiterTime)
      /\ Len(hits) <= MAX_KEYS /\ \A i \in 1..Len(calls) : Honest(calls, i)
  BY HonestCalls DEF LimiterInv
<1>2. CASE UNCHANGED limiterVars
  <2>1. hits' = hits /\ calls' = calls /\ limiterTime' = limiterTime
    BY <1>2 DEF limiterVars
  <2>2. LimitIsHonest'
    BY <1>1, <2>1, HonestCalls
  <2> QED BY <1>1, <2>1, <2>2 DEF LimiterInv
<1>3. CASE Limiter!TimePasses
  <2>1. hits' = hits /\ calls' = calls /\ limiterTime' = limiterTime + 1
    BY <1>3 DEF Limiter!TimePasses
  <2>2. CallsInOrder(calls, limiterTime + 1) /\ Remembers(hits, calls, limiterTime + 1)
    BY <1>1, TimeRemembers
  <2>3. LimitIsHonest'
    BY <1>1, <2>1, HonestCalls
  <2> QED BY <2>1, <2>2, <2>3, Zenon DEF LimiterInv
<1>4. ASSUME NEW key \in Clients, Limiter!Limited(key) PROVE LimiterInv'
  <2> DEFINE map   == Limiter!Swept
             ev    == Limiter!Evicted(map, key)
             times == Append(Limiter!Recent(Limiter!TimesOf(ev, key)), limiterTime)
             e     == [key |-> key, times |-> times]
             c     == [key |-> key, at |-> limiterTime, over |-> Len(times) > MAX_HITS]
             cs2   == Append(calls, c)
  <2>1. /\ hits' = Limiter!Reinserted(ev, key, times) /\ calls' = cs2
        /\ limiterTime' = limiterTime
    BY <1>4 DEF Limiter!Limited
  <2>2. Remembers(map, calls, limiterTime) /\ Len(map) \in Nat /\ Len(map) <= MAX_KEYS
    <3>1. Remembers(map, calls, limiterTime) /\ Len(map) \in Nat /\ Len(map) <= Len(hits)
      BY <1>1, SweepRemembers
    <3>2. Len(hits) \in Nat
      BY <1>1, LenProperties DEF Remembers
    <3> HIDE DEF map
    <3> QED BY <1>1, <3>1, <3>2, LimiterBounds
  <2>3. /\ c \in Call /\ c.key = key /\ c.at = limiterTime
        /\ c.over = (Len(times) > MAX_HITS)
    <3>1. limiterTime \in Int
      BY <1>1 DEF CallsInOrder
    <3> HIDE DEF times
    <3>2. (Len(times) > MAX_HITS) \in BOOLEAN
      OBVIOUS
    <3> QED BY <3>1, <3>2 DEF Call
  <2> HIDE DEF c, map
  <2>4. /\ Remembers(Limiter!Reinserted(ev, key, times), cs2, limiterTime)
        /\ Len(Limiter!Reinserted(ev, key, times)) <= MAX_KEYS
        /\ Fresh(e, cs2)
    BY <1>1, <2>2, <2>3, CallRemembers
  <2>5. OneMore(cs2, calls, c) /\ CallsInOrder(cs2, limiterTime)
    BY <1>1, <2>3, CallsGrow
  <2> HIDE DEF cs2, e, times
  <2>6. /\ Len(calls) \in Nat /\ Len(cs2) = Len(calls) + 1
        /\ cs2[Len(cs2)] = c
    BY <2>5 DEF OneMore
  <2>7. Honest(cs2, Len(cs2))
    <3>1. e.key = key /\ e.times = times
      BY DEF e
    <3>2. Len(cs2) \in Nat /\ Len(cs2) > 0
      BY <2>6
    <3> QED BY <2>3, <2>4, <2>5, <2>6, <3>1, <3>2, LastCallIsHonest
  <2>8. ASSUME NEW i \in 1..Len(cs2) PROVE Honest(cs2, i)
    <3>1. CASE i = Len(cs2)
      BY <2>7, <3>1
    <3>2. CASE i \in 1..Len(calls)
      BY <1>1, <2>5, <3>2, OldCallsStayHonest
    <3> QED BY <2>6, <3>1, <3>2
  <2>9. LimitIsHonest'
    BY <2>1, <2>4, <2>8, HonestCalls
  <2> QED BY <2>1, <2>4, <2>5, <2>9 DEF LimiterInv
<1> QED BY <1>2, <1>3, <1>4 DEF SiteNext, Limiter!LimiterNext, siteVars

\* A client is turned away only if it called more than MAX_HITS times within the window, and
\* gets past that limit only after MAX_KEYS others pushed it out of the map, however many
\* clients call, how often and when, and whatever the bounds are (rateLimit.ts:3-8, :24-34).
THEOREM LimiterIsHonest == SiteSpec => []LimitIsHonest
<1>1. LimiterInv => LimitIsHonest
  BY DEF LimiterInv
<1> QED BY LimiterInit, LimiterStep, <1>1, PTL DEF SiteSpec

-----------------------------------------------------------------------------
(* The waitlist's exports *)

\* A sequence with one more element at its end keeps the others, whatever stands before it.
LEMMA MoreAtTheEnd ==
  ASSUME NEW E, NEW x \in Seq(E), NEW u \in Seq(E), NEW e \in E
  PROVE  /\ Len(x \o u) \in Nat /\ Len(x \o Append(u, e)) = Len(x \o u) + 1
         /\ (x \o Append(u, e))[Len(x \o u) + 1] = e
         /\ \A i \in 1..Len(x \o u) : (x \o Append(u, e))[i] = (x \o u)[i]
<1> DEFINE v == Append(u, e)
<1>1. /\ Len(u) \in Nat /\ Len(x) \in Nat /\ v \in Seq(E) /\ Len(v) = Len(u) + 1
      /\ v[Len(u) + 1] = e /\ \A i \in 1..Len(u) : v[i] = u[i]
  BY LenProperties, AppendProperties
<1> HIDE DEF v
<1>2. /\ Len(x \o u) = Len(x) + Len(u)
      /\ \A i \in 1..Len(x) + Len(u) : (x \o u)[i] = IF i <= Len(x) THEN x[i] ELSE u[i - Len(x)]
  BY ConcatProperties
<1>3. /\ Len(x \o v) = Len(x) + Len(v)
      /\ \A i \in 1..Len(x) + Len(v) : (x \o v)[i] = IF i <= Len(x) THEN x[i] ELSE v[i - Len(x)]
  BY <1>1, ConcatProperties
<1> DEFINE K == Len(x) + Len(u)
<1>4. K \in Nat /\ Len(x) + Len(v) = K + 1 /\ K + 1 - Len(x) = Len(u) + 1
      /\ ~(K + 1 <= Len(x)) /\ K + 1 \in 1..(K + 1)
  BY <1>1
<1>5. (x \o v)[K + 1] = e
  BY <1>1, <1>3, <1>4
<1>6. ASSUME NEW i \in 1..K PROVE (x \o v)[i] = (x \o u)[i]
  <2>1. i \in 1..(K + 1) /\ (i <= Len(x) \/ i - Len(x) \in 1..Len(u))
    BY <1>1
  <2> QED BY <1>1, <1>2, <1>3, <1>4, <2>1
<1> QED BY <1>2, <1>3, <1>4, <1>5, <1>6 DEF v

\* What `row` says of the first n of the entries s: the first is its entry, and it shows
\* what each of them says once.
Shows(row, s, n, E) ==
  LET vs == TheWaitlist!Versions(row)
  IN  /\ row \in [entry : E, updates : Seq(E)] /\ row.entry = s[1]
      /\ \A m \in 1..n : \E i \in 1..Len(vs) : vs[i].content = s[m].content
      /\ \A i, k \in 1..Len(vs) : vs[i].content = vs[k].content => i = k

RowStart(e) == [entry |-> e, updates |-> <<>>]

LEMMA StartShows ==
  ASSUME NEW E, NEW s \in Seq(E), Len(s) > 0
  PROVE  Shows(RowStart(s[1]), s, 1, E)
<1> DEFINE row == RowStart(s[1])
           vs  == TheWaitlist!Versions(row)
<1>1. Len(s) \in Nat /\ s[1] \in E
  <2>1. Len(s) \in Nat
    BY LenProperties
  <2>2. 1 \in 1..Len(s)
    BY <2>1
  <2> QED BY <2>1, <2>2, ElementOfSeq
<1>2. row \in [entry : E, updates : Seq(E)] /\ row.entry = s[1] /\ row.updates = <<>>
  BY <1>1 DEF RowStart
<1>3. vs = <<s[1]>>
  <2>1. <<s[1]>> \in Seq(E)
    BY <1>1
  <2>2. <<s[1]>> \o <<>> = <<s[1]>>
    BY <2>1, ConcatEmptySeq
  <2> QED BY <1>2, <2>2 DEF TheWaitlist!Versions
<1> HIDE DEF row, vs
<1>4. Len(vs) = 1 /\ vs[1] = s[1]
  BY <1>3
<1>5. \A i \in 1..1 : i = 1
  OBVIOUS
<1>6. 1 \in 1..1
  OBVIOUS
<1> QED BY <1>2, <1>4, <1>5, <1>6, Zenon DEF Shows, row, vs

LEMMA UpdateShows ==
  ASSUME NEW E, NEW s \in Seq(E), NEW n \in 1..Len(s), n > 1,
         NEW row, Shows(row, s, n - 1, E)
  PROVE  Shows(TheWaitlist!AddUpdate(row, s[n]), s, n, E)
<1> DEFINE e   == s[n]
           vs  == TheWaitlist!Versions(row)
           new == TheWaitlist!AddUpdate(row, e)
<1>1. Len(s) \in Nat /\ n \in Nat /\ e \in E
  BY LenProperties, ElementOfSeq
<1>2. /\ row \in [entry : E, updates : Seq(E)] /\ row.entry = s[1]
      /\ \A m \in 1..(n - 1) : \E i \in 1..Len(vs) : vs[i].content = s[m].content
      /\ \A i, k \in 1..Len(vs) : vs[i].content = vs[k].content => i = k
  BY Zenon DEF Shows
<1>3. \A m \in 1..n : m \in 1..(n - 1) \/ m = n
  BY <1>1
<1>4. row.entry \in E /\ row.updates \in Seq(E)
  BY <1>2
<1>5. vs = <<row.entry>> \o row.updates /\ <<row.entry>> \in Seq(E)
  BY <1>4 DEF TheWaitlist!Versions
<1>6. vs \in Seq(E) /\ Len(vs) \in Nat
  <2>1. vs \in Seq(E)
    BY <1>4, <1>5, ConcatProperties
  <2> QED BY <2>1, LenProperties
<1> HIDE DEF vs, e
<1>7. CASE \E i \in 1..Len(vs) : vs[i].content = e.content
  <2>1. new = row
    BY <1>7 DEF TheWaitlist!AddUpdate, vs
  <2>2. \A m \in 1..n : \E i \in 1..Len(vs) : vs[i].content = s[m].content
    BY <1>2, <1>3, <1>7, Zenon DEF e
  <2>3. Shows(row, s, n, E)
    BY <1>2, <2>2, Zenon DEF Shows, vs
  <2> QED BY <2>1, <2>3 DEF e
<1>8. CASE ~ \E i \in 1..Len(vs) : vs[i].content = e.content
  <2>1. new = [row EXCEPT !.updates = Append(@, e)]
    BY <1>8 DEF TheWaitlist!AddUpdate, vs
  <2> HIDE DEF new
  <2>2. Append(row.updates, e) \in Seq(E)
    BY <1>1, <1>4, AppendProperties
  <2>3. /\ new \in [entry : E, updates : Seq(E)] /\ new.entry = row.entry
        /\ new.updates = Append(row.updates, e)
    BY <1>2, <2>1, <2>2
  <2> DEFINE ws == TheWaitlist!Versions(new)
  <2>4. vs = <<row.entry>> \o row.updates /\ ws = <<row.entry>> \o Append(row.updates, e)
    BY <1>5, <2>3 DEF TheWaitlist!Versions
  <2> DEFINE K == Len(vs)
  <2> HIDE DEF ws
  <2>5. Len(ws) = K + 1 /\ ws[K + 1] = e /\ \A i \in 1..K : ws[i] = vs[i]
    <3> DEFINE x == <<row.entry>>
               u == row.updates
    <3>1. x \in Seq(E) /\ u \in Seq(E)
      BY <1>4, <1>5
    <3> HIDE DEF x, u
    <3>2. /\ Len(x \o Append(u, e)) = Len(x \o u) + 1
          /\ (x \o Append(u, e))[Len(x \o u) + 1] = e
          /\ \A i \in 1..Len(x \o u) : (x \o Append(u, e))[i] = (x \o u)[i]
      BY <1>1, <3>1, MoreAtTheEnd
    <3> QED BY <2>4, <3>2 DEF x, u
  <2>6. /\ \A i \in 1..(K + 1) : i \in 1..K \/ i = K + 1
        /\ K + 1 \in 1..(K + 1) /\ \A i \in 1..K : i \in 1..(K + 1)
    BY <1>6
  <2> HIDE DEF K
  <2>7. ASSUME NEW m \in 1..n PROVE \E i \in 1..(K + 1) : ws[i].content = s[m].content
    <3>1. CASE m = n
      BY <2>5, <2>6, <3>1 DEF e
    <3>2. CASE m \in 1..(n - 1)
      <4>1. PICK i \in 1..K : vs[i].content = s[m].content
        BY <1>2, <3>2 DEF K
      <4> QED BY <2>5, <2>6, <4>1
    <3> QED BY <1>3, <3>1, <3>2
  <2>8. ASSUME NEW i \in 1..(K + 1), NEW k \in 1..(K + 1), ws[i].content = ws[k].content
        PROVE  i = k
    <3>1. \A j \in 1..K : vs[j].content # e.content
      BY <1>8 DEF K
    <3>2. CASE i \in 1..K /\ k \in 1..K
      <4>1. vs[i].content = vs[k].content
        BY <2>5, <2>8, <3>2
      <4> QED BY <1>2, <3>2, <4>1 DEF K
    <3> QED BY <2>5, <2>6, <2>8, <3>1, <3>2
  <2>9. new.entry = s[1]
    BY <1>2, <2>3
  <2> QED BY <2>3, <2>5, <2>7, <2>8, <2>9, Zenon DEF Shows, ws, new, e
<1> QED BY <1>7, <1>8

\* Going through the entries one by one gives a row for each number of them.
LEMMA RowsExist ==
  ASSUME NEW s, Len(s) \in Nat
  PROVE  \E f : f = [n \in 1..Len(s) |->
                       IF n = 1 THEN RowStart(s[1]) ELSE TheWaitlist!AddUpdate(f[n - 1], s[n])]
<1> DEFINE Step(f, n) == IF n = 1 THEN RowStart(s[1]) ELSE TheWaitlist!AddUpdate(f[n - 1], s[n])
           Good(m) == \E f : f = [n \in 1..m |-> Step(f, n)]
           Bad == { m \in Nat : ~Good(m) }
<1> HIDE DEF Step
<1>1. Good(0)
  <2> DEFINE f == [n \in 1..0 |-> 0]
  <2>1. \A n \in 1..0 : FALSE
    OBVIOUS
  <2>2. f = [n \in 1..0 |-> Step(f, n)]
    BY <2>1, Zenon
  <2> QED BY <2>2
<1>2. ASSUME NEW m \in Nat, m > 0, Good(m - 1) PROVE Good(m)
  <2>1. PICK g : g = [n \in 1..(m - 1) |-> Step(g, n)]
    BY <1>2
  <2> DEFINE f == [n \in 1..m |-> IF n = m THEN Step(g, m) ELSE g[n]]
  <2>2. ASSUME NEW n \in 1..m PROVE f[n] = Step(f, n)
    <3>1. n = 1 \/ (n - 1 \in 1..(m - 1) /\ n - 1 \in 1..m /\ n - 1 # m)
      BY <1>2
    <3>2. Step(f, n) = Step(g, n)
      <4>1. n # 1 => f[n - 1] = g[n - 1]
        BY <3>1
      <4> HIDE DEF f
      <4> QED BY <4>1, Zenon DEF Step
    <3>3. n # m => n \in 1..(m - 1)
      BY <1>2
    <3>4. n # m => g[n] = Step(g, n)
      BY <2>1, <3>3
    <3> QED BY <3>2, <3>4
  <2>3. f = [n \in 1..m |-> Step(f, n)]
    <3>1. f = [n \in 1..m |-> f[n]]
      OBVIOUS
    <3> HIDE DEF f
    <3> QED BY <2>2, <3>1, Zenon
  <2> HIDE DEF f
  <2> QED BY <2>3, Zenon
<1>3. Bad = {}
  <2>1. ASSUME NEW x \in Bad PROVE FALSE
    <3>1. PICK k \in Bad : \A l \in Bad : k <= l
      BY <2>1, LeastOf
    <3> HIDE DEF Good
    <3>2. k \in Nat /\ k # 0 /\ ~Good(k)
      BY <1>1, <3>1
    <3>3. k - 1 \in Nat /\ ~(k <= k - 1)
      BY <3>2
    <3>4. Good(k - 1)
      BY <3>1, <3>3
    <3> QED BY <1>2, <3>2, <3>4
  <2> QED BY <2>1
<1>4. Good(Len(s))
  <2> HIDE DEF Good
  <2> QED BY <1>3
<1> QED BY <1>4, Zenon DEF Step

\* So the row of all of them shows them all.
LEMMA RowShows ==
  ASSUME NEW E, NEW s \in Seq(E), Len(s) > 0,
         NEW f, f = [n \in 1..Len(s) |->
                       IF n = 1 THEN RowStart(s[1]) ELSE TheWaitlist!AddUpdate(f[n - 1], s[n])]
  PROVE  Shows(f[Len(s)], s, Len(s), E)
<1> DEFINE Bad == { n \in 1..Len(s) : ~Shows(f[n], s, n, E) }
<1>1. Len(s) \in Nat /\ Len(s) \in 1..Len(s)
  BY LenProperties
<1>2. ASSUME NEW n \in 1..Len(s)
      PROVE  f[n] = IF n = 1 THEN RowStart(s[1]) ELSE TheWaitlist!AddUpdate(f[n - 1], s[n])
  BY Zenon
<1>3. ASSUME NEW x \in Bad PROVE FALSE
  <2>1. PICK k \in Bad : \A l \in Bad : k <= l
    <3>1. Bad \subseteq Nat
      BY <1>1
    <3> QED BY <1>3, <3>1, LeastOf
  <2>2. k \in 1..Len(s) /\ ~Shows(f[k], s, k, E)
    BY <2>1
  <2>3. CASE k = 1
    BY <1>2, <2>2, <2>3, StartShows
  <2>4. CASE k # 1
    <3>1. k > 1 /\ k - 1 \in 1..Len(s) /\ ~(k <= k - 1)
      BY <1>1, <2>2, <2>4
    <3>2. Shows(f[k - 1], s, k - 1, E)
      BY <2>1, <3>1
    <3>3. f[k] = TheWaitlist!AddUpdate(f[k - 1], s[k])
      BY <1>2, <2>2, <2>4
    <3> QED BY <2>2, <3>1, <3>2, <3>3, UpdateShows
  <2> QED BY <2>3, <2>4
<1> QED BY <1>1, <1>3

Entries == TheWaitlist!Entries

\* A submission that the store has been asked to keep.
Kept(r) ==
  submission[r].pc \in {"first", "head", "later"} \/ submission[r].answer \in {200, 500}

\* An email's first file has a path of its own.
FirstIn(e, F) == [path |-> <<e.email>>, entry |-> e] \in F

\* With a submission's entry, the entries K hold the first one of its email, by the files F.
Closed(K, F) ==
  \A e \in K : e.id \in Submissions => \E d \in K : d.email = e.email /\ FirstIn(d, F)

\* What a kept submission is: the time of its entry is between those of what it knew and now.
SubmissionOK(r) ==
  LET e == submission[r].entry
  IN  /\ submission[r] = [pc |-> submission[r].pc, entry |-> e, answer |-> submission[r].answer]
      /\ submission[r].pc \in {"idle", "first", "head", "later", "done"}
      /\ submission[r].pc = "idle" => submission[r].answer = 0
      /\ Kept(r) =>
           /\ e.id = r /\ e.email \in Emails
           /\ e.submittedAt \in Nat /\ e.submittedAt <= waitlistTime
           /\ known[r] \subseteq Entries /\ Closed(known[r], files)
           /\ \A x \in known[r] : x.id # r /\ x.submittedAt <= e.submittedAt
      /\ submission[r].pc = "later" =>
           \E d \in Entries : d.email = e.email /\ FirstIn(d, files)
      /\ submission[r].answer = 200 => e \in Entries

\* A file is old, or a submission's entry at one of its two paths.
FileOK(f) ==
  \/ f \in OldFiles
  \/ /\ f.entry.id \in Submissions /\ Kept(f.entry.id)
     /\ f.entry = submission[f.entry.id].entry
     /\ f = [path |-> f.path, entry |-> f.entry]
     /\ f.path \in {<<f.entry.email>>, <<f.entry.email, f.entry.id>>}

FilesOK ==
  /\ OldFiles \subseteq files /\ \A f \in files : FileOK(f)
  /\ Closed(Entries, files)
  /\ \A d, e \in Entries :
       d.email \in Emails /\ d.email = e.email /\ FirstIn(d, files) /\ FirstIn(e, files) => d = e

\* What a job saw when it began.
SightOK(j) ==
  /\ IsFiniteSet(job[j].loaded)
  /\ job[j].pc # "idle" =>
       /\ seen[j].stored \subseteq Entries /\ Closed(seen[j].stored, files)
       /\ \A e \in seen[j].accepted : e \in seen[j].stored /\ e.id \in Submissions
       /\ \A r \in Submissions :
            Kept(r) => known[r] \subseteq seen[j].stored \/ seen[j].stored \subseteq known[r]
  /\ TheWaitlist!HasExported(j) =>
       \A e \in seen[j].stored : e \in job[j].loaded \/ Unreadable(e)

WaitInv ==
  /\ waitlistTime \in Nat
  /\ submission = [r \in Submissions |-> submission[r]] /\ known = [r \in Submissions |-> known[r]]
  /\ \A r \in Submissions : SubmissionOK(r)
  /\ FilesOK
  /\ \A j \in Jobs : SightOK(j)

\* What is known of old files.
LEMMA OldFilesOK ==
  ASSUME NEW f \in OldFiles
  PROVE  /\ f.entry.id \in Int /\ f.entry.id \notin Submissions
         /\ f.entry.submittedAt \in Int /\ f.entry.submittedAt <= 0
         /\ \A email \in Emails :
              f.path # <<email>> /\ \A id \in Submissions : f.path # <<email, id>>
         /\ \A g \in OldFiles : f.entry.id = g.entry.id => f = g
BY SiteAssumption

\* An entry is an old one, with an id of its own, or a submission's.
LEMMA EntriesAre ==
  ASSUME WaitInv, NEW e \in Entries
  PROVE  /\ e.id \in Int /\ e.submittedAt \in Int /\ e.submittedAt <= waitlistTime
         /\ TheWaitlist!IsOld(e) <=> e.id \notin Submissions
         /\ TheWaitlist!IsOld(e) => e.submittedAt <= 0
         /\ e.id \in Submissions =>
              /\ Kept(e.id) /\ e = submission[e.id].entry /\ SubmissionOK(e.id)
              /\ e.email \in Emails /\ e.submittedAt \in Nat /\ ~Unreadable(e)
<1>1. PICK f \in files : f.entry = e
  BY DEF Entries, TheWaitlist!Entries
<1>2. ASSUME NEW g \in OldFiles PROVE g.entry.id \notin Submissions
  BY OldFilesOK
<1>3. CASE f \in OldFiles
  <2>1. TheWaitlist!IsOld(e)
    BY <1>1, <1>3 DEF TheWaitlist!IsOld
  <2>2. waitlistTime \in Nat
    BY DEF WaitInv
  <2> QED BY <1>1, <1>3, <2>1, <2>2, OldFilesOK
<1>4. CASE f \notin OldFiles
  <2>1. /\ e.id \in Submissions /\ Kept(e.id) /\ e = submission[e.id].entry
    BY <1>1, <1>4 DEF WaitInv, FilesOK, FileOK
  <2>2. ~TheWaitlist!IsOld(e)
    BY <1>2, <2>1 DEF TheWaitlist!IsOld
  <2>3. SubmissionOK(e.id)
    BY <2>1 DEF WaitInv
  <2>4. e.email \in Emails /\ e.submittedAt \in Nat /\ e.submittedAt <= waitlistTime
    BY <2>1, <2>3 DEF SubmissionOK
  <2>5. e.id \in Int
    <3>1. Submissions \subseteq Nat
      BY SiteAssumption
    <3>2. \A n \in Submissions : n \in Int
      BY <3>1
    <3> QED BY <2>1, <3>2, Zenon
  <2>6. ~Unreadable(e)
    <3>1. ASSUME NEW g \in files, g.entry = e, g.path \in UnreadableFiles PROVE FALSE
      <4>1. g \notin OldFiles
        BY <1>2, <2>1, <3>1
      <4>2. g.path \in {<<e.email>>, <<e.email, e.id>>}
        BY <3>1, <4>1 DEF WaitInv, FilesOK, FileOK
      <4>3. PICK h \in OldFiles : h.path = g.path
        BY <3>1, SiteAssumption
      <4> QED BY <2>1, <2>4, <4>2, <4>3, OldFilesOK
    <3> QED BY <3>1 DEF Unreadable, TheWaitlist!Unreadable
  <2> QED BY <2>1, <2>2, <2>3, <2>4, <2>5, <2>6
<1> QED BY <1>3, <1>4

\* No two entries have one id.
LEMMA IdsDiffer ==
  ASSUME WaitInv, NEW d \in Entries, NEW e \in Entries, d.id = e.id
  PROVE  d = e
<1>1. CASE d.id \in Submissions
  BY <1>1, EntriesAre
<1>2. CASE d.id \notin Submissions
  <2>1. TheWaitlist!IsOld(d) /\ TheWaitlist!IsOld(e)
    BY <1>2, EntriesAre
  <2>2. PICK f \in OldFiles, g \in OldFiles : f.entry = d /\ g.entry = e
    BY <2>1 DEF TheWaitlist!IsOld
  <2> QED BY <2>2, OldFilesOK
<1> QED BY <1>1, <1>2

\* The order in which the entries come back, as a relation.
Order == { p \in Entries \X Entries : p[1] = p[2] \/ TheWaitlist!Before(p[1], p[2]) }

LEMMA EntriesOrdered ==
  ASSUME WaitInv, NEW S, S \subseteq Entries
  PROVE  /\ \A d, e \in S : <<d, e>> \in Order <=> d = e \/ TheWaitlist!Before(d, e)
         /\ Orders(Order, S)
<1>1. \A d, e \in Entries : <<d, e>> \in Order <=> d = e \/ TheWaitlist!Before(d, e)
  BY DEF Order
<1>2. ASSUME NEW d \in Entries, NEW e \in Entries
      PROVE  /\ TheWaitlist!Before(d, e) <=>
                  \/ d.submittedAt < e.submittedAt
                  \/ d.submittedAt = e.submittedAt /\ TheWaitlist!Place(d) < TheWaitlist!Place(e)
                  \/ /\ d.submittedAt = e.submittedAt /\ TheWaitlist!Place(d) = TheWaitlist!Place(e)
                     /\ d.id < e.id
             /\ d.submittedAt \in Int /\ d.id \in Int /\ TheWaitlist!Place(d) \in Int
  BY EntriesAre DEF TheWaitlist!Before, TheWaitlist!Place
<1>3. \A d, e \in Entries : TheWaitlist!Before(d, e) \/ TheWaitlist!Before(e, d) \/ d = e
  BY <1>2, IdsDiffer
<1>4. \A d, e \in Entries : ~(TheWaitlist!Before(d, e) /\ TheWaitlist!Before(e, d))
  BY <1>2
<1>5. ASSUME NEW c \in Entries, NEW d \in Entries, NEW e \in Entries,
             TheWaitlist!Before(c, d), TheWaitlist!Before(d, e)
      PROVE  TheWaitlist!Before(c, e)
  BY <1>2, <1>5
<1>6. \A x \in S : x \in Entries
  OBVIOUS
<1> QED BY <1>1, <1>3, <1>4, <1>5, <1>6, Zenon DEF Orders

\* Sorting lists each of the entries, the earliest first.
LEMMA SortedOnce ==
  ASSUME WaitInv, NEW S, S \subseteq Entries, IsFiniteSet(S)
  PROVE  LET s == TheWaitlist!Sorted(S)
         IN  /\ s \in Seq(S) /\ Len(s) = Cardinality(S) /\ Len(s) \in Nat
             /\ \A e \in S : \E n \in 1..Len(s) : s[n] = e
             /\ Len(s) > 0 => \A e \in S : e = s[1] \/ TheWaitlist!Before(s[1], e)
<1> DEFINE s == TheWaitlist!Sorted(S)
           N == Cardinality(S)
<1>1. Orders(Order, S) /\ \A d, e \in S : <<d, e>> \in Order <=> d = e \/ TheWaitlist!Before(d, e)
  BY EntriesOrdered
<1>2. /\ N \in Nat /\ \A n \in 1..N : Ranked(S, Order, n) \in S
      /\ \A n, k \in 1..N : n < k => <<Ranked(S, Order, n), Ranked(S, Order, k)>> \in Order
      /\ \A e \in S : \E n \in 1..N : Ranked(S, Order, n) = e
  BY <1>1, RankedOnce
<1>3. s = [n \in 1..N |-> Ranked(S, Order, n)]
  <2>1. \A e \in S :
          { d \in S : d = e \/ TheWaitlist!Before(d, e) } = { d \in S : <<d, e>> \in Order }
    BY <1>1
  <2>2. \A T : TheWaitlist!Cardinality(T) = Cardinality(T)
    BY DEF TheWaitlist!Cardinality, Cardinality
  <2>3. \A e \in S : TheWaitlist!Cardinality({ d \in S : d = e \/ TheWaitlist!Before(d, e) }) =
                    Cardinality({ d \in S : <<d, e>> \in Order })
    BY <2>1, <2>2, Zenon
  <2> DEFINE nth(n) ==
               CHOOSE e \in S :
                 TheWaitlist!Cardinality({ d \in S : d = e \/ TheWaitlist!Before(d, e) }) = n
  <2>4. \A n : Ranked(S, Order, n) = nth(n)
    BY <2>3, Zenon DEF Ranked
  <2>5. s = [n \in 1..TheWaitlist!Cardinality(S) |-> nth(n)]
    BY DEF TheWaitlist!Sorted
  <2>6. TheWaitlist!Cardinality(S) = N
    BY <2>2
  <2> HIDE DEF nth, s, N
  <2> QED BY <2>4, <2>5, <2>6
<1> HIDE DEF s, N
<1>4. s \in [1..N -> S] /\ \A n \in 1..N : s[n] = Ranked(S, Order, n)
  BY <1>2, <1>3
<1>5. s \in Seq(S) /\ Len(s) = N
  <2>1. s \in Seq(S)
    BY <1>2, <1>4, SeqDef
  <2>2. DOMAIN s = 1..Len(s) /\ DOMAIN s = 1..N /\ Len(s) \in Nat
    BY <1>4, <2>1, LenProperties
  <2> QED BY <1>2, <2>1, <2>2, SameInterval
<1>6. \A e \in S : \E n \in 1..N : s[n] = e
  BY <1>2, <1>4
<1>7. ASSUME N > 0, NEW e \in S PROVE e = s[1] \/ TheWaitlist!Before(s[1], e)
  <2>1. PICK n \in 1..N : s[n] = e
    BY <1>6
  <2>2. 1 \in 1..N /\ (n = 1 \/ 1 < n)
    BY <1>2, <1>7
  <2>3. s[1] \in S
    BY <1>4, <2>2
  <2> QED BY <1>1, <1>2, <1>4, <2>1, <2>2, <2>3
<1> QED BY <1>2, <1>5, <1>6, <1>7, Zenon DEF s, N

\* The export's row for an email, if anything was loaded for it: its entry is the earliest,
\* and it shows what each says once.
LEMMA RowsShowAll ==
  ASSUME WaitInv, NEW S, S \subseteq Entries, IsFiniteSet(S), NEW email
  PROVE  LET mine == { e \in S : e.email = email }
             row  == TheWaitlist!GroupByEmail(S, email)
             vs   == TheWaitlist!Versions(row)
         IN  /\ \A e \in mine : \E i \in 1..Len(vs) : vs[i].content = e.content
             /\ \A i, k \in 1..Len(vs) : vs[i].content = vs[k].content => i = k
             /\ mine # {} =>
                  /\ row.entry \in mine
                  /\ \A e \in mine : e = row.entry \/ TheWaitlist!Before(row.entry, e)
<1> DEFINE mine == { e \in S : e.email = email }
           s    == TheWaitlist!Sorted(mine)
           row  == TheWaitlist!GroupByEmail(S, email)
           vs   == TheWaitlist!Versions(row)
<1>1. mine \subseteq Entries /\ IsFiniteSet(mine)
  <2>1. mine \subseteq S
    OBVIOUS
  <2> HIDE DEF mine
  <2> QED BY <2>1, FS_Subset
<1>2. /\ s \in Seq(mine) /\ Len(s) = Cardinality(mine) /\ Len(s) \in Nat
      /\ \A e \in mine : \E n \in 1..Len(s) : s[n] = e
      /\ Len(s) > 0 => \A e \in mine : e = s[1] \/ TheWaitlist!Before(s[1], e)
  <2> HIDE DEF mine
  <2> QED BY <1>1, SortedOnce
<1> DEFINE f == CHOOSE f : f = [n \in 1..Len(s) |->
                  IF n = 1 THEN [entry |-> s[1], updates |-> <<>>]
                  ELSE TheWaitlist!AddUpdate(f[n - 1], s[n])]
<1>3. row = IF s = <<>> THEN TheWaitlist!NoRow ELSE f[Len(s)]
  BY Zenon DEF TheWaitlist!GroupByEmail
<1> HIDE DEF mine, s
<1>4. f = [n \in 1..Len(s) |->
             IF n = 1 THEN RowStart(s[1]) ELSE TheWaitlist!AddUpdate(f[n - 1], s[n])]
  <2>1. \E g : g = [n \in 1..Len(s) |->
             IF n = 1 THEN RowStart(s[1]) ELSE TheWaitlist!AddUpdate(g[n - 1], s[n])]
    BY <1>2, RowsExist
  <2> QED BY <2>1, Zenon DEF RowStart
<1> HIDE DEF f, row
<1>5. CASE s = <<>>
  <2>1. Len(s) = 0
    BY <1>5
  <2>2. mine = {}
    BY <1>2, <2>1
  <2>3. row.entry = TheWaitlist!NoEntry /\ row.updates = <<>>
    BY <1>3, <1>5 DEF TheWaitlist!NoRow
  <2>4. vs = <<TheWaitlist!NoEntry>>
    <3>1. <<TheWaitlist!NoEntry>> \in Seq({TheWaitlist!NoEntry})
      OBVIOUS
    <3>2. <<TheWaitlist!NoEntry>> \o <<>> = <<TheWaitlist!NoEntry>>
      BY <3>1, ConcatEmptySeq
    <3> QED BY <2>3, <3>2 DEF TheWaitlist!Versions
  <2>5. \A i, k \in 1..Len(vs) : i = k
    <3> HIDE DEF vs
    <3>1. Len(vs) = 1
      BY <2>4
    <3> QED BY <3>1
  <2> QED BY <2>2, <2>5, Zenon DEF mine, row
<1>6. CASE s # <<>>
  <2>1. Len(s) > 0 /\ Len(s) \in 1..Len(s) /\ 1 \in 1..Len(s)
    <3>1. Len(s) # 0
      BY <1>2, <1>6, EmptySeq
    <3> QED BY <1>2, <3>1
  <2>2. Shows(row, s, Len(s), mine)
    BY <1>2, <1>3, <1>4, <1>6, <2>1, RowShows
  <2>3. s[1] \in mine
    BY <1>2, <2>1, ElementOfSeq
  <2>4. /\ row.entry = s[1]
        /\ \A m \in 1..Len(s) : \E i \in 1..Len(vs) : vs[i].content = s[m].content
        /\ \A i, k \in 1..Len(vs) : vs[i].content = vs[k].content => i = k
    BY <2>2, Zenon DEF Shows
  <2> HIDE DEF vs
  <2>5. \A e \in mine : \E i \in 1..Len(vs) : vs[i].content = e.content
    <3>1. ASSUME NEW e \in mine PROVE \E i \in 1..Len(vs) : vs[i].content = e.content
      <4>1. PICK n \in 1..Len(s) : s[n] = e
        BY <1>2
      <4>2. PICK i \in 1..Len(vs) : vs[i].content = s[n].content
        BY <2>4
      <4> QED BY <4>1, <4>2
    <3> QED BY <3>1
  <2> QED BY <1>2, <2>1, <2>3, <2>4, <2>5, Zenon DEF mine, row, vs
<1> QED BY <1>5, <1>6

\* The files may grow: what was stored still is, and so are the first of each email.
LEMMA StillThere ==
  ASSUME files \subseteq files'
  PROVE  /\ Entries \subseteq Entries'
         /\ \A e : Unreadable(e) => Unreadable(e)'
         /\ \A K : Closed(K, files) => Closed(K, files')
<1>1. Entries \subseteq Entries'
  BY DEF Entries, TheWaitlist!Entries
<1>2. \A e : Unreadable(e) => Unreadable(e)'
  BY DEF Unreadable, TheWaitlist!Unreadable
<1>3. \A e : FirstIn(e, files) => FirstIn(e, files')
  BY DEF FirstIn
<1>4. \A K : Closed(K, files) => Closed(K, files')
  BY <1>3, Zenon DEF Closed
<1> QED BY <1>1, <1>2, <1>4

\* A submission that takes no step stays as it is while time passes and files are stored.
LEMMA SubmissionStays ==
  ASSUME NEW r \in Submissions, SubmissionOK(r), files \subseteq files',
         waitlistTime \in Nat, waitlistTime' \in Nat, waitlistTime <= waitlistTime',
         submission'[r] = submission[r], known'[r] = known[r]
  PROVE  SubmissionOK(r)'
<1>1. /\ Entries \subseteq Entries' /\ \A K : Closed(K, files) => Closed(K, files')
      /\ \A e : FirstIn(e, files) => FirstIn(e, files')
  BY StillThere DEF FirstIn
<1>2. Closed(known[r], files) => Closed(known'[r], files')
  BY <1>1
<1> QED BY <1>1, <1>2 DEF SubmissionOK, Kept

\* The files are as they were, and so is the entry of every submission that was kept.
LEMMA FilesStay ==
  ASSUME WaitInv, UNCHANGED files,
         \A r \in Submissions :
           Kept(r) => Kept(r)' /\ submission'[r].entry = submission[r].entry
  PROVE  FilesOK'
<1>1. Entries' = Entries
  BY DEF Entries, TheWaitlist!Entries
<1>2. ASSUME NEW f \in files PROVE FileOK(f)'
  BY DEF WaitInv, FilesOK, FileOK
<1> QED BY <1>1, <1>2 DEF WaitInv, FilesOK

\* A job that takes no step, while a submission at most begins to be kept.
LEMMA SightStays ==
  ASSUME WaitInv, NEW j \in Jobs, job'[j] = job[j], seen'[j] = seen[j], files \subseteq files',
         \A r \in Submissions :
           Kept(r)' => (Kept(r) /\ known'[r] = known[r]) \/ known'[r] = Entries
  PROVE  SightOK(j)'
<1>1. /\ Entries \subseteq Entries' /\ \A e : Unreadable(e) => Unreadable(e)'
      /\ \A K : Closed(K, files) => Closed(K, files')
  BY StillThere
<1>2. SightOK(j)
  BY DEF WaitInv
<1>3. TheWaitlist!HasExported(j)' => TheWaitlist!HasExported(j)
  BY DEF TheWaitlist!HasExported
<1>4. TheWaitlist!HasExported(j)' =>
        \A e \in seen'[j].stored : e \in job'[j].loaded \/ Unreadable(e)'
  BY <1>1, <1>2, <1>3 DEF SightOK
<1>5. ASSUME job[j].pc # "idle", NEW r \in Submissions, Kept(r)'
      PROVE  known'[r] \subseteq seen'[j].stored \/ seen'[j].stored \subseteq known'[r]
  BY <1>2, <1>5 DEF SightOK
<1>6. Closed(seen[j].stored, files) => Closed(seen'[j].stored, files')
  BY <1>1
<1> QED BY <1>1, <1>2, <1>4, <1>5, <1>6 DEF SightOK

LEMMA WaitInit ==
  ASSUME SiteInit
  PROVE  WaitInv
<1> USE DEF SiteInit, TheWaitlist!WaitlistInit
<1>1. Entries = { f.entry : f \in OldFiles }
  BY DEF Entries, TheWaitlist!Entries
<1>2. \A e \in Entries : e.id \notin Submissions
  BY <1>1, OldFilesOK
<1>3. ASSUME NEW r \in Submissions PROVE SubmissionOK(r)
  BY DEF SubmissionOK, Kept
<1>4. FilesOK
  <2>1. Closed(Entries, files)
    BY <1>2 DEF Closed
  <2>2. ASSUME NEW d \in Entries, d.email \in Emails PROVE ~FirstIn(d, files)
    <3>1. ASSUME [path |-> <<d.email>>, entry |-> d] \in OldFiles PROVE FALSE
      BY <2>2, <3>1, OldFilesOK
    <3> QED BY <3>1 DEF FirstIn
  <2> QED BY <2>1, <2>2 DEF FilesOK, FileOK
<1>5. ASSUME NEW j \in Jobs PROVE SightOK(j)
  BY FS_EmptySet DEF SightOK, TheWaitlist!HasExported
<1>6. waitlistTime \in Nat /\ submission = [r \in Submissions |-> submission[r]]
      /\ known = [r \in Submissions |-> known[r]]
  OBVIOUS
<1> QED BY <1>3, <1>4, <1>5, <1>6 DEF WaitInv

\* Time passes, or something else moves.
LEMMA QuietWait ==
  ASSUME WaitInv, UNCHANGED <<submission, files, job, seen, known>>,
         waitlistTime' \in Nat, waitlistTime <= waitlistTime'
  PROVE  WaitInv'
<1>1. ASSUME NEW r \in Submissions PROVE SubmissionOK(r)'
  BY SubmissionStays DEF WaitInv
<1>2. FilesOK'
  BY FilesStay DEF Kept
<1>3. ASSUME NEW j \in Jobs PROVE SightOK(j)'
  <2>1. \A r \in Submissions : Kept(r)' => (Kept(r) /\ known'[r] = known[r]) \/ known'[r] = Entries
    BY DEF Kept
  <2> QED BY <2>1, SightStays
<1> QED BY <1>1, <1>2, <1>3 DEF WaitInv

\* One submission takes a step.
LEMMA OneSubmissionSteps ==
  ASSUME WaitInv, NEW r \in Submissions, UNCHANGED <<job, seen, waitlistTime>>,
         files \subseteq files', FilesOK', SubmissionOK(r)',
         submission' = [s \in Submissions |-> submission'[s]],
         known' = [s \in Submissions |-> known'[s]],
         \A s \in Submissions : s # r => submission'[s] = submission[s] /\ known'[s] = known[s],
         Kept(r)' => (Kept(r) /\ known'[r] = known[r]) \/ known'[r] = Entries
  PROVE  WaitInv'
<1>1. ASSUME NEW s \in Submissions PROVE SubmissionOK(s)'
  <2>1. CASE s = r
    BY <2>1
  <2>2. CASE s # r
    <3>1. SubmissionOK(s) /\ waitlistTime \in Nat /\ waitlistTime' \in Nat
      BY DEF WaitInv
    <3>2. waitlistTime <= waitlistTime'
      BY <3>1
    <3> QED BY <2>2, <3>1, <3>2, SubmissionStays
  <2> QED BY <2>1, <2>2
<1>2. ASSUME NEW j \in Jobs PROVE SightOK(j)'
  <2>1. ASSUME NEW s \in Submissions, Kept(s)'
        PROVE  (Kept(s) /\ known'[s] = known[s]) \/ known'[s] = Entries
    <3>1. CASE s = r
      BY <2>1, <3>1
    <3>2. CASE s # r
      BY <2>1, <3>2 DEF Kept
    <3> QED BY <3>1, <3>2
  <2> QED BY <2>1, SightStays
<1> QED BY <1>1, <1>2 DEF WaitInv

\* One job takes a step.
LEMMA OneJobSteps ==
  ASSUME WaitInv, NEW j \in Jobs, UNCHANGED <<submission, files, known, waitlistTime>>,
         SightOK(j)', \A k \in Jobs : k # j => job'[k] = job[k] /\ seen'[k] = seen[k]
  PROVE  WaitInv'
<1>1. ASSUME NEW s \in Submissions PROVE SubmissionOK(s)'
  <2>1. SubmissionOK(s) /\ waitlistTime \in Nat /\ waitlistTime' \in Nat
    BY DEF WaitInv
  <2>2. waitlistTime <= waitlistTime'
    BY <2>1
  <2> QED BY <2>1, <2>2, SubmissionStays
<1>2. FilesOK'
  BY FilesStay DEF Kept
<1>3. ASSUME NEW k \in Jobs PROVE SightOK(k)'
  <2>1. CASE k = j
    BY <2>1
  <2>2. CASE k # j
    <3>1. \A r \in Submissions :
            Kept(r)' => (Kept(r) /\ known'[r] = known[r]) \/ known'[r] = Entries
      BY DEF Kept
    <3> QED BY <2>2, <3>1, SightStays
  <2> QED BY <2>1, <2>2
<1> QED BY <1>1, <1>2, <1>3 DEF WaitInv

\* The submission's record after a step of its own.
Moved(r, pc, answer) ==
  /\ submission' = [s \in Submissions |-> submission'[s]]
  /\ \A s \in Submissions : s # r => submission'[s] = submission[s]
  /\ submission'[r] = [pc |-> pc, entry |-> submission[r].entry, answer |-> answer]

LEMMA SavesAreMoves ==
  ASSUME WaitInv, NEW r \in Submissions
  PROVE  /\ \A pc : TheWaitlist!SaveMoves(r, pc) => Moved(r, pc, submission[r].answer)
         /\ \A code : TheWaitlist!SaveEnds(r, code) => Moved(r, "done", code)
<1>1. /\ submission = [s \in Submissions |-> submission[s]]
      /\ submission[r] = [pc |-> submission[r].pc, entry |-> submission[r].entry,
                          answer |-> submission[r].answer]
  BY DEF WaitInv, SubmissionOK
<1>2. ASSUME NEW pc, TheWaitlist!SaveMoves(r, pc) PROVE Moved(r, pc, submission[r].answer)
  BY <1>1, <1>2 DEF Moved, TheWaitlist!SaveMoves
<1>3. ASSUME NEW code, TheWaitlist!SaveEnds(r, code) PROVE Moved(r, "done", code)
  BY <1>1, <1>3 DEF Moved, TheWaitlist!SaveEnds
<1> QED BY <1>2, <1>3

\* A kept submission goes on with the entry it has.
LEMMA KeepsGoing ==
  ASSUME WaitInv, NEW r \in Submissions, NEW pc, NEW answer, Moved(r, pc, answer),
         UNCHANGED <<job, seen, known, waitlistTime>>,
         submission[r].pc \in {"first", "head", "later"},
         \/ pc \in {"head", "later"} /\ answer = submission[r].answer
         \/ pc = "done" /\ answer \in {200, 500},
         pc = "later" =>
           \E d \in Entries : d.email = submission[r].entry.email /\ FirstIn(d, files),
         answer = 200 => submission[r].entry \in Entries' \/ submission[r].answer = 200,
         files \subseteq files', FilesOK'
  PROVE  WaitInv'
<1>1. SubmissionOK(r) /\ Kept(r) /\ waitlistTime \in Nat
  BY DEF WaitInv, Kept
<1>2. /\ Entries \subseteq Entries' /\ \A K : Closed(K, files) => Closed(K, files')
      /\ \A e : FirstIn(e, files) => FirstIn(e, files')
  BY StillThere DEF FirstIn
<1>3. Closed(known[r], files) => Closed(known'[r], files')
  BY <1>2
<1>4. Kept(r)' /\ submission'[r].entry = submission[r].entry
  BY DEF Moved, Kept
<1>5. SubmissionOK(r)'
  BY <1>1, <1>2, <1>3, <1>4 DEF SubmissionOK, Moved
<1>6. known' = [s \in Submissions |-> known'[s]]
  BY DEF WaitInv
<1> QED BY <1>1, <1>5, <1>6, OneSubmissionSteps DEF Moved

\* While a kept submission goes on, the files that are there stay in order.
LEMMA MovesKeepFiles ==
  ASSUME WaitInv, NEW r \in Submissions, NEW pc, NEW answer, Moved(r, pc, answer),
         UNCHANGED files, pc \in {"head", "later"} \/ answer \in {200, 500}
  PROVE  FilesOK'
<1>1. ASSUME NEW s \in Submissions, Kept(s)
      PROVE  Kept(s)' /\ submission'[s].entry = submission[s].entry
  BY <1>1 DEF Moved, Kept
<1> QED BY <1>1, FilesStay

\* A file is stored: the email's first one, at a path that was free, or a later one, with a
\* path of its own, beside the first.
LEMMA OneFileMore ==
  ASSUME WaitInv, NEW r \in Submissions, NEW e, NEW p,
         Kept(r), Kept(r)', e = submission[r].entry, e = submission'[r].entry,
         \A s \in Submissions : s # r => submission'[s] = submission[s],
         TheWaitlist!Stores(p, e),
         \/ p = <<e.email>> /\ p \notin TheWaitlist!Paths
         \/ p = <<e.email, e.id>> /\ \E d \in Entries : d.email = e.email /\ FirstIn(d, files)
  PROVE  FilesOK' /\ e \in Entries'
<1> DEFINE new == [path |-> p, entry |-> e]
<1>1. files' = files \cup {new}
  BY DEF TheWaitlist!Stores
<1>2. SubmissionOK(r)
  BY DEF WaitInv
<1>3. e.id = r /\ e.email \in Emails
  BY <1>2 DEF SubmissionOK
<1>4. new.entry = e /\ new.path = p /\ new = [path |-> new.path, entry |-> new.entry]
  OBVIOUS
<1>5. \A d : [path |-> <<d.email>>, entry |-> d] = new <=> d = e /\ p = <<e.email>>
  OBVIOUS
<1> HIDE DEF new
<1>6. Entries' = Entries \cup {e}
  BY <1>1, <1>4 DEF Entries, TheWaitlist!Entries
<1>7. ASSUME NEW f \in files PROVE FileOK(f)'
  <2>1. FileOK(f)
    BY DEF WaitInv, FilesOK
  <2>2. ASSUME NEW s \in Submissions, Kept(s)
        PROVE  Kept(s)' /\ submission'[s].entry = submission[s].entry
    <3>1. CASE s = r
      BY <3>1, Zenon
    <3>2. CASE s # r
      BY <2>2, <3>2, Zenon DEF Kept
    <3> QED BY <3>1, <3>2
  <2> QED BY <2>1, <2>2 DEF FileOK
<1>8. FileOK(new)'
  <2>1. new.path \in {<<new.entry.email>>, <<new.entry.email, new.entry.id>>}
    BY <1>4
  <2>2. new.entry.id = r /\ new.entry = submission'[r].entry
    BY <1>3, <1>4
  <2> QED BY <1>4, <2>1, <2>2 DEF FileOK, Kept
<1>9. \A d : FirstIn(d, files') <=> FirstIn(d, files) \/ (d = e /\ p = <<e.email>>)
  BY <1>1, <1>5 DEF FirstIn
<1>10. p = <<e.email>> => \A d : FirstIn(d, files) => d.email # e.email
  <2>1. ASSUME p = <<e.email>>, NEW d, FirstIn(d, files), d.email = e.email PROVE FALSE
    <3>1. <<d.email>> \in TheWaitlist!Paths
      BY <2>1 DEF FirstIn, TheWaitlist!Paths
    <3>2. p # <<e.email, e.id>>
      BY <2>1
    <3> QED BY <2>1, <3>1, <3>2
  <2> QED BY <2>1
<1>11. Closed(Entries', files')
  BY <1>6, <1>9 DEF WaitInv, FilesOK, Closed
<1>12. ASSUME NEW c \in Entries', NEW d \in Entries', c.email \in Emails, c.email = d.email,
              FirstIn(c, files'), FirstIn(d, files')
       PROVE  c = d
  <2>1. \A x \in Entries' : x \in Entries \/ x = e
    BY <1>6
  <2>2. \A x \in Entries' : FirstIn(x, files) => x \in Entries
    BY <1>4 DEF FirstIn, Entries, TheWaitlist!Entries
  <2> QED BY <1>9, <1>10, <1>12, <2>2 DEF WaitInv, FilesOK
<1>13. OldFiles \subseteq files' /\ \A f \in files' : FileOK(f)'
  BY <1>1, <1>7, <1>8 DEF WaitInv, FilesOK
<1>14. FilesOK'
  BY <1>11, <1>12, <1>13, Zenon DEF FilesOK
<1> QED BY <1>6, <1>14

LEMMA SubmissionSteps ==
  ASSUME WaitInv, NEW r \in Submissions,
         TheWaitlist!PutsFirst(r) \/ TheWaitlist!HeadsFirst(r) \/ TheWaitlist!PutsLater(r)
  PROVE  WaitInv'
<1> DEFINE e == submission[r].entry
<1>1. /\ \A pc : TheWaitlist!SaveMoves(r, pc) => Moved(r, pc, submission[r].answer)
      /\ \A code : TheWaitlist!SaveEnds(r, code) => Moved(r, "done", code)
  BY SavesAreMoves
<1>2. UNCHANGED <<job, seen, known, waitlistTime>>
  BY DEF TheWaitlist!PutsFirst, TheWaitlist!HeadsFirst, TheWaitlist!PutsLater
<1>3. SubmissionOK(r)
  BY DEF WaitInv
<1>4. /\ \A pc : Moved(r, pc, submission[r].answer) /\ pc \in {"head", "later"} => Kept(r)'
      /\ \A code : Moved(r, "done", code) /\ code \in {200, 500} => Kept(r)'
      /\ \A pc, answer : Moved(r, pc, answer) =>
           /\ e = submission'[r].entry
           /\ \A s \in Submissions : s # r => submission'[s] = submission[s]
  BY DEF Moved, Kept
<1>5. CASE TheWaitlist!PutsFirst(r)
  <2>1. submission[r].pc = "first" /\ Kept(r)
    BY <1>5 DEF TheWaitlist!PutsFirst, Kept
  <2>2. CASE /\ <<e.email>> \notin TheWaitlist!Paths /\ TheWaitlist!Stores(<<e.email>>, e)
             /\ TheWaitlist!SaveEnds(r, 200) \/ TheWaitlist!SaveMoves(r, "head")
    <3>1. Moved(r, "done", 200) \/ Moved(r, "head", submission[r].answer)
      BY <1>1, <2>2, Zenon
    <3>2. Kept(r)' /\ e = submission'[r].entry
          /\ \A s \in Submissions : s # r => submission'[s] = submission[s]
      BY <1>4, <3>1
    <3>3. FilesOK' /\ e \in Entries' /\ files \subseteq files'
      <4>1. files \subseteq files'
        BY <2>2 DEF TheWaitlist!Stores
      <4> HIDE DEF e
      <4>2. e = submission[r].entry
        BY DEF e
      <4> QED BY <2>1, <2>2, <3>2, <4>1, <4>2, OneFileMore
    <3> QED BY <1>2, <2>1, <3>1, <3>3, KeepsGoing
  <2>3. CASE TheWaitlist!SaveMoves(r, "head") /\ UNCHANGED files
    <3>1. Moved(r, "head", submission[r].answer)
      BY <1>1, <2>3, Zenon
    <3>2. FilesOK'
      BY <2>3, <3>1, MovesKeepFiles
    <3> QED BY <1>2, <2>1, <2>3, <3>1, <3>2, KeepsGoing
  <2> QED BY <1>5, <2>2, <2>3 DEF TheWaitlist!PutsFirst
<1>6. CASE TheWaitlist!HeadsFirst(r)
  <2>1. submission[r].pc = "head" /\ Kept(r) /\ UNCHANGED files
    BY <1>6 DEF TheWaitlist!HeadsFirst, Kept
  <2>2. CASE <<e.email>> \in TheWaitlist!Paths /\ TheWaitlist!SaveMoves(r, "later")
    <3>1. Moved(r, "later", submission[r].answer)
      BY <1>1, <2>2, Zenon
    <3>2. FilesOK'
      BY <2>1, <3>1, MovesKeepFiles
    <3>3. \E d \in Entries : d.email = e.email /\ FirstIn(d, files)
      <4>1. PICK f \in files : f.path = <<e.email>>
        BY <2>2 DEF TheWaitlist!Paths
      <4>2. e.email \in Emails
        BY <1>3, <2>1 DEF SubmissionOK
      <4>3. f \notin OldFiles
        BY <4>1, <4>2, OldFilesOK
      <4>4. /\ f = [path |-> f.path, entry |-> f.entry]
            /\ f.path \in {<<f.entry.email>>, <<f.entry.email, f.entry.id>>}
        BY <4>3 DEF WaitInv, FilesOK, FileOK
      <4> HIDE DEF e
      <4>5. f.entry.email = e.email
        BY <4>1, <4>4
      <4>6. f.entry \in Entries /\ FirstIn(f.entry, files)
        BY <4>1, <4>4, <4>5 DEF FirstIn, Entries, TheWaitlist!Entries
      <4> QED BY <4>5, <4>6
    <3> QED BY <1>2, <2>1, <3>1, <3>2, <3>3, KeepsGoing
  <2>3. CASE TheWaitlist!SaveEnds(r, 500)
    <3>1. Moved(r, "done", 500)
      BY <1>1, <2>3, Zenon
    <3>2. FilesOK'
      BY <2>1, <3>1, MovesKeepFiles
    <3> QED BY <1>2, <2>1, <3>1, <3>2, KeepsGoing
  <2> QED BY <1>6, <2>2, <2>3 DEF TheWaitlist!HeadsFirst
<1>7. CASE TheWaitlist!PutsLater(r)
  <2>1. submission[r].pc = "later" /\ Kept(r)
    BY <1>7 DEF TheWaitlist!PutsLater, Kept
  <2>2. CASE /\ TheWaitlist!Stores(<<e.email, e.id>>, e)
             /\ TheWaitlist!SaveEnds(r, 200) \/ TheWaitlist!SaveEnds(r, 500)
    <3>1. \A code : TheWaitlist!SaveEnds(r, code) => Moved(r, "done", code)
      BY <1>1
    <3>2. Moved(r, "done", 200) \/ Moved(r, "done", 500)
      BY <2>2, <3>1
    <3>3. Kept(r)' /\ e = submission'[r].entry
          /\ \A s \in Submissions : s # r => submission'[s] = submission[s]
      BY <1>4, <3>2
    <3>4. FilesOK' /\ e \in Entries' /\ files \subseteq files'
      <4>1. files \subseteq files'
        BY <2>2 DEF TheWaitlist!Stores
      <4>2. \E d \in Entries : d.email = e.email /\ FirstIn(d, files)
        BY <1>3, <2>1 DEF SubmissionOK
      <4> HIDE DEF e
      <4>3. e = submission[r].entry
        BY DEF e
      <4> QED BY <2>1, <2>2, <3>3, <4>1, <4>2, <4>3, OneFileMore
    <3> QED BY <1>2, <2>1, <3>2, <3>4, KeepsGoing
  <2>3. CASE TheWaitlist!SaveEnds(r, 500) /\ UNCHANGED files
    <3>1. Moved(r, "done", 500)
      BY <1>1, <2>3, Zenon
    <3>2. FilesOK'
      BY <2>3, <3>1, MovesKeepFiles
    <3> QED BY <1>2, <2>1, <2>3, <3>1, <3>2, KeepsGoing
  <2> QED BY <1>7, <2>2, <2>3 DEF TheWaitlist!PutsLater
<1> QED BY <1>5, <1>6, <1>7

\* A submission that begins to be kept knows all that is stored, and nobody has its id yet.
LEMMA SubmitStep ==
  ASSUME WaitInv, NEW r \in Submissions, TheWaitlist!Submits(r)
  PROVE  WaitInv'
<1>1. SubmissionOK(r) /\ ~Kept(r) /\ waitlistTime \in Nat
  <2>1. SubmissionOK(r) /\ waitlistTime \in Nat /\ submission[r].pc = "idle"
    BY DEF WaitInv, TheWaitlist!Submits
  <2> QED BY <2>1 DEF SubmissionOK, Kept
<1>2. UNCHANGED <<files, job, seen, waitlistTime>>
  BY DEF TheWaitlist!Submits
<1>3. /\ known' = [s \in Submissions |-> known'[s]] /\ known'[r] = Entries
      /\ \A s \in Submissions : s # r => known'[s] = known[s]
  <2>1. known = [s \in Submissions |-> known[s]]
    BY DEF WaitInv
  <2>2. known' = [known EXCEPT ![r] = Entries]
    BY DEF TheWaitlist!Submits, Entries
  <2> QED BY <2>1, <2>2
<1>4. /\ submission' = [s \in Submissions |-> submission'[s]]
      /\ \A s \in Submissions : s # r => submission'[s] = submission[s]
      /\ \/ /\ submission'[r].answer \notin {200, 500}
            /\ submission'[r] = [pc |-> "done", entry |-> submission[r].entry,
                                 answer |-> submission'[r].answer]
         \/ /\ submission'[r] = [pc |-> "first", entry |-> submission'[r].entry, answer |-> 0]
            /\ submission'[r].entry.email \in Emails /\ submission'[r].entry.id = r
            /\ submission'[r].entry.submittedAt = waitlistTime
  <2>1. /\ submission = [s \in Submissions |-> submission[s]]
        /\ submission[r] = [pc |-> "idle", entry |-> submission[r].entry, answer |-> 0]
    <3>1. submission[r].pc = "idle"
      BY DEF TheWaitlist!Submits
    <3> QED BY <1>1, <3>1 DEF WaitInv, SubmissionOK
  <2>2. CASE \E code \in {503, 429, 413, 400} :
               submission' = [submission EXCEPT ![r].pc = "done", ![r].answer = code]
    BY <2>1, <2>2
  <2>3. CASE \E email \in Emails, content \in Contents :
               submission' = [submission EXCEPT ![r].pc = "first", ![r].entry =
                 [email |-> email, content |-> content, id |-> r, submittedAt |-> waitlistTime]]
    <3>1. PICK e : /\ submission' = [submission EXCEPT ![r].pc = "first", ![r].entry = e]
                   /\ e.email \in Emails /\ e.id = r /\ e.submittedAt = waitlistTime
      <4>1. PICK email \in Emails, content \in Contents :
              submission' = [submission EXCEPT ![r].pc = "first", ![r].entry =
                [email |-> email, content |-> content, id |-> r, submittedAt |-> waitlistTime]]
        BY <2>3
      <4> DEFINE e == [email |-> email, content |-> content, id |-> r,
                       submittedAt |-> waitlistTime]
      <4>2. e.email \in Emails /\ e.id = r /\ e.submittedAt = waitlistTime
        OBVIOUS
      <4>3. submission' = [submission EXCEPT ![r].pc = "first", ![r].entry = e]
        BY <4>1
      <4> HIDE DEF e
      <4> QED BY <4>2, <4>3, Zenon
    <3>2. submission'[r] = [pc |-> "first", entry |-> e, answer |-> 0]
      <4> DEFINE go == [submission[r] EXCEPT !.pc = "first"]
      <4>1. go = [pc |-> "first", entry |-> submission[r].entry, answer |-> 0]
        BY <2>1
      <4>2. submission' = [[submission EXCEPT ![r] = go] EXCEPT
                             ![r] = [[submission EXCEPT ![r] = go][r] EXCEPT !.entry = e]]
        BY <3>1
      <4> HIDE DEF go
      <4>3. submission'[r] = [go EXCEPT !.entry = e]
        BY <2>1, <4>2
      <4> QED BY <4>1, <4>3
    <3>3. /\ submission' = [s \in Submissions |-> submission'[s]]
          /\ \A s \in Submissions : s # r => submission'[s] = submission[s]
      BY <2>1, <3>1
    <3>4. submission'[r].entry = e
      BY <3>2
    <3> QED BY <3>1, <3>2, <3>3, <3>4, Zenon
  <2> QED BY <2>2, <2>3 DEF TheWaitlist!Submits
<1>5. \A e \in Entries : e.id # r /\ e.submittedAt <= waitlistTime
  BY <1>1, EntriesAre
<1>6. FilesOK'
  <2>1. ASSUME NEW s \in Submissions, Kept(s)
        PROVE  Kept(s)' /\ submission'[s].entry = submission[s].entry
    <3>1. s # r
      BY <1>1, <2>1
    <3> QED BY <1>4, <2>1, <3>1 DEF Kept
  <2> QED BY <1>2, <2>1, FilesStay
<1>7. Entries' = Entries /\ Closed(Entries, files)
  BY <1>2 DEF Entries, TheWaitlist!Entries, WaitInv, FilesOK
<1>8. SubmissionOK(r)'
  <2>1. Closed(known'[r], files')
    BY <1>2, <1>3, <1>7
  <2>2. CASE submission'[r].pc = "done"
    BY <1>4, <2>2 DEF SubmissionOK, Kept
  <2>3. CASE submission'[r].pc = "first"
    BY <1>1, <1>2, <1>3, <1>4, <1>5, <1>7, <2>1, <2>3 DEF SubmissionOK, Kept
  <2> QED BY <1>4, <2>2, <2>3
<1> QED BY <1>2, <1>3, <1>4, <1>6, <1>8, OneSubmissionSteps

\* Jobs: a job begins with all that is stored in sight, and an export that ends has loaded
\* what can be read of it.
LEMMA JobWaits ==
  ASSUME WaitInv, LoadsInv, NEW j \in Jobs,
         \/ TheWaitlist!Begins(j) \/ TheWaitlist!Lists(j) \/ TheWaitlist!Downloads(j)
         \/ TheWaitlist!WritesSnapshot(j) \/ TheWaitlist!Exports(j)
  PROVE  WaitInv'
<1>1. /\ job \in [Jobs -> JobType] /\ seen = [k \in Jobs |-> seen[k]]
      /\ SightOK(j) /\ LoadOK(j)
  BY DEF WaitInv, LoadsInv, JobsOK
<1>2. UNCHANGED <<submission, files, known, waitlistTime>>
  BY DEF TheWaitlist!Begins, TheWaitlist!Lists, TheWaitlist!Downloads,
         TheWaitlist!WritesSnapshot, TheWaitlist!Exports
<1>3. \A k \in Jobs : k # j => job'[k] = job[k] /\ seen'[k] = seen[k]
  BY <1>1 DEF TheWaitlist!Begins, TheWaitlist!Lists, TheWaitlist!Downloads,
              TheWaitlist!WritesSnapshot, TheWaitlist!Exports, TheWaitlist!JobMoves
<1>4. /\ Entries' = Entries /\ \A e : Unreadable(e)' <=> Unreadable(e)
      /\ \A r \in Submissions : Kept(r)' <=> Kept(r)
  BY <1>2 DEF Entries, TheWaitlist!Entries, Unreadable, TheWaitlist!Unreadable, Kept
<1>5. CASE TheWaitlist!Begins(j)
  <2>1. /\ job'[j].pc = "list" /\ job'[j].loaded = job[j].loaded
        /\ seen'[j].stored = Entries
        /\ seen'[j].accepted =
             { submission[r].entry : r \in { s \in Submissions : submission[s].answer = 200 } }
    BY <1>1, <1>5 DEF TheWaitlist!Begins, JobType, Entries
  <2>2. \A e \in seen'[j].accepted : e \in seen'[j].stored /\ e.id \in Submissions
    BY <2>1 DEF WaitInv, SubmissionOK, Kept
  <2>3. Closed(Entries, files) /\ \A r \in Submissions : Kept(r) => known[r] \subseteq Entries
    BY DEF WaitInv, FilesOK, SubmissionOK
  <2>4. Closed(seen'[j].stored, files')
    BY <1>2, <2>1, <2>3
  <2>5. ~TheWaitlist!HasExported(j)'
    BY <2>1 DEF TheWaitlist!HasExported
  <2>6. IsFiniteSet(job'[j].loaded)
    BY <1>1, <2>1 DEF SightOK
  <2>7. \A r \in Submissions : Kept(r)' =>
          known'[r] \subseteq seen'[j].stored \/ seen'[j].stored \subseteq known'[r]
    BY <1>2, <1>4, <2>1, <2>3
  <2>8. SightOK(j)'
    BY <1>4, <2>1, <2>2, <2>4, <2>5, <2>6, <2>7 DEF SightOK
  <2> QED BY <1>2, <1>3, <2>8, OneJobSteps
<1>6. ASSUME job[j].pc # "idle", seen'[j] = seen[j], IsFiniteSet(job'[j].loaded),
             TheWaitlist!HasExported(j)' =>
               \A e \in seen[j].stored : e \in job'[j].loaded \/ Unreadable(e)
      PROVE  WaitInv'
  <2>1. Closed(seen[j].stored, files) => Closed(seen'[j].stored, files')
    BY <1>2, <1>6
  <2>2. SightOK(j)'
    BY <1>1, <1>2, <1>4, <1>6, <2>1 DEF SightOK
  <2> QED BY <1>2, <1>3, <2>2, OneJobSteps
<1>7. CASE TheWaitlist!Lists(j) \/ TheWaitlist!WritesSnapshot(j)
  <2>1. /\ job[j].pc # "idle" /\ seen'[j] = seen[j] /\ job'[j].loaded = job[j].loaded
        /\ ~TheWaitlist!HasExported(j)'
    BY <1>1, <1>7 DEF TheWaitlist!Lists, TheWaitlist!WritesSnapshot, TheWaitlist!JobMoves,
                      TheWaitlist!HasExported, JobType
  <2> QED BY <1>1, <1>6, <2>1 DEF SightOK
<1>8. CASE TheWaitlist!Downloads(j)
  <2>1. PICK f \in job[j].listed :
          \/ job' = [job EXCEPT ![j].listed = @ \ {f}, ![j].fails = 0,
               ![j].loaded = IF f.path \in UnreadableFiles THEN @ ELSE @ \cup {f.entry}]
          \/ job' = [job EXCEPT ![j].fails = @ + 1,
               ![j].pc = IF job[j].fails + 1 = DOWNLOAD_ATTEMPTS THEN "failed" ELSE @]
    BY <1>8 DEF TheWaitlist!Downloads
  <2>2. /\ job[j].pc = "download" /\ seen'[j] = seen[j] /\ job'[j].pc # "done"
        /\ job'[j].loaded \in {job[j].loaded, job[j].loaded \cup {f.entry}}
    <3>1. job[j].pc = "download" /\ seen'[j] = seen[j]
      BY <1>8 DEF TheWaitlist!Downloads
    <3>2. CASE job' = [job EXCEPT ![j].listed = @ \ {f}, ![j].fails = 0,
                 ![j].loaded = IF f.path \in UnreadableFiles THEN @ ELSE @ \cup {f.entry}]
      BY <1>1, <3>1, <3>2 DEF JobType
    <3>3. CASE job' = [job EXCEPT ![j].fails = @ + 1,
                 ![j].pc = IF job[j].fails + 1 = DOWNLOAD_ATTEMPTS THEN "failed" ELSE @]
      BY <1>1, <3>1, <3>3 DEF JobType
    <3> QED BY <2>1, <3>1, <3>2, <3>3
  <2>3. IsFiniteSet(job[j].loaded \cup {f.entry})
    BY <1>1, FS_AddElement DEF SightOK
  <2>4. IsFiniteSet(job'[j].loaded) /\ ~TheWaitlist!HasExported(j)'
    BY <1>1, <2>2, <2>3 DEF SightOK, TheWaitlist!HasExported
  <2> QED BY <1>6, <2>2, <2>4
<1>9. CASE TheWaitlist!Exports(j)
  <2>1. /\ job[j].pc = "download" /\ job[j].listed = {} /\ seen'[j] = seen[j]
        /\ job'[j].loaded = job[j].loaded
    BY <1>1, <1>9 DEF TheWaitlist!Exports, TheWaitlist!JobMoves, JobType
  <2>2. \A e \in seen[j].stored : e \in job'[j].loaded \/ Unreadable(e)
    BY <1>1, <2>1 DEF LoadOK
  <2> QED BY <1>1, <1>6, <2>1, <2>2 DEF SightOK
<1> QED BY <1>5, <1>7, <1>8, <1>9

LEMMA WaitStep ==
  ASSUME WaitInv, LoadsInv, [SiteNext]_siteVars
  PROVE  WaitInv'
<1>1. CASE UNCHANGED waitlistVars
  <2>1. waitlistTime' \in Nat /\ waitlistTime <= waitlistTime'
    BY <1>1 DEF waitlistVars, WaitInv
  <2> QED BY <1>1, <2>1, QuietWait DEF waitlistVars
<1>2. CASE TheWaitlist!TimePasses
  <2>1. waitlistTime' \in Nat /\ waitlistTime <= waitlistTime'
    BY <1>2 DEF TheWaitlist!TimePasses, WaitInv
  <2> QED BY <1>2, <2>1, QuietWait DEF TheWaitlist!TimePasses
<1>3. ASSUME NEW r \in Submissions,
             TheWaitlist!Submits(r) \/ TheWaitlist!PutsFirst(r) \/ TheWaitlist!HeadsFirst(r)
               \/ TheWaitlist!PutsLater(r)
      PROVE  WaitInv'
  BY <1>3, SubmitStep, SubmissionSteps
<1>4. ASSUME NEW j \in Jobs,
             \/ TheWaitlist!Begins(j) \/ TheWaitlist!Lists(j) \/ TheWaitlist!Downloads(j)
             \/ TheWaitlist!WritesSnapshot(j) \/ TheWaitlist!Exports(j)
      PROVE  WaitInv'
  BY <1>4, JobWaits
<1> QED BY <1>1, <1>2, <1>3, <1>4 DEF SiteNext, TheWaitlist!WaitlistNext, siteVars

\* What was accepted before an export began is new, so it can be read, and was loaded: the
\* row of its email shows it.
LEMMA AcceptedIsShown ==
  ASSUME WaitInv, LoadsInv
  PROVE  TheWaitlist!ExportShowsAccepted
<1> SUFFICES ASSUME NEW j \in Jobs, TheWaitlist!HasExported(j), NEW email \in Emails
             PROVE  LET vs == TheWaitlist!Versions(TheWaitlist!Row(j, email))
                    IN  /\ \A e \in seen[j].accepted :
                             e.email = email => \E i \in 1..Len(vs) : vs[i].content = e.content
                        /\ \A i, k \in 1..Len(vs) : vs[i].content = vs[k].content => i = k
  BY DEF TheWaitlist!ExportShowsAccepted
<1> DEFINE S  == job[j].loaded
           vs == TheWaitlist!Versions(TheWaitlist!Row(j, email))
           mine == { e \in S : e.email = email }
<1>1. SightOK(j) /\ job[j].pc # "idle" /\ S \subseteq Entries
  BY DEF WaitInv, TheWaitlist!HasExported, LoadsInv, JobsOK, JobType, Entries
<1>2. vs = TheWaitlist!Versions(TheWaitlist!GroupByEmail(S, email))
  BY DEF TheWaitlist!Row
<1>3. IsFiniteSet(S)
  BY <1>1 DEF SightOK
<1> HIDE DEF S, vs
<1>4. /\ \A e \in mine : \E i \in 1..Len(vs) : vs[i].content = e.content
      /\ \A i, k \in 1..Len(vs) : vs[i].content = vs[k].content => i = k
  BY <1>1, <1>2, <1>3, RowsShowAll
<1>5. ASSUME NEW e \in seen[j].accepted, e.email = email PROVE e \in mine
  <2>1. e \in seen[j].stored /\ e.id \in Submissions /\ e \in Entries
    BY <1>1 DEF SightOK
  <2>2. ~Unreadable(e)
    BY <2>1, EntriesAre
  <2> QED BY <1>1, <1>5, <2>1, <2>2 DEF SightOK, S
<1> QED BY <1>4, <1>5, Zenon DEF vs

\* An email's first file is a submission's.
LEMMA FirstFilesAreNew ==
  ASSUME WaitInv, NEW d \in Entries, d.email \in Emails, FirstIn(d, files)
  PROVE  d.id \in Submissions
<1>1. PICK f \in files : f = [path |-> <<d.email>>, entry |-> d]
  BY DEF FirstIn
<1>2. f.entry = d /\ f.path = <<d.email>>
  BY <1>1
<1>3. f \notin OldFiles
  BY <1>2, OldFilesOK
<1> QED BY <1>2, <1>3 DEF WaitInv, FilesOK, FileOK

\* If the row's entry is a submission that knew a readable entry of the email, then the
\* smaller of what it knew and what the export saw had one, and with it an older one or the
\* first file of the email: that would stand before it in the row.
LEMMA FirstOfRow ==
  ASSUME WaitInv, LoadsInv
  PROVE  TheWaitlist!FirstSubmissionWins
<1> SUFFICES ASSUME NEW j \in Jobs, TheWaitlist!HasExported(j),
                    NEW e \in seen[j].stored \cap job[j].loaded,
                    ~TheWaitlist!IsOld(TheWaitlist!Row(j, e.email).entry),
                    NEW x \in known[TheWaitlist!Row(j, e.email).entry.id],
                    x.email = e.email, ~Unreadable(x)
             PROVE  FALSE
  BY Zenon DEF TheWaitlist!FirstSubmissionWins, Unreadable
<1> DEFINE S == job[j].loaded
           mine == { d \in S : d.email = e.email }
           first == TheWaitlist!Row(j, e.email).entry
           r == first.id
           stored == seen[j].stored
<1>1. SightOK(j) /\ job[j].pc # "idle" /\ S \subseteq Entries /\ e \in S /\ e \in stored
  BY DEF WaitInv, TheWaitlist!HasExported, LoadsInv, JobsOK, JobType, Entries
<1>2. IsFiniteSet(S) /\ stored \subseteq Entries /\ Closed(stored, files)
  BY <1>1 DEF SightOK
<1>3. \A d \in stored : d \in S \/ Unreadable(d)
  BY <1>1 DEF SightOK
<1>4. first = TheWaitlist!GroupByEmail(S, e.email).entry
  BY DEF TheWaitlist!Row
<1>5. ~TheWaitlist!IsOld(first) /\ x \in known[r]
  OBVIOUS
<1> HIDE DEF S, first, stored
<1>6. first \in mine /\ \A d \in mine : d = first \/ TheWaitlist!Before(first, d)
  <2>1. e \in mine
    BY <1>1
  <2> QED BY <1>1, <1>2, <1>4, <2>1, RowsShowAll
<1>7. first \in Entries /\ first.email = e.email /\ r \in Submissions
  BY <1>1, <1>5, <1>6, EntriesAre
<1>8. /\ Kept(r) /\ first = submission[r].entry /\ SubmissionOK(r)
      /\ first.email \in Emails /\ first.submittedAt \in Nat
  BY <1>7, EntriesAre
<1>9. /\ known[r] \subseteq Entries /\ Closed(known[r], files)
      /\ \A d \in known[r] : d.id # r /\ d.submittedAt <= first.submittedAt
  BY <1>8 DEF SubmissionOK
<1>10. known[r] \subseteq stored \/ stored \subseteq known[r]
  BY <1>1, <1>7, <1>8 DEF SightOK, stored
<1>11. ASSUME NEW K, K \subseteq known[r], K \subseteq stored, Closed(K, files),
              NEW y \in K, y \in mine
       PROVE  FALSE
  <2>1. ASSUME NEW d \in K, d \in mine
        PROVE  /\ d \in Entries /\ d # first /\ TheWaitlist!Before(first, d)
               /\ d.submittedAt <= first.submittedAt
               /\ d.submittedAt \in Int /\ first.submittedAt \in Int
    <3>1. d \in known[r] /\ d \in Entries
      BY <1>9, <1>11
    <3>2. d.id # first.id /\ d.submittedAt <= first.submittedAt
      BY <1>9, <3>1
    <3>3. d.submittedAt \in Int /\ first.submittedAt \in Int
      BY <1>7, <3>1, EntriesAre
    <3> HIDE DEF mine
    <3> QED BY <1>6, <2>1, <3>1, <3>2, <3>3
  <2>2. TheWaitlist!Place(first) = IF FirstIn(first, files) THEN 1 ELSE 2
    BY <1>5 DEF TheWaitlist!Place, TheWaitlist!IsFirstFile, FirstIn
  <2>3. ASSUME NEW d \in K, d \in mine, TheWaitlist!Place(d) \in {0, 1},
               TheWaitlist!Place(d) = 1 => ~FirstIn(first, files)
        PROVE  FALSE
    <3>1. /\ TheWaitlist!Before(first, d) /\ d.submittedAt <= first.submittedAt
          /\ d.submittedAt \in Int /\ first.submittedAt \in Int
      BY <2>1, <2>3
    <3>2. TheWaitlist!Place(first) \in {1, 2} /\ TheWaitlist!Place(d) < TheWaitlist!Place(first)
      BY <2>2, <2>3
    <3> QED BY <2>3, <3>1, <3>2 DEF TheWaitlist!Before
  <2>4. CASE TheWaitlist!IsOld(y)
    BY <1>11, <2>3, <2>4 DEF TheWaitlist!Place
  <2>5. CASE ~TheWaitlist!IsOld(y)
    <3>1. y \in Entries /\ y.id \in Submissions /\ y.email = e.email
      BY <1>11, <2>1, <2>5, EntriesAre
    <3>2. PICK d \in K : d.email = y.email /\ FirstIn(d, files)
      BY <1>11, <3>1 DEF Closed
    <3>3. d \in Entries /\ d.email \in Emails
      BY <1>2, <1>7, <1>8, <1>11, <3>1, <3>2
    <3>4. d.id \in Submissions
      BY <3>2, <3>3, FirstFilesAreNew
    <3>5. ~TheWaitlist!IsOld(d) /\ ~Unreadable(d)
      BY <3>3, <3>4, EntriesAre
    <3>6. d \in mine
      BY <1>3, <1>11, <3>1, <3>2, <3>5
    <3>7. TheWaitlist!Place(d) = 1
      BY <3>2, <3>5 DEF TheWaitlist!Place, TheWaitlist!IsFirstFile, FirstIn
    <3>8. ~FirstIn(first, files)
      <4>1. d # first /\ d.email = first.email
        BY <1>7, <2>1, <3>1, <3>2, <3>6
      <4> QED BY <1>7, <3>2, <3>3, <4>1 DEF WaitInv, FilesOK
    <3> HIDE DEF mine
    <3> QED BY <2>3, <3>6, <3>7, <3>8
  <2> QED BY <2>4, <2>5
<1>12. CASE known[r] \subseteq stored
  <2>1. x \in stored /\ x \in mine
    BY <1>3, <1>5, <1>12
  <2> QED BY <1>5, <1>9, <1>11, <1>12, <2>1
<1>13. CASE stored \subseteq known[r]
  <2>1. e \in mine
    BY <1>1
  <2> QED BY <1>1, <1>2, <1>11, <1>13, <2>1
<1> QED BY <1>10, <1>12, <1>13

\* An export shows every version of what was accepted before it began, once, and the first
\* submission of each email as its row, whatever was submitted twice, at the same time or
\* beside it, and whatever failed on the way (waitlistExport.ts:19-22, waitlist/route.ts:8-9).
THEOREM ExportsAreFaithful == SiteSpec => []ExportIsFaithful
<1>1. WaitInv /\ LoadsInv => ExportIsFaithful
  BY AcceptedIsShown, FirstOfRow DEF ExportIsFaithful, TheWaitlist!ExportIsFaithful
<1> QED BY LoadsInit, LoadsStep, WaitInit, WaitStep, <1>1, PTL DEF SiteSpec
=============================================================================
