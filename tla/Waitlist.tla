------------------------------ MODULE Waitlist -------------------------------
(***************************************************************************)
(* The waitlist: submissions stored as blobs of their own                  *)
(* (app/api/waitlist/route.ts, lib/waitlistStore.ts), the export that      *)
(* groups them by email (lib/waitlistExport.ts), and the daily snapshot    *)
(* and its recovery (app/api/waitlist/backup/route.ts).                    *)
(*                                                                         *)
(* A file holds one entry: its email, what the other fields say, its id    *)
(* (the request) and the time it was submitted.  Encryption matters only   *)
(* where it fails: files that do not decrypt are skipped.                  *)
(***************************************************************************)
EXTENDS Integers, FiniteSets, Sequences

CONSTANTS
  Requests,             \* submissions, ordered by the instant of their id
  Emails, Contents,     \* lower-case emails; the other fields, as one value
  Jobs,                 \* exports and snapshots
  OldFiles,             \* files that were there before, with paths of another shape
  UnreadableFiles,      \* paths of those that do not decrypt
  DOWNLOAD_ATTEMPTS,
  MAX_TIME              \* bound

VARIABLES
  submission,  \* of each request: where it is, its entry, its answer
  files,       \* entries by path: <<email>> for the first, <<email, id>> for later ones
  job,         \* of each job: where it is, the files it listed, what it loaded
  snapshots,   \* snapshot files: what each holds and its stamp
  time,
  seen,        \* of each job: what was stored, and accepted, when it began (history)
  known        \* of each request: what was stored when it was submitted (history)

waitlistVars == <<submission, files, job, snapshots, time, seen, known>>

NoEntry == [email |-> "", content |-> "", id |-> 0, submittedAt |-> 0]
NoRow   == [entry |-> NoEntry, updates |-> <<>>]

WaitlistInit ==
  /\ submission = [r \in Requests |-> [pc |-> "idle", entry |-> NoEntry, answer |-> 0]]
  /\ files = OldFiles /\ snapshots = {}
  /\ job = [j \in Jobs |-> [pc |-> "idle", kind |-> "none", listed |-> {}, loaded |-> {}, fails |-> 0]]
  /\ seen = [j \in Jobs |-> [stored |-> {}, accepted |-> {}]]
  /\ known = [r \in Requests |-> {}]
  /\ time = 0

Paths          == { f.path : f \in files }
Entries        == { f.entry : f \in files }
Stores(p, e)   == files' = files \cup {[path |-> p, entry |-> e]}
-----------------------------------------------------------------------------
(* Submitting *)

\* Refused by configuration, the rate limit, its size or its fields; answered "ok" and not
\* kept (the honeypot); or valid, and then it has an id and a time.
Submits(r) ==
  /\ submission[r].pc = "idle"
  /\ \/ \E code \in {503, 429, 413, 400} :
          submission' = [submission EXCEPT ![r].pc = "done", ![r].answer = code]
     \/ \E email \in Emails, content \in Contents :
          submission' = [submission EXCEPT ![r].pc = "first", ![r].entry =
            [email |-> email, content |-> content, id |-> r, submittedAt |-> time]]
  /\ known' = [known EXCEPT ![r] = Entries]
  /\ UNCHANGED <<files, job, snapshots, time, seen>>

SaveMoves(r, pc)     == submission' = [submission EXCEPT ![r].pc = pc]
SaveEnds(r, code)    == submission' = [submission EXCEPT ![r].pc = "done", ![r].answer = code]

\* The put that must not overwrite; it may also fail, with or without having stored.
PutsFirst(r) ==
  LET e == submission[r].entry
  IN  /\ submission[r].pc = "first"
      /\ \/ <<e.email>> \notin Paths /\ Stores(<<e.email>>, e)
            /\ (SaveEnds(r, 200) \/ SaveMoves(r, "head"))
         \/ SaveMoves(r, "head") /\ UNCHANGED files
      /\ UNCHANGED <<job, snapshots, time, seen, known>>

\* Is there an entry already?  If head does not say so, the put's failure is rethrown.
HeadsFirst(r) ==
  /\ submission[r].pc = "head"
  /\ \/ <<submission[r].entry.email>> \in Paths /\ SaveMoves(r, "later")
     \/ SaveEnds(r, 500)
  /\ UNCHANGED <<files, job, snapshots, time, seen, known>>

\* (faulty: an existing entry for the email is as good as this one)
KeepsFirstOnly(r) ==
  /\ submission[r].pc = "later" /\ SaveEnds(r, 200)
  /\ UNCHANGED <<files, job, snapshots, time, seen, known>>

PutsLater(r) ==
  LET e == submission[r].entry
  IN  /\ submission[r].pc = "later"
      /\ \/ Stores(<<e.email, e.id>>, e) /\ (SaveEnds(r, 200) \/ SaveEnds(r, 500))
         \/ SaveEnds(r, 500) /\ UNCHANGED files
      /\ UNCHANGED <<job, snapshots, time, seen, known>>
-----------------------------------------------------------------------------
(* Exports and snapshots *)

JobMoves(j, pc) == job' = [job EXCEPT ![j].pc = pc]

Begins(j) ==
  /\ job[j].pc = "idle"
  /\ \E kind \in {"export", "snapshot"} :
       job' = [job EXCEPT ![j].pc = "list", ![j].kind = kind]
  /\ seen' = [seen EXCEPT ![j] =
       [stored   |-> Entries,
        accepted |-> { submission[r].entry : r \in { s \in Requests : submission[s].answer = 200 } }]]
  /\ UNCHANGED <<submission, files, snapshots, time, known>>

\* Pages are listed one by one: a file stored meanwhile is in the list or not.
Lists(j) ==
  /\ job[j].pc = "list"
  /\ \/ \E new \in SUBSET { f \in files : f.entry \notin seen[j].stored } :
          job' = [job EXCEPT ![j].pc = "download",
                             ![j].listed = { f \in files : f.entry \in seen[j].stored } \cup new]
     \/ JobMoves(j, "failed")
  /\ UNCHANGED <<submission, files, snapshots, time, seen, known>>

\* One file at a time, in any order; a failure is tried again, and one failure too many
\* fails the whole load.  Unreadable files are left out.
Downloads(j) ==
  /\ job[j].pc = "download" /\ job[j].listed # {}
  /\ \E f \in job[j].listed :
       \/ job' = [job EXCEPT ![j].listed = @ \ {f}, ![j].fails = 0,
                             ![j].loaded = IF f.path \in UnreadableFiles THEN @ ELSE @ \cup {f.entry}]
       \/ job' = [job EXCEPT ![j].fails = @ + 1,
                             ![j].pc = IF job[j].fails + 1 = DOWNLOAD_ATTEMPTS THEN "failed" ELSE @]
  /\ UNCHANGED <<submission, files, snapshots, time, seen, known>>

\* (faulty: the downloads are not awaited)
WritesEarly(j) ==
  /\ job[j].pc = "download" /\ job[j].kind = "snapshot"
  /\ snapshots' = snapshots \cup {[stamp |-> time, by |-> j, entries |-> job[j].loaded]}
  /\ JobMoves(j, "done")
  /\ UNCHANGED <<submission, files, time, seen, known>>

\* Everything is there: an export is answered, a snapshot is written under the time of now.
WritesSnapshot(j) ==
  /\ job[j].pc = "download" /\ job[j].listed = {} /\ job[j].kind = "snapshot"
  /\ \/ /\ snapshots' = snapshots \cup {[stamp |-> time, by |-> j, entries |-> job[j].loaded]}
        /\ (JobMoves(j, "done") \/ JobMoves(j, "failed"))
     \/ JobMoves(j, "failed") /\ UNCHANGED snapshots
  /\ UNCHANGED <<submission, files, time, seen, known>>

Exports(j) ==
  /\ job[j].pc = "download" /\ job[j].listed = {} /\ job[j].kind = "export"
  /\ JobMoves(j, "done")
  /\ UNCHANGED <<submission, files, snapshots, time, seen, known>>

TimePasses ==
  /\ time < MAX_TIME /\ time' = time + 1
  /\ UNCHANGED <<submission, files, job, snapshots, seen, known>>

WaitlistNext ==
  \/ TimePasses
  \/ \E r \in Requests : Submits(r) \/ PutsFirst(r) \/ HeadsFirst(r) \/ PutsLater(r)
  \/ \E j \in Jobs : Begins(j) \/ Lists(j) \/ Downloads(j) \/ WritesSnapshot(j) \/ Exports(j)

WaitlistSpec == WaitlistInit /\ [][WaitlistNext]_waitlistVars
-----------------------------------------------------------------------------
(* The export's rows *)

\* Entries come back oldest first.  The sort is stable, so those of one instant stay as they
\* are listed, by path: old files, then an email's first file, then its later ones
\* ("2" is less than "b", and "." less than "/").
IsOld(e)       == \E f \in OldFiles : f.entry = e
IsFirstFile(e) == [path |-> <<e.email>>, entry |-> e] \in files
Place(e)       == IF IsOld(e) THEN 0 ELSE IF IsFirstFile(e) THEN 1 ELSE 2

Before(a, b) ==
  \/ a.submittedAt < b.submittedAt
  \/ a.submittedAt = b.submittedAt /\ Place(a) < Place(b)
  \/ a.submittedAt = b.submittedAt /\ Place(a) = Place(b) /\ a.id < b.id

Sorted(entries) ==
  [n \in 1..Cardinality(entries) |->
     CHOOSE e \in entries : Cardinality({ d \in entries : d = e \/ Before(d, e) }) = n]

Versions(row) == <<row.entry>> \o row.updates

\* A later entry is an update if it differs from the row's entry and every update before it.
AddUpdate(row, e) ==
  IF \E i \in 1..Len(Versions(row)) : Versions(row)[i].content = e.content
  THEN row ELSE [row EXCEPT !.updates = Append(@, e)]

\* The earliest is canonical.
GroupByEmail(entries, email) ==
  LET s == Sorted({ e \in entries : e.email = email })
      row[n \in 1..Len(s)] ==
        IF n = 1 THEN [entry |-> s[1], updates |-> <<>>] ELSE AddUpdate(row[n - 1], s[n])
  IN  IF s = <<>> THEN NoRow ELSE row[Len(s)]
-----------------------------------------------------------------------------
(* Properties *)

Row(j, email) == GroupByEmail(job[j].loaded, email)
HasExported(j) == job[j].pc = "done" /\ job[j].kind = "export"
Unreadable(e) == \E f \in files : f.entry = e /\ f.path \in UnreadableFiles

\* What was accepted before an export began is in it: every version of the answers once,
\* as the email's row or as an update of it (waitlistExport.ts:19-22), whatever was
\* submitted at the same time, and twice, and whatever failed on the way.
ExportShowsAccepted ==
  \A j \in Jobs : HasExported(j) =>
    \A email \in Emails :
      LET vs == Versions(Row(j, email))
      IN  /\ \A e \in seen[j].accepted :
               e.email = email => \E i \in 1..Len(vs) : vs[i].content = e.content
          /\ \A i, k \in 1..Len(vs) : vs[i].content = vs[k].content => i = k

\* A resubmission never replaces the first entry for its email (waitlist/route.ts:8-9):
\* once an email has an entry, an export's row for it is an old one, or one that was
\* submitted when nothing that can be read was stored for the email.
FirstSubmissionWins ==
  \A j \in Jobs : HasExported(j) =>
    \A e \in seen[j].stored \cap job[j].loaded :
      LET row == Row(j, e.email)
      IN  IsOld(row.entry) \/ \A first \in known[row.entry.id] :
            first.email # e.email \/ Unreadable(first)

\* An export loses, repeats and reorders nothing that was accepted.
ExportIsFaithful == ExportShowsAccepted /\ FirstSubmissionWins

\* A snapshot holds every readable entry that was stored when its job began: it is never
\* silently partial (waitlistStore.ts:120-121), so the newest one loses nothing older.
SnapshotsAreComplete ==
  \A s \in snapshots :
    \A e \in seen[s.by].stored : e \in s.entries \/ Unreadable(e)
=============================================================================
