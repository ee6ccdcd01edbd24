-------------------------- MODULE ReleaseScanner --------------------------
(***************************************************************************)
(* The scanner process: Scanner.RunOnce over a snapshot of the confirmed   *)
(* subscriptions, and ReleaseSagaOrchestrator.ProcessRelease for each one  *)
(* that has a new release: record the tag through the API's gRPC service,  *)
(* publish the event to NATS, record the old tag again if that fails.      *)
(*                                                                         *)
(* The API process works on the same table and on the same Redis cache in  *)
(* the meantime: rows come, are confirmed and go, tags are looked up.  An  *)
(* event counts as published when Publish has returned nil; what becomes   *)
(* of it afterwards is not this module's concern.                          *)
(*                                                                         *)
(* A failed ListConfirmedForScan ends the run where it began, in "idle",   *)
(* and is no step here.                                                    *)
(***************************************************************************)
EXTENDS SubscriptionTable, Sequences

CONSTANTS
    MaxId,      \* bound: rows ever inserted
    MaxEvents,  \* bound: events published for one row
    Faults      \* which of FaultKinds the environment may produce

FaultKinds == {
    "commitLost",       \* the update commits but its gRPC reply is lost
    "compensateFails",  \* the update of the compensation fails
    "stop",             \* SIGTERM: the ctx of the run is cancelled
    "crash",            \* the scanner dies and is started again
    "staleTag" }        \* a lookup answers with an earlier release

ASSUME ScannerAssumption ==
    /\ MaxId \in Nat
    /\ MaxEvents \in Nat
    /\ Faults \subseteq FaultKinds

VARIABLES
    rows,       \* the subscriptions table
    nextId,     \* its serial
    latest,     \* each repository's latest release on GitHub
    cached,     \* the tag in Redis, shared by the API and the scanner
    pc,         \* where the scanner is
    stopping,   \* whether the ctx of the run is cancelled
    todo,       \* rows of the snapshot whose group has not been looked up
    batch,      \* rows of the group in hand that have yet to be notified
    tag,        \* the latest release of the group in hand
    saga,       \* the snapshot row ProcessRelease is working on
    told,       \* history: a row's baseline, then every tag published for it
    strays      \* history: events published for a row that was gone

table == <<rows, nextId>>
run == <<pc, todo, batch, tag, saga>>
history == <<told, strays>>
vars == <<table, latest, cached, stopping, run, history>>

Ids == 1 .. MaxId
NoEntry == -1
NoRow == [id |-> 0]
Steps == {"idle", "groups", "batch", "publish", "compensate"}

TypeOK ==
    /\ rows \subseteq Row
    /\ nextId \in 1 .. MaxId + 1
    /\ latest \in [Repos -> Tags]
    /\ cached \in [Repos -> Tags \cup {NoEntry}]
    /\ pc \in Steps
    /\ stopping \in BOOLEAN
    /\ todo \subseteq Row
    /\ batch \subseteq Row
    /\ tag \in Tags
    /\ saga \in Row \cup {NoRow}
    /\ pc \in {"publish", "compensate"} <=> saga \in Row
    /\ told \in [Ids -> Seq(Tags)]
    /\ strays \in [Ids -> Nat]

Init ==
    /\ rows = {}
    /\ nextId = 1
    /\ latest \in [Repos -> Tags]
    /\ cached = [r \in Repos |-> NoEntry]
    /\ pc = "idle"
    /\ stopping = FALSE
    /\ todo = {}
    /\ batch = {}
    /\ tag = NoTag
    /\ saga = NoRow
    /\ told = [i \in Ids |-> <<>>]
    /\ strays = [i \in Ids |-> 0]

-----------------------------------------------------------------------------
(* GitHub, the cache and the API.                                          *)

Release(repo) ==
    /\ latest[repo] < MaxTag
    /\ latest' = [latest EXCEPT ![repo] = @ + 1]
    /\ UNCHANGED <<table, cached, stopping, run, history>>

(* The tag a lookup may return: the cache's, and on a miss GitHub's.  When *)
(* lookups of the API and the scanner overlap, or a release is withdrawn,  *)
(* it may be an earlier one.                                               *)
Served(repo) ==
    IF cached[repo] # NoEntry THEN {cached[repo]}
    ELSE IF "staleTag" \in Faults THEN 0 .. latest[repo]
    ELSE {latest[repo]}

(* The API looks the repository up for a Subscribe and fills the cache; a  *)
(* slow lookup overwrites what the scanner wrote since it missed.          *)
ApiLookup(repo, t) ==
    /\ \/ t \in Served(repo)
       \/ "staleTag" \in Faults /\ t \in 0 .. latest[repo]
    /\ cached' = [cached EXCEPT ![repo] = t]
    /\ UNCHANGED <<table, latest, stopping, run, history>>

Expire(repo) ==
    /\ cached[repo] # NoEntry
    /\ cached' = [cached EXCEPT ![repo] = NoEntry]
    /\ UNCHANGED <<table, latest, stopping, run, history>>

(* CreateSubscription, with the tag an earlier or the current lookup gave. *)
Subscribe(email, repo, baseline) ==
    /\ nextId <= MaxId
    /\ \E t \in Served(repo) : baseline \in 0 .. t
    /\ ~ Conflicts(rows, email, repo)
    /\ rows' = InsertRow(rows, nextId, email, repo, baseline)
    /\ nextId' = nextId + 1
    /\ told' = [told EXCEPT ![nextId] = <<baseline>>]
    /\ UNCHANGED <<latest, cached, stopping, run, strays>>

Confirm(id) ==
    /\ HasRow(rows, id)
    /\ rows' = ConfirmRow(rows, id)
    /\ UNCHANGED <<nextId, latest, cached, stopping, run, history>>

(* Unsubscribe, or the rollback of a Subscribe.                            *)
Remove(id) ==
    /\ HasRow(rows, id)
    /\ rows' = DeleteRow(rows, id)
    /\ UNCHANGED <<nextId, latest, cached, stopping, run, history>>

-----------------------------------------------------------------------------
(* The scanner.                                                            *)

ListConfirmedForScan ==
    /\ pc = "idle"
    /\ ~ stopping
    /\ todo' = ConfirmedRows(rows)
    /\ pc' = "groups"
    /\ UNCHANGED <<table, latest, cached, stopping, batch, tag, saga, history>>

Group(repo) == {r \in todo : r.repo = repo}

(* Mutant of LookupOk: rows that have seen the tag are not passed over.    *)
LookupOkTakesAll(repo, t) ==
    /\ pc = "groups"
    /\ ~ stopping
    /\ Group(repo) # {}
    /\ t \in Served(repo) \ {NoTag}
    /\ cached' = [cached EXCEPT ![repo] = t]
    /\ tag' = t
    /\ batch' = Group(repo)
    /\ todo' = todo \ Group(repo)
    /\ pc' = "batch"
    /\ UNCHANGED <<table, latest, stopping, saga, history>>

(* The groups come in the order of a Go map, that is in any order.  Rows   *)
(* that have seen the tag already are passed over.                         *)
LookupOk(repo, t) ==
    /\ pc = "groups"
    /\ ~ stopping
    /\ Group(repo) # {}
    /\ t \in Served(repo) \ {NoTag}
    /\ cached' = [cached EXCEPT ![repo] = t]
    /\ tag' = t
    /\ batch' = {r \in Group(repo) : r.lastSeenTag # t}
    /\ todo' = todo \ Group(repo)
    /\ pc' = "batch"
    /\ UNCHANGED <<table, latest, stopping, saga, history>>

(* The repository has no release, or the lookup fails.                     *)
LookupSkips(repo) ==
    /\ pc = "groups"
    /\ Group(repo) # {}
    /\ todo' = todo \ Group(repo)
    /\ UNCHANGED <<table, latest, cached, stopping, pc, batch, tag, saga, history>>

(* Mutant of UpdateOk: the loop does not advance past the row.             *)
UpdateOkKeepsRow(r) ==
    /\ pc = "batch"
    /\ ~ stopping
    /\ r \in batch
    /\ rows' = SetTag(rows, r.id, tag)
    /\ saga' = r
    /\ pc' = "publish"
    /\ UNCHANGED <<nextId, latest, cached, stopping, todo, batch, tag, history>>

(* Mutant of UpdateOk: the event goes first, the tag is to follow it.       *)
UpdateOkLater(r) ==
    /\ pc = "batch"
    /\ ~ stopping
    /\ r \in batch
    /\ saga' = r
    /\ batch' = batch \ {r}
    /\ pc' = "publish"
    /\ UNCHANGED <<table, latest, cached, stopping, todo, tag, history>>

UpdateOk(r) ==
    /\ pc = "batch"
    /\ ~ stopping
    /\ r \in batch
    /\ rows' = SetTag(rows, r.id, tag)
    /\ saga' = r
    /\ batch' = batch \ {r}
    /\ pc' = "publish"
    /\ UNCHANGED <<nextId, latest, cached, stopping, todo, tag, history>>

(* ProcessRelease returns the error: nothing is published or compensated.  *)
UpdateFails(r) ==
    /\ pc = "batch"
    /\ r \in batch
    /\ batch' = batch \ {r}
    /\ UNCHANGED <<table, latest, cached, stopping, pc, todo, tag, saga, history>>

(* The same error when the API did commit the update.                      *)
UpdateReplyLost(r) ==
    /\ pc = "batch"
    /\ "commitLost" \in Faults
    /\ r \in batch
    /\ rows' = SetTag(rows, r.id, tag)
    /\ batch' = batch \ {r}
    /\ UNCHANGED <<nextId, latest, cached, stopping, pc, todo, tag, saga, history>>

PublishOk ==
    /\ pc = "publish"
    /\ Len(told[saga.id]) <= MaxEvents
    /\ told' = [told EXCEPT ![saga.id] = Append(@, tag)]
    /\ strays' = IF HasRow(rows, saga.id) THEN strays
                 ELSE [strays EXCEPT ![saga.id] = @ + 1]
    /\ saga' = NoRow
    /\ pc' = "batch"
    /\ UNCHANGED <<table, latest, cached, stopping, todo, batch, tag>>

(* Mutant of PublishFails: ProcessRelease returns without compensating.    *)
PublishFailsReturns ==
    /\ pc = "publish"
    /\ saga' = NoRow
    /\ pc' = "batch"
    /\ UNCHANGED <<table, latest, cached, stopping, todo, batch, tag, history>>

PublishFails ==
    /\ pc = "publish"
    /\ pc' = "compensate"
    /\ UNCHANGED <<table, latest, cached, stopping, todo, batch, tag, saga, history>>

(* Mutants of CompensateOk: the new tag or none is recorded, or the saga   *)
(* is not over.                                                            *)
CompensateWithNewTag ==
    /\ pc = "compensate"
    /\ ~ stopping
    /\ rows' = SetTag(rows, saga.id, tag)
    /\ saga' = NoRow
    /\ pc' = "batch"
    /\ UNCHANGED <<nextId, latest, cached, stopping, todo, batch, tag, history>>

CompensateWithNoTag ==
    /\ pc = "compensate"
    /\ ~ stopping
    /\ rows' = SetTag(rows, saga.id, NoTag)
    /\ saga' = NoRow
    /\ pc' = "batch"
    /\ UNCHANGED <<nextId, latest, cached, stopping, todo, batch, tag, history>>

CompensateKeepsSaga ==
    /\ pc = "compensate"
    /\ ~ stopping
    /\ rows' = SetTag(rows, saga.id, saga.lastSeenTag)
    /\ pc' = "batch"
    /\ UNCHANGED <<nextId, latest, cached, stopping, todo, batch, tag, saga, history>>

(* The compensation records the tag of the snapshot again ...              *)
CompensateOk ==
    /\ pc = "compensate"
    /\ ~ stopping
    /\ rows' = SetTag(rows, saga.id, saga.lastSeenTag)
    /\ saga' = NoRow
    /\ pc' = "batch"
    /\ UNCHANGED <<nextId, latest, cached, stopping, todo, batch, tag, history>>

(* ... and when it fails this is only logged.                              *)
CompensateFails ==
    /\ pc = "compensate"
    /\ "compensateFails" \in Faults \/ stopping
    /\ saga' = NoRow
    /\ pc' = "batch"
    /\ UNCHANGED <<table, latest, cached, stopping, todo, batch, tag, history>>

GroupDone ==
    /\ pc = "batch"
    /\ batch = {}
    /\ tag' = NoTag
    /\ pc' = "groups"
    /\ UNCHANGED <<table, latest, cached, stopping, todo, batch, saga, history>>

RunDone ==
    /\ pc = "groups"
    /\ todo = {}
    /\ pc' = "idle"
    /\ UNCHANGED <<table, latest, cached, stopping, todo, batch, tag, saga, history>>

-----------------------------------------------------------------------------
(* The process.                                                            *)

(* Every call that takes the ctx fails from now on; Publish takes none.    *)
Stop ==
    /\ "stop" \in Faults
    /\ stopping' = TRUE
    /\ UNCHANGED <<table, latest, cached, run, history>>

(* Run returns once the run in hand is over; the process is started again. *)
Restart ==
    /\ pc = "idle"
    /\ stopping
    /\ stopping' = FALSE
    /\ UNCHANGED <<table, latest, cached, run, history>>

Crash ==
    /\ "crash" \in Faults
    /\ pc' = "idle"
    /\ stopping' = FALSE
    /\ todo' = {}
    /\ batch' = {}
    /\ tag' = NoTag
    /\ saga' = NoRow
    /\ UNCHANGED <<table, latest, cached, history>>

Environment ==
    \/ \E repo \in Repos :
        \/ Release(repo)
        \/ Expire(repo)
        \/ \E t \in Tags : ApiLookup(repo, t)
        \/ \E email \in Emails, t \in Tags : Subscribe(email, repo, t)
    \/ \E id \in Ids : Confirm(id) \/ Remove(id)

Scan ==
    \/ ListConfirmedForScan
    \/ \E repo \in Repos :
        (\E t \in Tags : LookupOk(repo, t)) \/ LookupSkips(repo)
    \/ \E r \in batch : UpdateOk(r) \/ UpdateFails(r) \/ UpdateReplyLost(r)
    \/ PublishOk \/ PublishFails
    \/ CompensateOk \/ CompensateFails
    \/ GroupDone \/ RunDone

Next == Environment \/ Scan \/ Stop \/ Restart \/ Crash

Spec == Init /\ [][Next]_vars

(* The ticker keeps starting runs, a cache entry expires after its TTL,    *)
(* and a call that is made again and again succeeds in the end: GitHub,    *)
(* the API and NATS come back.  Nothing is asked of users or of releases.  *)
FairSpec ==
    /\ Spec
    /\ WF_vars(Scan)
    /\ \A repo \in Repos : WF_vars(Expire(repo))
    /\ \A repo \in Repos : SF_vars(\E t \in Tags : LookupOk(repo, t))
    /\ \A id \in Ids : SF_vars(\E r \in batch : r.id = id /\ UpdateOk(r))
    /\ \A id \in Ids : SF_vars(saga.id = id /\ PublishOk)

-----------------------------------------------------------------------------
LastTold(id) == told[id][Len(told[id])]

(* ProcessRelease is between its two steps for this row.                   *)
InSaga(id) == saga.id = id

(* The saga is atomic: outside of it the tag recorded for a subscription   *)
(* is the last one an event was published for, or its baseline.  A tag     *)
(* recorded without its event is a notification that will never be sent;   *)
(* an event without its tag is one that will be sent again.                *)
LastSeenIsLastTold ==
    \A r \in rows : InSaga(r.id) \/ r.lastSeenTag = LastTold(r.id)

(* A subscriber is told of releases in the order they were made, never     *)
(* twice of one, and never of one not newer than the baseline.             *)
NotifiedInReleaseOrder ==
    \A id \in Ids : \A m, n \in 1 .. Len(told[id]) :
        m < n => told[id][m] < told[id][n]

(* A release that was told is not due again, whatever fails afterwards:    *)
(* the recorded tag is never behind the last one told, nor ahead of        *)
(* GitHub, so failures cost events but leave nothing that repeats one.     *)
RecordKeepsUp ==
    \A r \in rows : LastTold(r.id) <= r.lastSeenTag /\ r.lastSeenTag <= latest[r.repo]

(* The tag goes on record first: when an event is published its row, if it *)
(* is still there, has the tag already, so the process may die right after *)
(* the event without ever sending it again.                                *)
RecordedFirst ==
    [][\A id \in Ids : told[id] # <<>> /\ told'[id] # told[id] =>
          \A r \in rows : r.id = id => r.lastSeenTag = LastTold(id)']_vars

(* No event is ever published for an address that has not confirmed.       *)
PendingNeverNotified ==
    \A r \in rows : r.confirmed \/ Len(told[r.id]) = 1

(* A run works on the snapshot it took, so a subscriber who leaves during  *)
(* it may still be told of a release, but of one at most.                  *)
QuietAfterUnsubscribe == \A id \in Ids : strays[id] <= 1

(* From outside the tag and the event change in one step: while the saga   *)
(* runs, the ledger still shows the tag it started from.                   *)
SeenOutside(id) ==
    IF ~ HasRow(rows, id) THEN NoEntry
    ELSE IF InSaga(id) THEN saga.lastSeenTag
    ELSE (CHOOSE r \in rows : r.id = id).lastSeenTag

Ledger == INSTANCE ReleaseLedger WITH seen <- [i \in Ids |-> SeenOutside(i)]

RefinesLedger == Ledger!Spec

(* Whoever stays subscribed to a repository is told of its last release.   *)
LastReleaseIsTold ==
    \A email \in Emails, repo \in Repos, id \in Ids :
        (\E r \in rows : r.id = id /\ r.repo = repo /\ r.confirmed
                         /\ latest[repo] = MaxTag /\ MaxTag # NoTag)
        ~> (~ HasRow(rows, id) \/ LastTold(id) = MaxTag)

=============================================================================
