# Verification of the GitHub release notifier

TLA+ models, TLC instances and TLAPS proofs for the services of this
repository: people subscribe an e-mail address to the releases of a GitHub
repository, confirm by mail (double opt-in), and get a mail for each new
release.

## 1. The system

Three processes share a Postgres table, a Redis cache, GitHub, an SMTP server
and a NATS broker.

| component | code | state it keeps | operations that change it |
|---|---|---|---|
| subscription store | `subscription/infrastructure/postgres.go`, `0001_init.sql` | the `subscriptions` table | insert, delete by id or token, confirm, update of `last_seen_tag`; each one autocommitted statement |
| subscription service (API) | `subscription/application/service.go` | none of its own; a goroutine per request | Subscribe (look up, insert, mail, roll back), Confirm, Unsubscribe |
| HTTP and public gRPC | `transport/http`, `transport/grpc/public`, `apperr`, generated handlers | the request's ctx | check the key, decode, call the service, turn its error into a status; the ctx dies with the client |
| internal gRPC | `transport/grpc/internalapi`, `scanner/infrastructure/grpc_store.go` | none | snapshot of confirmed rows, update of a tag, for the scanner |
| scanner and saga | `scanner/application` | the run in progress, in memory only | one run per interval: snapshot, look up per repository, per subscription record the tag, publish, compensate |
| GitHub client | `github/client.go`, `cache.go` | two Redis entries per repository, TTL 10 min, shared by API and scanner | fill on a miss |
| event bus | `platform/nats/publisher.go` + NATS | messages in client buffers | Publish |
| notification service | `notification/consumer.go`, `cmd/notification` | none | mail each event that is delivered |
| start, stop | `cmd/*`, `migrations.go` | `schema_migrations`, the connection pool | apply migrations, listen, shut down, close the pool |
| configuration | `config/config.go` | none | read by each of the three processes when it starts; modelled as far as it can fail |
| web page, metrics, generated messages | `web`, `metrics.go`, `gen/**.pb.go` | counters | not modelled (section 5) |

Interactions that make it hard:

- Subscribe is a sequence of external calls without a transaction. Other
  requests, the holder of the mailed links, the scanner's updates of the same rows,
  the client's connection and the death of the process come between any two of
  them. The rollback is a call
  that can fail, too, and it runs on the request's ctx.
- The saga changes two services that share no transaction: the table (through
  the API) and NATS. Every call can fail without effect, or take effect and
  report failure.
- The scanner works on a snapshot while rows come and go, and on tags from a
  cache which the other process writes too.
- One service is offered over two transports, each with its own code for keys,
  decoding and errors; a client that gets no answer asks again.
- Several API instances may start at once. Whether a migration is due is looked up
  outside the transaction that applies it.
- Shutdown stops three servers one after the other under one deadline, while HTTP
  goes on taking requests. Afterwards the deferred `db.Close` waits, under no deadline,
  for the connections that HTTP requests still hold.
- `nats.Conn.Publish` returns before anything has been sent, and NATS core
  keeps nothing for anybody.

What is correct for each component:

- store: one row per (email, repository) pair; ids, and so tokens, are unique;
- service: a pair goes through reserved, invited, active and never skips a
  phase; a failed attempt leaves nothing behind; a mailed row belongs to its
  owner;
- transports: what a client was told stays true; both mean the same; nothing happens
  to the table that the service does not promise;
- scanner: tag and event change together; events of a subscription come in
  release order and never twice; nobody is notified unconfirmed; the last
  release is told in the end;
- GitHub client: no answer older than the cache allows, whoever writes the
  entries and whatever fails; what GitHub settles on is seen in the end;
- delivery: order and at-most-once through every failure; what is lost, when;
- from the table to the mailbox: a subscriber hears of releases in their order, only
  after confirming, and of each if nothing breaks on the way;
- start and stop: the tables and the recorded version come together; who loses a
  race can start again; every start settles; requests are cut off only by the deadline
  or a failed server, and a process that exits with status 0 has answered all of HTTP's;
  nothing but a statement without a reply can keep a process that is to stop.

## 2. Modules

| module | what it is | reads on |
|---|---|---|
| `SubscriptionTable` | the table as a set of rows; the statements as operators | extended by the next two |
| `SubscriptionService` | the API's handlers over the table, SMTP and the mail links | implements `SubscriptionLifecycle` |
| `SubscriptionLifecycle` | abstract: double opt-in per pair | |
| `PublicTransport` | keys, decoding, validation, errors and lists of HTTP and gRPC, as operators | used by `PublicApi` |
| `PublicApi` | requests and answers over both transports: composes `SubscriptionService` and `PublicTransport` | implements `SubscriptionService` |
| `ReleaseScanner` | the scanner's run and saga, beside the API's changes of table and cache | implements `ReleaseLedger` |
| `ReleaseLedger` | abstract: recorded tag and published event in one step | |
| `NotificationDelivery` | Publish, NATS, the notification services | |
| `GitHubCache` | the GitHub client's two lookups over GitHub and Redis, by both processes, with time | what `ReleaseScanner` does in one step |
| `Deployment` | start, migrations, shutdown of API instances and the end of their processes | |
| `ReleaseNotification` | from the table to the mailbox: composes `ReleaseScanner` and `NotificationDelivery`, with its theorems | uses the theorems of both |
| `SubscriptionTableProofs`, `SubscriptionServiceProofs`, `PublicApiProofs`, `ReleaseScannerProofs`, `NotificationDeliveryProofs`, `GitHubCacheProofs`, `DeploymentProofs` | theorems | |
| `MC...` | fault sets, symmetry and clients for TLC | |

### Correspondence with the code

*SubscriptionTable.* A row keeps id, email, repository, `confirmed` and
`last_seen_tag`. Its two tokens are drawn afresh from 256 random bits for each
attempt and never change, so the id stands for them. Tags of a repository are
numbered in release order, 0 is the empty string.

*SubscriptionService.* `pc[h]` is the place of handler `h` in
`Service.Subscribe`: `lookup` (service.go:57-64), `insert` (66-86), `send`
(88-90), `rollback` (91). `job[h]` holds its local variables, `live[h]` whether
its ctx is still live. Each external call is one step with one action per
outcome. The outcomes "failed without effect" are always possible; further
failures are the members of `FaultKinds`, and a run or a theorem names the ones
it allows. `inbox` are the ids whose mail the SMTP server took: from then on
the links in it can be used (`PublicApi` adds the
key that the routes demand). `answer` is a history variable for what Subscribe
returned. `RecordTag` is the internal gRPC server's `UpdateLastSeenTag`, called by
the scanner: any tag, for any id, whenever it likes (`ScannerRecords` in
`PublicApi`).

*PublicTransport, PublicApi.* `PublicApi` extends the service's module and its
actions contain the service's: `conn[h]` adds to a handler the request it has in
hand or the answer it gave last. A handler serves HTTP or gRPC for good. A text is
what it stands for and a form, neat, untidy or malformed; a token is the row it was
drawn for (0 for none), its purpose and its form. `Verdict` is what the transport
(`HttpGate`: key, route, body; `GrpcGate`: message, key, since the generated handler
decodes before it calls the interceptor) and then the service's validation make of a
request: `TurnAway` answers it, `BeginSubscribe`, `BeginToken` and `List` take it.
`Serve` is the work in hand. Each end of a request is a `Reply`: the client reads it
(it is kept with the row it is about), or it is lost. Tokens are what clients were
mailed (`inbox`) or saw on the web page (`shown`), or belong to no row. `Says` is the
HTTP status, or the one a gRPC code stands for (`HttpEquivalent`, google.rpc.Code).

*Deployment.* `phase[i]` is the call of `run()` (cmd/api/main.go)
or of `migrations.Run` that instance `i` makes next, `why[i]` why it exited. Each start
reads its settings anew; `LoadAPI` fails if one of `Numbers` does not parse.
`schema` is what is committed, `lock` the open transaction that has created the
tables: `create table if not exists` waits for it, so that `Apply` blocks, and then
either finds the tables or loses with a duplicate key. The insert of the version is
the second place to lose. `signalled[i]` is the cancelled ctx: calls that take it
fail (`Cancelled`), `net.Listen` does not. `inflight` counts requests per server,
`expired` says that the 10 s are over, `cut` which servers left requests unanswered.
The drains come in the code's order, public, internal, HTTP, and HTTP accepts until
its turn.

Leaving `run()` takes two steps. `Returns` is its return, from `server.Shutdown` or
because a server failed: the deferred calls begin (`closing`). `Leave` is the end of the
process, once `db.Close` (main.go:60) has got every connection back: `querying` counts
the HTTP requests that hold one. `server.Shutdown` cancels no request's ctx, so such a
request may keep the process without bound. gRPC requests do not: `GracefulStop` waits
for them, and `Stop` cancels their ctx, which ends their statements. After the failure
of a server HTTP has not been stopped and goes on accepting until the process is gone,
with a closed pool. A failing start needs one step (`Exits`): nobody else holds a
connection yet, and the migration has rolled its transaction back.

*ReleaseScanner.* `todo` are the rows of the snapshot still to come (scanner.go:
84-89, groups in any order, as Go iterates maps), `batch` the rows of the group
in hand that pass the test of line 115, `saga` the row `ProcessRelease` works
on. `UpdateOk`/`UpdateFails`/`UpdateReplyLost`, `PublishOk`/`PublishFails` and
`CompensateOk`/`CompensateFails` are the outcomes of its three calls. `told` and
`strays` are history variables: per subscription the baseline and all tags
published since, and how many events went out after the row was gone.
`staleTag` stands for all the ways a lookup can go back to an earlier release:
a release is withdrawn on GitHub, or a lookup of the other process that began
earlier writes the shared cache entry later.

*NotificationDelivery.* Message n is the n-th event `Publish` took. It moves
from the publisher's `outbox` to the `queue` of every connected consumer, to
its `hand` (the running callback) and to its `mails`. NATS is not part of the
repository: connections, reconnecting with a buffer, giving up after the
default number of attempts, fan-out, and dropping what exceeds a subscription's
limit are modelled from how the code uses the library (no options, no queue
group, no acknowledgement), and marked external.

*ReleaseNotification.* Not a third description of the code but the two modules side
by side, in one conjunction of their specifications and of `Handover`, the two steps
they share: `PublishOk` is a `Publish` of the saga's event, which `log` keeps, and the
end of the scanner's process ends its connection. Everything else interleaves or
coincides freely, which is more than the code does; what is proved of it holds of
the code's interleavings too.

*GitHubCache.* One repository; nothing in the code relates two. `lookup[c]` is
the place of a client in `RepoExists` or `LatestReleaseTag`: it has read Redis
without success (`call`), or has GitHub's answer and is about to write it
(`set`). The steps in between belong to others: `Hit` and `Call` are the two
outcomes of the Get (a failure of Redis counts as a miss), `CallOk`,
`CallNotFound` and `CallFails` those of the call, `SetOk` and `SetFails` those of
the Set. A Subscribe asks for the tag only after "exists" (`ask`); the scanner
asks for tags only. A 404 is cached for `RepoExists` and is an error for
`LatestReleaseTag`. Time passes in ticks: `entry[k].left` is what remains of the
TTL, `since[k][v]` how long GitHub has not been giving the answer v (capped one
above the bound the property states), and `Delay` bounds the time from GitHub's
answer to the end of the Set, as the timeouts of the HTTP and Redis clients do. A
Set that Redis carries out after its client gave up counts as within `Delay`.
A cancelled ctx is one of the ways a Get, call or Set fails.

Each module also holds the mutants its properties are tested with: an operator
above the definition it mutates, commented "Mutant of". No specification uses
them.

## 3. Runs

| run | allowed faults | checks | result |
|---|---|---|---|
| `service_faulty` | all | `TypeOK`, `UniqueSubscription`, `InvitedLeavesOnlyByUnsubscribe`, `RefinesLifecycle` | hold |
| `service_clean` | `mailLost` | `NoStrandedRow`, `FailureLeavesNoRow`, `ReservationSettles` | hold |
| `service_disconnect` | `disconnect` | `FailureLeavesNoRow` | violated |
| `scan_faulty` | all but `staleTag` | `TypeOK`, `NotifiedInReleaseOrder`, `RecordKeepsUp`, `PendingNeverNotified`, `QuietAfterUnsubscribe`, `RecordedFirst` | hold |
| `scan_atomic` | none | `LastSeenIsLastTold`, `RefinesLedger`, `LastReleaseIsTold` | hold |
| `scan_lost_reply` | `commitLost` | `LastSeenIsLastTold` | violated |
| `delivery_faulty` | all | `TypeOK`, `MailedInOrder`, `EveryEventIsPublished` | hold |
| `delivery_outage` | `outage`, `giveUp` | `OutageLosesNothing` | violated |
| `cache` | Redis and GitHub may always fail | `TypeOK`, `AnswersAreRecent`, `ScannerSettles` | hold |
| `public_api` | all, and lost answers | `ApiTypeOK`, `RepliesHold`, `TransportsAgree`, `RefinesService`, `TokenDecides` | hold |
| `mail_link` | none | `MailedLinkConfirms` | violated |
| `deployment` | calls fail, crashes, signals, a server that stops | `TypeOK`, `MigrationIsAtomic`, `LosersFindItDone`, `CutOnlyAtTheEnd`, `StartSettles`, `StopsInTheEnd` | hold |

"None" still leaves every call free to fail without effect.

The four violated runs state what a document or a test of the repository says
and the code does not do:

1. `service_disconnect`: a client that goes away during `smtp.SendMail` cancels
   the ctx the rollback needs (service.go:91). The row stays, unconfirmed and
   without a mail, and its pair answers "already subscribed" for ever. The unit
   test of the rollback uses a background ctx.
2. `scan_lost_reply`: `ProcessRelease` takes every error of the update for "no
   effect" (saga.go:30). If the API did commit, the next scan passes the row
   over. ADR 0006 wants both steps to succeed or fail together and names the
   crash as the only exception.
3. `delivery_outage`: while NATS is down `Publish` still returns nil
   (publisher.go:24), so nothing is compensated; ADR 0006 says it is.
4. `mail_link`: the web page tells people to open the mail and confirm
   (index.html:236). The link in it is a plain GET, and the routes under `/api` want
   the `X-API-Key` header (handler.go:75): whoever clicks gets 401 and the row stays
   unconfirmed.

Observations that no run is about:

- `NotificationsSentTotal` is documented as the number of mails sent
  (metrics.go:69) and counts publications (scanner.go:128). Nothing reads it back,
  so it is not in the model.
- Confirm and Unsubscribe match the token's pattern on the trimmed token and look up
  the untrimmed one (service.go:99-103): a token with a blank around it is valid and
  unknown. Both transports do the same, so `TransportsAgree` holds.
- An instance that loses the race for the migration exits with an error.
  `LosersFindItDone` says that the next start succeeds, but something has to start it.
- The 10 s of the shutdown do not bound it. An HTTP request whose statement Postgres
  does not answer keeps `db.Close` waiting until its client gives up, and SIGTERM has no
  effect any more then. `StopsInTheEnd` names this exception; without it TLC shows the
  instance that stays.
- When one server fails, HTTP is not stopped: until the process is gone it takes
  requests and answers those that need the table with 500, since the pool is closed.

What some of the passing runs show, in words:

- `scan_faulty`: why failures cost events and never repeat one. The saga records the
  tag before it publishes (`RecordedFirst`), so the recorded tag is never behind the
  last one told (`RecordKeepsUp`), and a release that was told is not due again.
- `public_api`: a client told 200 or 404 by Unsubscribe, possibly by its second
  attempt after a lost answer, can rely on the row being gone, whatever other
  clients, the other transport or a crash did; 200 by Confirm means confirmed until
  removed; 200 by Subscribe means that the mail is out. `TransportsAgree` evaluates
  both gates, the validation and both error tables over every request in every
  reachable table. `RefinesService` is the composition's link to the service's runs:
  what they show of the service holds of the API. `TokenDecides` ties the table's
  changes to requests: whatever is retried, listed, cut off or written by the scanner
  meanwhile, a row is confirmed, or removed once its mail is out, in the step that
  serves a request with its own token, or removed by its own request's rollback.
- `deployment`: two instances in any two places of start-up and shutdown. What is cut
  off is known by its reason (`CutOnlyAtTheEnd`): gRPC requests by the deadline or a
  failed server, HTTP requests only when the process ends and then with an error from
  `run()`. `StopsInTheEnd` says what can keep an instance that is to stop: not requests
  that hang in SMTP, not ones that keep arriving, not the other instance, only a
  statement of an HTTP request that never gets its reply.

### Bounds

- Service: 1 address, 2 repositories, 2 handlers, 2 tags, 3 rows ever inserted.
  Two handlers can collide on one pair or work on different ones; three rows let
  a pair be reserved, freed and reserved again beside another; nothing in the
  code relates two addresses, so one is enough to vary pairs.
- Scanner: 2 addresses, 2 repositories (1 in `scan_atomic`, which checks
  liveness and so has no symmetry), releases 0 to 2, 2 rows ever inserted, 3
  events per row. Two rows make a group of two or two groups; a row that is
  removed and added again has a new id, and a run still holds the old one. Two
  releases after the baseline allow a repetition and a reordering; in order,
  `MaxEvents` is never reached.
- Delivery: 3 events, 2 consumers, a reconnect buffer of 1 and a subscription
  limit of 2, so that both limits are hit and an order of what is left remains.
  The violated run needs 1 consumer.
- Cache: the scanner and one Subscribe, which suffice for one lookup to overtake
  another and for both orders of two writes; tags 0 and 1, which GitHub may
  change between without limit; TTL 2 and Delay 1, so that a late write can meet
  a fresh, a half expired and an expired entry.
- API: one handler per transport, 1 address, 1 repository, no releases (no transport
  looks at a tag), 2 rows ever inserted, so that a token of a removed row meets its
  successor. Two requests race for one row over different transports, and each
  client may ask again without limit. `mail_link` needs one row.
- Deployment: 2 instances, which collide in each step of the start-up; 1 request in
  flight per instance and server, with or without a connection, since only "some or
  none" matters to the drains and to the pool. The theorems cover the others.

Symmetry (emails, repositories, handlers) is used in the runs without liveness
properties. Every variable starts equal for all of them.

No run switches the deadlock check off: there is always something somebody may do.

`LastSeenIsLastTold` under `staleTag` (lookups that go back to an earlier release) is
not covered by a run; the theorem `SagaAtomicity` covers it. `RefinesLedger`, which is
checked in the same run, promises releases in order and so excludes that fault.

### Fairness

- `SubscriptionService!FairSpec`: a handler that can take a step takes one.
  GitHub calls are bounded by the client's 10 s; that Postgres and SMTP answer is an
  assumption, since neither a statement nor `smtp.SendMail` has a timeout. Requests,
  links and disconnects are not fair.
- `ReleaseScanner!FairSpec`: the ticker starts run after run and a run
  advances (WF); cache entries expire (WF); a lookup, an update and a publication
  that are tried again and again succeed in the end (SF). The retry is the next
  scan, and it happens only because of the compensation: that is what
  `LastReleaseIsTold` tests. Users and releases are not fair.
- `NotificationDelivery!FairSpec`: the broker comes back (WF); reconnecting,
  starting the scanner again and publishing are tried again and again (SF).
  Nothing is asked of the notification services.
- `GitHubCache!FairSpec`: time passes, a client that has GitHub's answer returns
  it and the scanner asks on (WF), since each of these is bounded by a timeout or
  the ticker; a call the scanner tries again and again succeeds in the end
  (SF). GitHub's changes and the Subscribes are not fair.
- `Deployment!FairSpec`: `run()` goes from call to call and the timer of the deadline
  fires (WF). `Apply` is SF: Postgres serves those who wait for a lock in turn, so an
  instance is not passed over for ever by others that come, commit or crash. Nothing
  is asked of requests or their statements: a Subscribe may hang in SMTP for ever,
  and `StopsInTheEnd` must hold all the same. That `db.Close` returns once it has every
  connection back is part of `Leave` (WF). Nobody has to start or stop a process.
  The calls of the start-up are assumed to come to an end, with success or not.

## 4. Proofs

For every number of emails, repositories, handlers, rows, tags, events,
consumers, instances and limits:

| theorem | assumption on faults | says |
|---|---|---|
| `SubscriptionServiceProofs!TypeCorrect` | | `TypeOK` |
| `SubscriptionServiceProofs!Uniqueness` | | `UniqueSubscription` |
| `SubscriptionServiceProofs!CleanFailure` | at most `mailLost`, `crash` | `FailureLeavesNoRow` |
| `SubscriptionServiceProofs!NothingStranded` | at most `mailLost` | `NoStrandedRow` |
| `SubscriptionServiceProofs!OwnerDecides` | | `InvitedLeavesOnlyByUnsubscribe` |
| `SubscriptionServiceProofs!ImplementsLifecycle` | | `RefinesLifecycle` (the service implements `SubscriptionLifecycle`) |
| `ReleaseScannerProofs!TypeCorrect` | | `TypeOK` |
| `ReleaseScannerProofs!OptInOnly` | | `PendingNeverNotified` |
| `ReleaseScannerProofs!QuietAfterLeaving` | | `QuietAfterUnsubscribe` |
| `ReleaseScannerProofs!SagaAtomicity` | at most `staleTag` | `LastSeenIsLastTold` |
| `ReleaseScannerProofs!ReleaseOrder` | all but `staleTag` | `NotifiedInReleaseOrder` |
| `ReleaseScannerProofs!NeverDueAgain` | all but `staleTag` | `RecordKeepsUp` |
| `ReleaseScannerProofs!RecordGoesFirst` | | `RecordedFirst` |
| `ReleaseScannerProofs!ImplementsLedger` | none | `RefinesLedger` (the scanner implements `ReleaseLedger`) |
| `NotificationDeliveryProofs!TypeCorrect` | | `TypeOK` |
| `NotificationDeliveryProofs!MailOrder` | | `MailedInOrder` |
| `NotificationDeliveryProofs!NothingLost` | `Undisturbed`, a consumer | `OutageLosesNothing` |
| `NotificationDeliveryProofs!NoGap` | `Undisturbed` | each service mails every event from the first on |
| `ReleaseNotification!SubscriberHearsInOrder` | all but `staleTag` | mails of a subscription come in release order, none twice from one service |
| `ReleaseNotification!OptInIsEndToEnd` | | no mail about a release to an unconfirmed subscription |
| `ReleaseNotification!NothingGetsLost` | `Undisturbed`, a consumer | what the scanner counts as sent is mailed or on its way |
| `GitHubCacheProofs!TypeCorrect` | | `TypeOK` |
| `GitHubCacheProofs!RecentAnswers` | | `AnswersAreRecent` |
| `PublicApiProofs!ApiRefinesService` | | `RefinesService` (the API implements `SubscriptionService!Spec`) |
| `PublicApiProofs!ApiTypeCorrect` | | `ApiTypeOK` |
| `PublicApiProofs!AnswersStayTrue` | | `RepliesHold` |
| `PublicApiProofs!ApiUniqueness` | | `UniqueSubscription`, of the whole API |
| `PublicApiProofs!OneApi` | | `TransportsAgree` |
| `PublicApiProofs!ApiImplementsLifecycle` | | `RefinesLifecycle`, of the whole API |
| `PublicApiProofs!OwnTokenDecides` | | `TokenDecides` |
| `DeploymentProofs!TypeCorrect` | | `TypeOK` |
| `DeploymentProofs!Migration` | | `MigrationIsAtomic` |
| `DeploymentProofs!Losers` | | `LosersFindItDone` |
| `DeploymentProofs!GracefulStop` | | `CutOnlyAtTheEnd` |

The constants' assumptions are `MaxTagAssumption`, `ServiceAssumption`,
`ApiAssumption`, `ScannerAssumption`, `DeliveryAssumption`, `CacheAssumption` and
`DeploymentAssumption`: the bounds are natural numbers (the TTL and the number of tags
positive), `Faults` holds known kinds, the scanner is a client of the cache, the HTTP
handlers are handlers, and `None` is no instance. TLC evaluates them in every run.

The arguments:

- *Service.* `IInv` adds to the types that ids are unique and below the serial,
  and that two handlers never own one row. An insert commits only if the pair is
  free, which keeps the pairs unique. `HonestInv` adds that every ctx stays live, so
  that a rollback always reaches the table; `CleanFailure` needs no more, since a
  crash sends no answer. It does strand rows, which is why `NothingStranded` excludes
  it. `OwnerDecides` splits on
  whether SMTP can report an accepted mail as failed; if not, a handler that may
  still delete a row has not had its mail accepted (`OwnedIsUnsent`).
- *Scanner.* `IInv` relates what the run holds in memory to the table: a row of
  the snapshot was confirmed, and if its id is still there, so is its
  repository and its confirmation. Rows that are gone can be told once more because
  a run holds each id at most once. `SagaAtomicity` adds that a row of the
  snapshot still has the tag of its snapshot until the saga reaches it, because
  only the saga writes tags. `ReleaseOrder` bounds every tag recorded or told by
  the floor of its repository (the cached tag, or GitHub's on a miss), which
  never sinks unless a lookup goes back; `NeverDueAgain` reads the same invariant
  from the other side. `RecordGoesFirst` asks nothing of lookups:
  between the update and the publication the row has the saga's tag, as nobody else
  writes tags (`RecordedInv`).
- *The two refinements.* `ImplementsLifecycle` needs no assumption on faults: a pair
  has at most one row (`IInv`), so its phase is that row's, and each statement that
  succeeds touches one row: an insert reserves (`InsertReserves`), a mail invites
  (`MailInvites`), a confirmation activates (`ConfirmActivates`), a deletion frees
  (`DeleteFrees`), a tag moves nothing (`RecordTagStutters`); the others' phases stay
  (`OnePairMoves`). `ImplementsLedger` holds without faults only, and says so: a lost
  reply or a failed compensation separates tag and event, and a withdrawn release
  takes the ledger back. It uses both `AtomicInv` and `OrderInv`: the ledger sees a
  tag when its event is out, so that update and compensation are stutters.
- *Delivery.* The places a message passes through are ordered: what is further
  on was published earlier (`InLine`). All faults only cut messages off an end of
  a sequence (lemmas `CutCases`, `CutKeeps`), and the only steps that add one
  add it behind all the others (`AppendKeeps`). `NothingLost` needs the opposite view:
  in `WholeInv` the mails, the hand, the queue and the outbox hold consecutive
  messages, all of them together. Its assumption `Undisturbed` leaves out what must be left out: an
  outage, a stop of either process, a failing mail, or a limit below the number of
  events loses one (`delivery_outage` shows the first). `NoGap` is the other side of
  the fan-out: two services mail everything twice.
- *Cache.* `AnswersAreRecent` is not inductive: it says nothing of an answer that
  is still in hand or in Redis. `IInv` adds that a value in hand is no older than
  its client's wait (`InHandIsRecent`), and that the age of a cached value and the
  time it has left sum up to at most TTL + Delay (`EntryIsRecent`), which a tick
  preserves and a read does not touch.

- *API.* Every step of `PublicApi` is one of the service's steps or leaves its
  variables alone, so that the service's `IInv` and theorems carry over
  (`ApiRefinesService`; `ApiUniqueness` uses it). A token must be one that was handed
  out for the service's action to be enabled: `Knowledge` says that what the clients
  have seen belongs to rows whose mail is out. `RepliesHold` needs that rows
  never come back (ids grow) and that a confirmed row stays confirmed (`Promises`).
  `ApiImplementsLifecycle` composes the two refinements. `OwnTokenDecides` goes through
  the steps that touch a row at all (`WhoActs`), and uses `OwnedIsUnsent` for rollbacks.
- *From the table to the mailbox.* Neither side can promise what a subscriber sees.
  `LogInv` joins them: message n of the bus is entry n of `log`, and the entries of a
  subscription are what it was told after the baseline. The scanner's order of tags
  becomes an order on the log (`LogOrder`), and `MailOrder`'s invariant carries it
  through the bus. The invariants of either side are used as proved there
  (`AlwaysLog`); new are only the steps that publish or leave `told` (`OtherSteps`).
- *Deployment.* `DbInv` adds to the two migration properties that whoever is about
  to commit holds the transaction that created the tables (`CommitterHolds`).
  `StopInv` has three parts: a server that was stopped has nothing in flight, and
  neither has HTTP when `run()` returned no error (`StoppedIsEmpty`); `run()` returns
  for a known reason, and for the deadline only when that has passed
  (`ReturnHasReason`); before the deadline only a failed server cut anything off, and
  HTTP's requests nobody before the process was gone (`CutBeforeDeadline`). The second
  carries the reason from the return to the end of the process, past whatever arrives
  and finishes in between.

Only model-checked: liveness (`ReservationSettles`, `LastReleaseIsTold`,
`EveryEventIsPublished`, `ScannerSettles`, `StartSettles`,
`StopsInTheEnd`), which the prover's backends do not reach. Every invariant, action
property and refinement that a passing run checks is also a theorem. Only proved: the
theorems of `ReleaseNotification`, which no run instantiates, since the two sides have
runs of their own; and `NoGap`.

## 5. What is not modelled

- Text: the patterns of e-mail, repository and token (only whether a text is
  accepted and whether it is the same as another after normalising), mail bodies,
  JSON and protobuf encoding, logging.
- The messages' generated code (`*.pb.go` without `_grpc`): accessors and
  descriptors without control flow of their own.
- The static page and its script, apart from the tokens it shows; metrics, which are
  write-only.
- A token that no path can hold and a message that does not decode exist in one
  transport only; `TransportsAgree` leaves them out.
- Configuration beyond whether an API instance can start: the three loaders keep no state
  and read what they share (API key, Redis, base address) by the same expressions. A scan
  interval that is not positive is replaced by one comparison (scanner.go:54).
- HTTP's 15 s `WriteTimeout`: an answer it cuts off is a lost answer in `PublicApi`;
  `CutOnlyAtTheEnd` is about the shutdown only, and leaves out what a crash cuts off.
- Two instances of the notification service: main.go:47 subscribes without a queue
  group, so each mails every event. `NotificationDelivery` has this behaviour
  (fan-out); that an address gets one mail per event is false by design with two
  instances, and compose starts one.

## 6. Plan

Done: the table, the service, the public API over it, the scanner with its saga, the
delivery, the GitHub client, start and stop with migrations; the
abstract specifications of service and scanner, and the API as an implementation of
the service; scanner and delivery composed; proofs of all safety properties and of
the three refinements.

Next:

1. `GitHubCache` under `ReleaseScanner`: that its one-step lookup is what the two-step
   lookups of `GitHubCache` amount to, with the cases that `staleTag` stands for.
2. One account of every way a notification is lost, as an invariant of
   `ReleaseNotification` under all faults.
