# Verification of the internship tracker

TLA+ models of the Go backend of the internship tracker, the TLC runs that
check them and the TLAPS proofs about them. The backend scans company career
pages, has a model extract facts from each listing, groups listings into
opportunities and pushes the strong new ones to the user's devices. Source
paths below are relative to `src/`, and mostly to `src/internal/`.

## 1. The system

One process (`cmd/api/main.go`) holds an HTTP server, a scan scheduler, a backup
timer and the push dispatcher; `cmd/reassess`, `cmd/backup` and the deployment
scripts run next to it on the same SQLite file. The database has a single
connection (`internal/database/database.go`), so every store method, and every
transaction within one, is atomic with respect to every other: a store
transaction is one step of a model, and what happens between two of them is
where interleavings and crashes matter.

| Component | State it keeps | Operations | Hard behaviour | What makes it correct | Status |
|---|---|---|---|---|---|
| Web Push outbox (`store/sqlite.go` 977-1066, 2126-2501; `push/dispatcher.go`; handlers) | subscriptions, notifications, deliveries with lease, attempt count and due time; the batch in the dispatcher's memory | register, unregister, enqueue, claim, send, record, shut down | a network call between claim and record, crashes, lost replies, a device that leaves or renews meanwhile | statuses agree, settled rows stay settled, repeats and attempts bounded by faults, every event settles | modelled |
| Opportunity deduplication (`store/sqlite.go` 36-86, 528-956; `opportunity/matcher.go`) | listings, analyses, opportunities, memberships, alerts filed under opportunities | upsert, analyse, merge, split, reconcile at startup, register program windows | long sequences of merges and splits, restarts in the middle of a pass, identities that go stale | no listing hidden, no empty card, one alert for each opportunity | partly (scores abstracted) |
| Analysis pipeline (`orchestrator/service.go`, `coordinator.go`; `store/sqlite.go` 1068-1273) | processing status, decision, scan runs, source health, the scan slot | scan, retry pending, save, fail, invalidate | scans and retries of one listing at once, cancelled requests, a write that fails, a crash in a scan, a restart with another configuration | nothing fetched is lost silently, reports say what happened, scans end | modelled |
| Source access budget (`store/sqlite.go` 1275-1480, `scraper/robots.go`) | next access, cooldown and failure count of a scope; the robots.txt cache | reserve, refuse, succeed, ask robots.txt | a crash between reservation and result, several sources of one scope, an outdated cached answer | interval and cooldown never undercut, reports exact | modelled |
| Matching and notification gate (`matching/`, `domain/notification.go`, `store/notification_gate.go`) | score and layer of an opportunity | assess, promote, accept | two gates in two packages that must agree | both give the same layer | modelled |
| Reassessment (`cmd/reassess`, `store/reassess.go`) | the same rows | re-score, invalidate | runs next to the server, without what the scan knew | a promotion the scan stored is kept | partly (violated) |
| Scan scheduling (`scheduler/`, `coordinator.go`) | the next time, the scan slot | tick, request, stop | a tick within a scan | one scan at a time | partly (cron expression left out) |
| Feeds, learned recipes, extracting sources (`scraper/rssfeed*.go`, `learnedselector.go`, `llmgeneric.go`) | checkpoints, seen items, recipe versions, remembered blocks | poll, mark, learn, repair, extract | marks written before listings are saved, failed saves, restarts | nothing hidden by a 304, nothing paid for twice, one recipe in use | modelled |
| Robots.txt rules and adapters (`scraper/`) | none | parse, decide | groups in any order, ties, empty rules | the longest match of our groups decides | partly (page parsing left out) |
| Model analyzer (`analyzer/`) | none that outlives a call | ask, validate, retry | schema and validation that disagree | an answer that keeps the contract is taken | partly |
| Backup and retention (`backup/backup.go`, `cmd/backup`) | the backup directory, the timer | create, check, publish, prune | crashes between them, a clock set back, two writers | only whole files published, the newest kept | modelled |
| Migrations (`database/database.go`) | `schema_migrations` | open, look up, apply | several releases open one file at once | each takes effect once | modelled |
| Stored instants (`store/sqlite.go`) | text columns | compare in SQL | a layout without fixed width | text order is time order up to the fraction | partly |
| Deployment (`deploy/scripts/*.sh`) | release manifests, lock | deploy, roll back | interruption between two copies | the rollback target is a release that ran | not modelled |
| Application tracking and lifecycle; configuration; dashboard queries; web client | one row each, or none | validated updates, reads | none beyond a single statement | - | not modelled |

Interaction: a scan (AnalysisPipeline) reserves a source's scope (SourceAccess),
asks robots.txt (RobotsRules), has the source list what is new (FeedSource,
LearnedSource, GenericSource), upserts the listings, asks the analyzer
(ModelAnalyzer), scores (Assessment) and saves. Saving resolves the listing's
opportunity (Opportunities) and, in the same transaction, may enqueue one
notification with a delivery for each subscription, which the dispatcher drains
(PushOutbox). The HTTP API writes subscriptions, application status and
lifecycle. Each model leaves its neighbours' answers open: the pipeline allows
every outcome of a fetch that the source modules have, and the opportunity
module every outcome of a score.

## 2. Modules

| Module | Contents |
|---|---|
| `NotificationPromise` | abstract specification of the outbox: an event goes to a fixed set of devices, each is settled once, the event's status is the summary of its devices |
| `PushOutbox` | the outbox as the code runs it, with `KeepsPromise` as its refinement |
| `Opportunities` | listings, opportunities, the matcher and the startup pass |
| `AnalysisPipeline` | scans, retries and invalidations around the analysis rows, `scan_runs` and the health of sources, under a configuration that restarts may change |
| `AccessPromise` | abstract specification of the access budget: a visitor that enters a site once in an interval, never while it is closed, and leaves when turned away |
| `SourceAccess` | access budget and robots.txt cache, on an explicit clock, with `KeepsAccessPromise` as its refinement |
| `FeedSource`, `LearnedSource`, `GenericSource` | what each kind of source remembers between scans |
| `Assessment` | score, layer, promotion, acceptance, reassessment |
| `RobotsRules` | the parser and its verdict, and a definition of the verdict without a parser |
| `StoredTimes` | RFC3339Nano texts compared as SQL compares them |
| `ModelAnalyzer` | the attempts of one analysis over two providers |
| `Domain` | the types of opportunities and the decisions on eligibility that `Assessment` and `ModelAnalyzer` share |
| `Backups` | snapshots of the database, and its migrations |
| `MCPushOutbox`, `MCOpportunities`, `MCAnalysisPipeline`, `MCSourceAccess`, `MCModelAnalyzer` | small instances of the modules they are named after |
| `MCMatching` | `MCOpportunities` with two kinds of behaviours, chosen at the start: about listings alone, or about titles and a program window |
| `MCParts` | the modules that meet no other (sources, `Assessment`, `RobotsRules`, `StoredTimes`, `Backups`) in one instance, one of them in each behaviour |
| `...Proofs` | theorems: `PushOutboxProofs`, `OpportunitiesProofs`, `AnalysisPipelineProofs`, `SourceAccessProofs`, `SourceMemoryProofs` (the three sources), `DecisionProofs` (`Assessment`, `RobotsRules`, `StoredTimes`, `ModelAnalyzer`), `BackupsProofs` |
| `Recursion` | lemmas about induction over numbers and about functions defined by recursion, for the proofs |

Operators named `Bad...` are deliberate mistakes, each next to the definition it
would spoil. No action uses them; putting one in the place of its original must
make a property fail, which shows that the property notices that kind of mistake.

### PushOutbox

| Code | Model |
|---|---|
| row of `push_subscriptions` | `subscription[e]`, the number of the registration it holds (0: no row); `lapsed`, registrations whose `expiration_at` has passed |
| `notifications.status` | `notification[n]` |
| `notification_deliveries` | `delivery[d]`, `attempts[d]`, `linked` (`subscription_id` not NULL), `notDue` (`next_attempt_at` in the future), `leased` (`lease_until` in the future) |
| goroutine of the dispatcher | `batch`, `snapshot[d]` (the registration read by the claim), `answer[d]` (answer received, not recorded) |
| process | `process`: up, stopping (context cancelled), down |

| Code | Action |
|---|---|
| `UpsertPushSubscription`, `DeletePushSubscription` | `Register`, `Unregister` |
| `enqueueListingNotification` past its gates | `Enqueue` |
| `ClaimPushDeliveries` | `Claim` |
| `dispatch`: expiration check; `Sender.Send`; the branches after it | `DispatchExpired`; `Send`, `SendReplyLost`; `RecordSent`, `RecordGone`, `RecordRetry`, `RecordFailed`, `RecordingFails` |
| signal, `Dispatcher.Wait`, death, `Dispatcher.Start` | `Stop`, `Exit`, `Crash`, `Restart` |
| the clock passing a stored instant | `LeaseRunsOut`, `BackoffElapses`, `Lapse` |

Instants are abstracted to the comparisons made with the clock, each of which
may turn at any moment. A lease lasts 45 seconds and a batch of 25 sends with a
timeout of 15 seconds each can outlive it, so a lease may run out under the
dispatcher that holds it; the only dispatcher claims between batches. `faults` and `accepted` are observers: what
the push service took, and how many crashes, failed writes and lost replies
there were. Both numbers are what the bounds on repeats and attempts are stated
in.

The claim picks the oldest due rows by id; within one event the model leaves the
order open. Opportunities and outbox meet in one transaction: `Enqueue` is the
tail of `SaveAnalysis`, seen from the outbox.

### Opportunities

One company is modelled: `resolveOpportunity` never looks at another.

| Code | Model |
|---|---|
| `listings.title`, `listing_analyses.location` (normalised) | `title[l]`, `place[l]` |
| `processing_status = 'processed'`, `first_processed_at` | `processed`, `first` |
| `listing_opportunities.opportunity_id` | `member[l]` |
| `opportunities.status`, `normalized_title` and `normalized_location` | `status[o]`, `identity[o]` |
| `notifications.opportunity_id` of the listing's alert, `dedup_key` | `alert[l]`, `dedupKeys` |
| startup sequence of `main` | `phase`, `todo`, `unregistered` |

Ids are tuples of what they are hashes of. The similarity of titles is a
relation given by two constants (`Fuzzy`, at least 0.92; `Similar`, at least
0.80); it need not be transitive, and in the code it is not. `Target(l, p)` is
the whole decision of `resolveOpportunity`; `NewStatus`, `NewIdentity` and
`Follow` are the rows it writes.

| Code | Action |
|---|---|
| `UpsertRawListing`, new and known listing | `UpsertNew`, `UpsertKnown` |
| `SaveAnalysis`, with `resolveOpportunity`, `splitOpportunity`, `enqueueListingNotification` | `SaveAnalysis` |
| `SaveAnalysisFailure`; `InvalidateProcessedAnalyses` | `SaveAnalysisFailure`; `Invalidate` |
| one transaction of `ReconcileOpportunities`; its end | `Reconcile`; `Reconciled` |
| `RegisterProgramWindow` | `RegisterProgram` |
| the server starting to serve; the process ending anywhere and starting again | `Serve`; `Restart` |

### AnalysisPipeline

| Code | Model |
|---|---|
| `listing_analyses.processing_status`, `eligibility_status`, `first_processed_at` | `analysis[l]`, `answer[l]`, `first` |
| `scan_runs.status`; sources with a `last_error` | `runs[i]`; `failing` |
| sources with `enabled`, those of companies with `tracking_status = 'manual'`, as configured | `config.enabled`, `config.byHand` |
| `manualChecks` | `ManualChecks`: the failing sources, without those tracked by hand |
| `CoordinatedRunner.mu` | `lock` |
| local variables of `Service.Run` | `scan[t]`: position, listings still to do, failed sources, a cancelled context |
| the slice `ReprocessPending` works through | `batch[r]` |

| Code | Action |
|---|---|
| `CoordinatedRunner.Run`, `StartScanRun` | `StartScan` |
| `Service.Run`: the access check, `FetchListings` | `SourceFails`, `FetchListings` |
| `UpsertRawListing`; `AnalysisRequired` | `StoreListing`, `StoreFails`; `CheckListing`, `CheckFails` |
| `Analyze` with `SaveAnalysis` or `SaveAnalysisFailure` | `Analyse`, `AnalyseFails`, `SaveFails` |
| `RecordSourceSuccess`, `RecordSourceFailure` | `FinishSource`, `SourceFails` (through `NextSource`) |
| `summarize`, `FinishScanRun` | `FinishScan` |
| `PendingAnalyses`; `ReprocessPending` | `StartRetry`; `RetrySucceeds`, `RetryFails` |
| `InvalidateProcessedAnalyses` | `Invalidate` |
| a client that leaves, `Scheduler.Stop`; the death of the process | `Cancel`; `Crash` |
| a start with another configuration: `configureSources`, `RegisterSource` | `Configure` |

A scan goes through the enabled sources only, so the row of a source that was
disabled keeps the error of its last scan, and `manualChecks` goes on listing it.
`ReportMatchesManualChecks` is therefore about the sources that are scanned, and
takes into account that companies tracked by hand are never listed, even if one
of their sources is scanned and fails. Retries do not take the scan slot, as in
the code, so a retry and a scan may hold one listing. `faults`, `found` and
`overlapped` are observers: failed writes and crashes, what the scan has fetched,
and the processed listings that someone else was holding when they were analysed.

### SourceAccess

| Code | Model |
|---|---|
| `source_access_states` | `nextAllowed`, `blockedUntil`, `failures` by scope, 0 for NULL |
| `HTTPRobotsChecker.cache` | `robots[c]` |
| `accessStates` of `Service.Run` and its position | `state[c]`, `phase`, `source` |
| the clock | `now`, which advances between any two steps |

`ReserveSourceAccess` is `Grant` or `Deny` (`ReserveFails` when it cannot be
written), `Check` is `AskSite` or `SiteSilent`, a fetch `Fetch` or `Refused`;
`RecordSourceAccessFailure` and `RecordSourceAccessSuccess` are `RecordRefusal` and
`RecordSuccess`. `exponentialCooldown` is the recursive function
`ExponentialCooldown`. In `AccessPromise` a reservation is `Enter`, a later source of
the scope `Request`, a refusal `TurnAway`, its record `Remember`, and the end of a scan
or of the process `Leave`. Sources outside `Typed` report a 403 or 429 as a plain error, which starts no cooldown:
RSS feeds do so (`scraper/rssfeed.go:125`). `EditRobots` is the site's own doing.
`robots[c]` is one verdict for a scope; the code keeps the parsed file of each scheme
and host and decides by path, which gives one verdict for each source's URL.
Freshness, what `RobotsAnswerFresh` is about, is that of the file in both.

### FeedSource, LearnedSource, GenericSource

| Code | Model |
|---|---|
| `feed_checkpoints`, `feed_seen_items`; the poll | `checkpoint`, `seen` by guid; `poll` |
| `source_extraction_recipes`; `company_sources` | `recipes`, a sequence of versions; `health` |
| `LLMGenericSource.cache`; `source_extraction_block_cache` | `memory`; `disk` |

`ReadEntry` marks an entry before its listing is stored (`StoreEntry`), and the
checkpoint comes last (`HandOver`). `LoadRecipe`, `RunRecipe`, `Learn`, `SaveRecipe` and
`UpdateSnapshot` are the steps of a visit with a learned recipe; `LoadBlocks`,
`Extract` and `SaveBlocks` those of a visit read by the model. `changed`, `answered`,
`saved` and `unsaved` are observers. What a page holds and what a model answers is
any choice; hashes are taken to be free of collisions.

### Assessment, RobotsRules, StoredTimes, ModelAnalyzer

`Assessment` keeps the weights and thresholds of `matching/scorer.go`; of a place it
keeps what the code asks of the text. `SavedAssessment` is what `SaveAnalysis` stores
(`Assess` without the trust level, then `applyTrustedNotificationLayer`), `Reassessed`
what `cmd/reassess` writes. `RobotsRules` compares `Allowed`, the parser as written
(`ReadLine` is the body of its loop over the lines, `Weigh` that over the rules),
with `MayVisit`, which says the same of the lines directly; patterns are reduced to
whether they match and how specific they are. `StoredTimes` spells the part of the
layout that has no fixed width as character codes, with which SQL compares.
`ModelAnalyzer` has an attempt as a reply of a provider's server and an answer in
it; `Valid` is `validatePayload`, `InContract` the JSON Schema and the prompt. A call
under a cancelled context is one that never reached the server (status 0):
`client.Do` returns a `url.Error`, which is a `net.Error` and so a temporary error; a
model name with a slash fails before any call, permanently.
`FailsOnlySo` lists what an analysis can fail for.

### Backups

| Code | Model |
|---|---|
| files `.partial`, files with their final name | `partial`, `published`: sets of snapshots with clock, suffix, content and state |
| `Service.loop`, its timer; `cmd/backup` | `runner["service"]`, `alarm`; `runner["command"]` |
| the wall clock | `time - setBack` |
| `schema_migrations`; the effect of the SQL | `applied`; `executed[n]` |
| `Open` of each process | `opening[p]` |

`Create` is `Begin`, `Written`, `Check` or `Refuse`, `Publish`, `Unlink`; `prune` is `List`,
`Prune`, `PruneEnds`; `applyMigration` looks up (`LookUp`) and applies (`Apply`) in two
steps. Every step may fail or be the last of its process.

## 3. Runs

| Run | Instance | Question | Result |
|---|---|---|---|
| `devices` | 1 event, 2 devices, batches of 2, 2 attempts, 3 registrations, 1 fault | do the tables stay consistent, and implement the promise, while devices come and go under the dispatcher? | holds, 527k states |
| `faults` | 2 events, 1 device, batches of 1, 2 attempts, 2 registrations, 2 faults, fair | are repeats and attempts paid for by faults, and does every event settle? | holds, 256k states |
| `renewal` | 1 event, 1 device, no fault | is only an expired subscription removed for expiry? | violated |
| `matching` | 3 listings of 1 title, 2 places, 2 repeated analyses; or 2 listings, 2 titles, 2 places, 1 program window, 2 changes | is every listing visible, no card empty, does an alert follow its listing, is an opportunity alerted about once, is every program window shown by every start? | holds, 1.2M states |
| `restart` | 2 listings, 2 titles, no place | does a second startup pass leave alone what the first one left? | violated |
| `lost_alert` | 2 listings, 2 titles, no place | does the first qualifying analysis leave its opportunity with an event? | violated |
| `pipeline` | 2 sources of 1 listing each, 3 configurations, 2 triggers, 1 retry, 2 runs, 1 fault, fair | is a fetched listing ever lost silently, do reports say what happened, do scans end? | holds, 456k states |
| `access` | 3 sources in 2 scopes, interval 2, cooldown 1 to 3, Retry-After 4, clock to 6, 1 fault | are interval, cooldown and robots.txt kept to, is the reported time exact, and is it the promised visitor? | holds, 2.9M states |
| `parts` | a feed of 3 entries with 2 guids, 4 recipe versions, 3 blocks, 43k analyses at 2 trust levels, all robots.txt files of up to 5 lines, or of 6 lines of five kinds, instants of 4 seconds with 3 digits; a directory with 2 runners, 1 snapshot kept of 3, days of 2 instants, 4 instants, clock set back by 1, 2 faults; 2 processes with 1 and 2 migrations, 2 faults | see the properties; for the last two, is only what is whole published, are the newest kept, does each migration take effect once? | holds, 4.8M states |
| `robots_groups` | the robots.txt files of `parts` | does the checker decide as RFC 9309 says of every file? | violated |
| `reassess` | the analyses of `parts` | is what scores high and is trusted in `bildirim`, whoever scored it last? | violated |
| `model_answers` | 3 attempts, 2 providers | is an answer that keeps the contract taken? | violated |

The properties, in words, are next to their definitions. `pipeline` and the
three runs of `MCParts` switch the deadlock check off because they may use up a
bound (runs, snapshots, time) that the system does not have, `model_answers`
because an analysis ends; no other run does.

Why the bounds are enough.

* Outbox and opportunities: a second device is needed for a roll-up over
  different outcomes, a second event for the order of a queue, a second attempt
  for a retry that may be the last, a second registration for a renewal (a third
  to renew after leaving), a second fault for one crash to hit the recovery from
  another. In `matching`, three listings are the fewest with an opportunity in
  which the first other member is a choice, two places the fewest in conflict;
  titles and places play the same part in a split, so the second title is left to
  the behaviours about titles, where a program window is the third opportunity.
  `MaxChanges` bounds new titles and repeated analyses; restarts, failed analyses
  and invalidations are not bounded.
* `pipeline`: two sources are the fewest that give a partial run, two triggers the
  fewest that compete for the slot, one retry next to a scan is the overlap in
  question, and a second run meets what the first one left. The configurations
  have both sources scanned, one disabled (its error outlives its scans), or one
  scanned though its company is tracked by hand.
* `access`: two sources share a scope, so that one may be refused after the other
  succeeded; the third asks robots.txt and does not report refusals as such. The
  Retry-After is longer than the longest cooldown, the clock long enough for two
  refusals and what comes after, and for an answer to leave the robots cache.
* `parts`: two entries of the feed share a guid and one does not; five lines of
  robots.txt are enough for two groups of ours around one for everybody, and six
  are the fewest in which a rule without a value, alone between two agent lines,
  lets in what it would have kept out (`robots_groups`); the
  analyses have both sides of every threshold; seconds cross from one digit to
  two. The parts do not meet in one behaviour because they share no state. Of the
  backups, three snapshots and one kept are enough for one to be published
  while another is pruned; two releases differ in one migration. A behaviour is
  about the directory or about the migrations: the two share only what a snapshot
  holds, and the proofs are about both at once.

The theorems of section 5 remove these bounds from all the safety properties of
the passing runs.

### What the violated runs show

* `renewal`: `dispatch` compares the expiration read by the claim
  (`push/dispatcher.go:93`) and disables by delivery id. A device that renewed its
  subscription after the claim loses the renewed row, although
  `docs/architecture.md:120` only removes expired or refused subscriptions.
* `restart`: a member of a shared opportunity is compared with the titles and
  places of its listings, a lone listing with the identity stored in the
  opportunity (`store/sqlite.go:850`), which nobody refreshes while it is shared.
  Trace: listing 1 is found, its title changes, listing 2 with the old title
  merges into its opportunity; the pass at startup splits 2 off, the pass at the
  next startup merges it again, and so on. The comment at `store/sqlite.go:38`
  calls the pass safe to run on every startup.
* `lost_alert`: the notification moves with its listing, its `dedup_key` keeps the
  old opportunity. Trace: listing 2 merges into the opportunity of listing 1, not
  analysed yet, and is alerted about; listing 1 changed its title, so a new
  analysis of 2 splits it off together with its alert; the first analysis of 1
  qualifies, its opportunity has no event, and the insert is dropped because the
  key exists (`store/sqlite.go:1021`). `README.md:238` promises one event for the
  first successful analysis of a qualifying opportunity.
* `model_answers`: the schema (`analyzer/model.go:292`) and the prompt name the type
  `part_time`, the validation (`analyzer/model.go:251`) knows `part_time_ogrenci`. Trace:
  the provider fails twice with a temporary error, the third attempt brings an
  answer that keeps the schema, with the type `part_time`; it is refused, no attempt
  is left, and the analysis fails. `README.md:450` says that answers are validated by
  the same strict contract as they are asked for with.
* `robots_groups`: `parseRobots` skips an `allow` or `disallow` without a value
  (`scraper/robots.go:185`), which therefore ends no group. Trace: an agent line for
  us, an empty `allow`, an agent line for everybody, a `disallow` of the path. The two
  agent lines are read as one group and we keep away, although our group has no
  rule against the path; in six lines it can also let in what our groups keep
  out. `docs/architecture.md:251` says that groups are put together as in RFC 9309,
  where the value may be empty and the rule still ends its group's agent lines.
* `reassess`: `cmd/reassess` scores without the trust level (`cmd/reassess/main.go:138`)
  and `ReapplyAssessment` does not promote. Trace: a scan stores a strong match of a
  trusted source, promoted to `bildirim`; reassess with the same profile writes it
  back as `firsatlar`, where it stays until its next analysis.
  `docs/architecture.md:443` has such listings in `bildirim`, and the comment at
  `store/notification_gate.go:29` wants both gates to agree.

## 4. Fairness

`EveryNotificationSettles` needs (`FairSpec` of `PushOutbox`):

* strong fairness of `Claim`: the dispatcher claims when it starts, before its
  first tick, and at every tick; a shutdown may disable the claim again and again
  but each start enables it;
* weak fairness of dispatching and of recording: the goroutine goes on through
  its batch, and the HTTP client has a timeout;
* weak fairness of `LeaseRunsOut` and `BackoffElapses`: the clock advances;
* weak fairness of `Exit` and `Restart`: the dispatcher returns after its batch,
  and the container's restart policy starts the process again.

None is assumed for registrations, expirations, crashes or shutdowns; crashes
and failed writes are bounded by `MaxFaults`, without which an event may be
retried for ever.

`RunsAreReported` needs weak fairness of `ScanStep` for each trigger
(`AnalysisPipeline`): every call that a scan makes returns, because the HTTP
clients, the analyzers and the database have timeouts. Nobody has to start a
scan, to retry, to cancel or to crash. A run that ended without a report counts
as a fault, so the property says that without one every run is closed.

## 5. Theorems

All of them hold for every value of the constants that satisfies the module's
named assumptions.

**Outbox.** `NotificationSummarisesDeliveries` is not inductive alone: a step that
records an answer must know that the row it writes is one that was claimed.
`OutboxInv` adds the types, `LinkInv` (an active row is linked, a linked row has its
subscription, so the join of the claim finds it) and `BatchInv` (what the
dispatcher holds is `sending`, or was cancelled under it; only what it holds has an
answer). From it follow `SummaryHolds`, `ActiveClaimable`, `SettledRowsStaySettled` and
`NoLateCalls`. For the counts, `CountInvariant` strengthens both bounds: a row that
can still be claimed has an attempt to spare (`AttemptInv`), and a row that can
still be sent was accepted at most once for each fault (`AcceptInv`), which gives
`AttemptsStayBounded` and `DuplicatesBounded`.

`OutboxKeepsPromise` is the refinement: publishing, reaching, giving up and leaving
are the images of `Enqueue`, `RecordSent`, `RecordFailed` and a removed subscription;
every other step stutters. It uses the same invariant, because the summary is
what makes the status column the promise's outcome.

**Opportunities.** `MatchingInv` joins the types, `ListingsAreVisible`,
`ActiveOpportunitiesHaveListings`, `AlertsFollowListings` and `ProgramInv` (what was
registered since the start is active). The argument rests on `TargetCases`: a
listing stays, or leaves an opportunity it was alone in for an active one, or
leaves others behind for an opportunity made active for it. So what a merge
retires is empty, and what a split leaves is not. `NoSecondAlert` then needs
`AlertsFollowListings` after the step: the history that the insert looks at is that
of the opportunity's present listings.

**Pipeline.** `PipelineInv` joins the types (only the holder of the slot scans),
`RowsFit` (processed listings were processed before; pending ones that never were
await a decision), `ScanFits` and `HoldersFit`. `ScanFits` is the account of the scan
under way: each source behind it is in `failed` and in the health table, or in
neither, and each listing found is analysed, still to do, or has put its source
in trouble; the sources behind it are those of the configuration, which
`After` goes through in order (`AfterIsNext`) and `Configure` changes only while no scan
is under way; `CompletedRunsAreComplete` and `ReportsMatchManualChecks` read it when the
report is written. `HoldersFit` says that whoever holds a processed listing held it
before it was processed, which makes `SuccessLostOnlySo` a property of steps.
`RunningRowsAreExplained` counts: a step closes a row, opens one while it takes the
slot, or pays with a fault.

**Access budget.** `AccessInv` adds to the types where a scan may be (`VisitInv`), and
that a recorded refusal is in the table as long as it lasts (`BanInv`): a success
clears the cooldown only of scopes that were open, which are past theirs. This is
what is not obvious, since the clearing comes at the end of the scan, after other
sources and crashes. `IntervalInv` ties the last reservation to the table,
`ReportInv` what was reported to what opens the scope, `RobotsInv` a cached answer to
the moment the site took it back. `CooldownDoublesUpToMaximum`
gives the values of the cooldown: for every number of refusals it lies between
base and maximum, never shrinks, and doubles until it would pass the maximum.

`BudgetKeepsPromise` is the second refinement. The promise knows no sources, tables
or faults: a crash is a `Leave`, a failed write nothing at all, so it says what
a site may expect whatever becomes of the process. That a grant is an `Enter` needs
`IntervalInv` and `BanInv`, because the promise remembers entries and refusals itself
and does not read them in the table.

**Sources.** Each of the three has its own invariant. `FeedInv`: a checkpoint names
an edition all of whose entries are marked, and an entry that is marked has been
handed over, or lost to a fault. `LearnedInv`: a visit works with the newest
version. `BlocksInv`: what was answered is remembered, what was saved is in the
table.

**Assessment.** `PromotionIsTrust` shows that `SavedAssessment` is `Assess` with the
trust level, for every analysis and trust level, from the ranges of the parts of
the score. `TwoGatesAgree` and `OnlyStudentsNotified` follow from it, through
`AssessmentInv`, which says what a scan and what `cmd/reassess` has stored.

**Robots.txt.** `VerdictIsLongestMatchHolds` is about files of any length in which no
rule without a value stands alone between two agent lines; of the others the run
`robots_groups` shows that it does not hold.
`ReadInv` is the invariant of the parser's loop: it says of the lines read so far
which of them are the agents and which the rules of each group (`GroupAt` numbers
the groups by line). `SameGroup` then shows that a rule is for an agent, in the sense
of the definition without a parser, exactly when both are in one group. The
weighing has its own induction: what has been weighed is the best of the rules seen
(`Weighed`), through the groups and the rules in them. `EmptyRulesDoNotMatter` shows
that in the files the theorem is about, rules without a value change nothing.

**Stored instants.** `TextOrderIsTimeOrderHolds` is about any number of digits, nine
included, and any two instants. `TextIsWritten` says which character is at which
place of a text whose trailing zeros were cut off; the first place where two texts
differ decides (`FirstDifferenceDecides`), and it is a digit of the seconds, a digit
of the fraction, or the end of the shorter fraction.

**Model analyzer.** `ContractIsValidated` is violated. What does hold, for every number
of attempts, is `AnalysisFailsOnlySo`: an analysis is given up for a listing without a
title, an error that no repetition cures, a caller that left, or after the last
attempt, and an answer within the contract is refused only for the type
`part_time`.

**Induction over data.** `Recursion` proves induction from the least element of a set
of numbers, so it is about sets and not about predicates, and then that a function
which takes one step for each number exists. A function defined by recursion in
a model is one that satisfies its equation if there is any; the lemmas
`CooldownDefined`, `WeighToDefined`, `AllowedToDefined` and `ReadToReads` show that
there is.

**Backups.** `BackupsInv` says of each snapshot when it was begun and what it holds,
that partial files belong to one runner each, that the list read by `prune` names
published files, and that the registry has no gaps and counts each effect once.
`NewestSnapshotsKept` then is about cardinalities: of the listed names at least
`Retention` follow the smallest, and a name tells its beginning up to how far the
clock was set back. The theorems are about `BackupsSpec`, with snapshots and migrations
interleaved, where the run separates them.

Model-checked only: `EveryNotificationSettles` and `RunsAreReported`, because liveness
under fairness is out of the prover's reach. The violated properties have no
theorem.

## 6. What is left out, and why

Left out of the modelled components:

* Payload, encryption, VAPID keys, the `Retry-After` header of the push service and
  the length of the backoff: no property is about them.
* `failure_count` of subscriptions and the `last_error` columns of deliveries: no
  decision of the modelled components reads them.
* A failed database write at startup ends the process, which is a `Restart`; a
  failed write while serving is rolled back and is no step of `Opportunities`.
* Evidence rows, lifecycle and audit rows of an opportunity: written, never read
  by what is modelled.
* Two requests that register one endpoint at the same moment can both be
  answered as having created the row; the row is the same.
* The order of a retry's batch: any order is allowed.
* Several listings of one opportunity under `cmd/reassess`, and an opportunity that
  is merged between its read and its write: the command writes by the id it read,
  with the analysis of whichever listing comes last. It is run by hand, and the
  next analysis of the listing writes the row again.
* The cron expression: the scheduler may ask for a scan at any moment, which
  covers every expression.
* The parsing of job pages, JSON-LD and the two ATS formats: pure functions of an
  external input, without state.
* The deterministic analyzer, the prompts' wording, token accounting.
* What the SQL of a migration does to the schema.

Not modelled: deployment scripts (what docker and the shell do at an interruption
is outside the code), application tracking and lifecycle (one validated update of
one row each), configuration (validation at startup), dashboard queries (reads),
the web client (the outbox sees its register and unregister requests).

Seen while modelling, besides what the violated runs show:

* A crash, or a report that cannot be written, leaves its `scan_runs` row `running`
  for good; nothing closes it at startup.
* `SaveAnalysisFailure` resets the decision of a listing that was invalidated to
  `karar_bekliyor`, although the comment at `store/reassess.go:169` says that values
  stay until a successful analysis; and in a scan, unlike in a retry, a failing
  `SaveAnalysis` writes no failure, so the listing may have no row and a feed may
  never list it again.
* `manualChecks` goes on listing the error of a source that was disabled: no scan
  clears it, and `RegisterSource` leaves it as it is.
* RSS feeds never start a cooldown on 403 or 429, all other adapters do.
* Two feed entries under one guid displace each other and are handed over at every
  poll that is not answered with 304; relative links are marked as seen although
  `UpsertRawListing` refuses them.
* A crash within a backup leaves its partial file for ever, and a clock set back
  makes newer snapshots the first to be pruned.
* `locationScore` knows only one spelling of an unstated place, `isDomesticLocation`
  both.

## 7. What could come next

1. The composition of `AnalysisPipeline` with `Opportunities` and of `Opportunities`
   with `PushOutbox`, to check that an alert in the one is an event in the other;
   the modules leave each other's answers open, so nothing above depends on it.
2. Reassessment by opportunity, with several listings and a merge between its
   read and its write.
3. Deployment: manifests, lock and rollback target with an interruption between
   any two commands.
4. The cron expression: the search for the next minute against the least minute
   that matches.
