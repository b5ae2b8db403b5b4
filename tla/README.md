# stream-reducer: verification

TLA+ specifications of the hosted edition of stream-reducer (`src/cf`, `src/frontend`), the TLC
configurations that check them on small instances, and TLAPS proofs of every invariant that holds there,
for every instance. Every definition is translated from the TypeScript and SQL; `PROJECT.json` maps each
definition to its lines, and lists the hazards of the code, the runs with their properties, the
mutants that show that each property can fail, the theorems, and the disagreements found between
documents and code.

1. The system · 2. Modules · 3. Runs, bounds and fairness · 4. Proofs · 5. What the code does not
keep · 6. Not modelled · 7. Plan

## 1. The system

stream-reducer turns videos, podcasts and articles into summaries. The hosted edition is a
Cloudflare Worker: request handlers (Hono), queue consumers and a cron trigger, all stateless,
around one D1 (SQLite) database. Long work runs in containers (`cf/pipeline`, `cf/rss`) and on an
LLM gateway. There is a self-hosted edition (`app`, `worker`: FastAPI and one RQ worker) with far
simpler concurrency.

Nothing in the Worker is protected by a lock or a multi-statement transaction. All coordination is
by conditional SQL statements on rows, so the interesting questions are about what happens
*between* two statements. The same pattern occurs everywhere: **a row is the job, a column of it is
the lease, a queue message is a hint, and cron repairs what was lost.**

| Component | State | Operations | Interacts with |
|---|---|---|---|
| Item pipeline (`pipeline/consumer.ts`, `index.ts`, `routes/items.ts`, `routes/admin.ts`) | `item`, `transcript`, `summary`, `chunk`, `user_item`; queues `pipeline`, `item-jobs` | claim next, recover a redelivered message, resummarize, heartbeat, persist, fail or retry, reap, sweep; retry, regenerate, repair, bump | ingest and polling send it messages; starts translations, bulletins, reading summaries |
| Pipeline containers (`pipeline/container.ts`) | the pool of instances, their idle alarms | start or join, defer, fail, release | called by the item pipeline |
| Ingest and priority (`lib/ingest.ts`, `lib/priority.ts`) | `item`, `user_item`, `item_interest` | add a URL to a library, remove it, interest, recount demand, nudge; send an item back, delete it or a user | item pipeline |
| Subscription polling (`pipeline/subscriptions.ts`, `routes/subscriptions.ts`) | `subscription` (queue lease, cursor) | queue a poll, poll, import a batch | ingest; cron |
| Channels (`lib/channels.ts`, `lib/itemChannel.ts`, `routes/adminChannelLink.ts`) | `channel`, `channel_item`, `item_feed`, `subscription` | follow, merge follows, link an item, repair walks | polling, item pipeline |
| Short bulletins (`lib/bulletin*.ts`) | `bulletin_translation`; queue `bulletin-jobs` | enqueue, drain, translate on demand | follows a finished item; cron |
| Bulletin feed (`routes/bulletin.ts`, `lib/rssBulletin.ts`, `pages/Bulletin.tsx`) | two tables; the pages a reader has scrolled to | read a page, refetch all | everything that changes a card |
| Reading summaries (`lib/readingSummary.ts`) | `reading_summary` | enqueue, generate under a lease | follows a finished item |
| Translations and infographics (`pipeline/consumer.ts`, `lib/autoTranslate.ts`, `lib/autoInfographic.ts`) | `item_translation`, `item_infographic`, `summary` | enqueue, run, fail, backfill | messages of the item pipeline |
| RSS reader (`lib/rss*.ts`, `lib/substack.ts`) | `rss_source`, `rss_article`, `rss_alias`, `rss_edition`, `rss_read`; queue `rss-jobs` | poll, backfill, drain articles under a token lease, merge articles | RSS container, cron |
| Research briefs (`routes/research.ts`) | `research_coverage`, `research_agent`, `research_brief` | passes over recent items | cron, users |
| Knowledge graph (`pipeline/graph_build.ts`) | three tables and `graph_cache` | rebuild slice by slice | cron, users |
| Front end (`frontend/src`) | one cache of answers | edits, invalidation, polling | all routes |
| Sign-in, MCP, public pages, audio service, mirror, LLM gateway, self-hosted edition | their own | request/response | read what the others write |

### What is hard

* **Interleaving.** Up to 10 consumers of `item-jobs`, 8 of `pipeline`, 6 of `bulletin-jobs`, plus
  handlers and cron, interleave at every `await`.
* **Delivery.** Queues deliver at least once (5 retries for items, 3 for bulletins, then a
  dead-letter queue), in any order; a redelivered message is treated differently from a first one.
* **Eviction.** An invocation may be killed between any two statements. What it leaves is a lease
  that only ages (20 minutes for items and articles, 10 for sources, 2 for bulletins and reading
  summaries).
* **Budgets.** Attempts are counted at several places (claim, reaper, failure handler) with two
  different limits, `MAX_RETRIES` 5 and `MAX_RECLAIM` 3, and no place sees all of them.
* **Stale reads.** `retry_count`, `source_hash`, `status`, the rows of a merge, the page of a feed
  are read, then used many statements later.

### What makes the components correct

* *Item pipeline*: one run per item; the item of a live run is out of reach of claims, reaper and
  sweep; a done item has a summary and an index that belong together; attempts are bounded; every
  item ends done, failed or excluded.
* *Containers*: no instance holds a slot of the pool for nothing.
* *Ingest*: a library row reflects its item, also one that was sent back; an excluded item is in no
  library; demand is counted.
* *Polling*: the cursor never passes an entry that was not imported; every entry arrives.
* *Channels*: merging loses no follow and no library row; every item gets its channel, and the
  admin's walk over those without one misses none.
* *Bulletins, reading summaries, articles*: one owner per row; what is stored belongs to the text it
  is stored under; no call is paid for twice; every row comes to rest.
* *Translations, infographics*: whatever shows as under way has somebody at work on it; the poster
  comes after the last translation; no picture is paid that nobody asked for.
* *Sources*: a history called complete is complete; a renewed connection is not condemned for its
  old cookie; histories end.
* *Feed, front end*: scrolling skips no card; a page shows an edit in the end.

## 2. Modules

| Module | What it is |
|---|---|
| `SingleFlight` | abstract: jobs held by one agent at a time until they are disturbed, with outcomes that stay |
| `LeasedText` | abstract: texts that a model writes under a lease, each of the source the lease was taken for |
| `ItemPipeline` | the item pipeline, statement by statement; implements `SingleFlight` |
| `ContainerRuns` | the pool of pipeline containers |
| `LibraryIngest` | adding to and leaving libraries, interest, demand |
| `FollowPolling` | the polls of a feed |
| `FollowMerge` | the merging of one user's follows of a channel |
| `ItemChannels` | how items get channels and feed rows, and the admin's repairs |
| `Bulletin` | the bulletin queue, scheduler and translator; implements `LeasedText` |
| `BulletinFeed` | the merged pages of bulletins and the infinite list that shows them |
| `ReadingSummary` | the leased row of a reading summary; implements `LeasedText` |
| `FollowUps` | translations, poster and backfills of an item |
| `RssSources` | polls and histories of a source |
| `RssArticles` | extraction, condensing and editions of an article |
| `RssMerge` | merging of articles by canonical URL |
| `ResearchBriefs` | passes that write briefs |
| `GraphBuild` | rebuilds of the knowledge graph |
| `ApiRoutes`, `PageCache` | what routes read and write; what a page shows after an edit |
| `MCItemPipeline`, `MCBulletin`, `MCRssSources` | symmetry sets and calendars for TLC |
| `MCPolling`, `MCScreens`, `MCLibrary` | compositions checked in one run each |
| `ItemPipelineProofs`, `ItemPipelineRowProofs`, `BulletinProofs`, `ScreenProofs`, `RssSourcesProofs`, `LibraryProofs`, `TableProofs`, `PollingProofs` | theorems |

In all of them **an action is one D1 statement (or one batch) together with the local computation up
to the next one**, or the answer of a service. Consecutive reads without a write in between are one
step. Texts are the version of the source they were made from. There are no clocks: what the code
compares with a cutoff is a flag that says on which side of it a stamp is, and a step that moves it
over. Such a step requires that the holder of a lease is gone where the lease outlives every
invocation (15 minutes), and not where it does not.

### 2.1 ItemPipeline

*State.* `item` holds the columns that control processing: `status`, `started_at` (the lease),
`retry_count`, `progress_updated_at`. `transcript`, `summary` and `chunks` say whether, and by whose
run, the rows were written; `library` is `user_item.personal_status`; `queue` is the messages that
wait; `inv` the local state of every invocation: program point, message, item, the snapshot of
`recoverRetriedProcessItem`, the attempts read by the failure handler. Two histories say what the
lease cannot: `disturbed` are the items that a redelivery took, or a request reset, while an
invocation ran them (`live` in a snapshot says that one did when it was taken); `revivals` counts how
often an item was taken again, or sent back by `repair-summaries`, with its attempts used up.

| Code | Actions |
|---|---|
| `handleMessage` | `Deliver`, `EntryPoint`, `Ack` |
| `reapSilentItems`, `failStrandedItems` | `Reap`, `FailStranded` |
| `claimNextQueuedItem` | `Select`, `Claim` |
| `enqueueNextIfWork`, `hasTranscript` | `Continue`, `Resume` |
| `recoverRetriedProcessItem` | `RecoverRead`, `RecoverClaim` |
| `processItem` (resummarize) | `ResummarizeClaim` |
| progress heartbeat, partial results | `Heartbeat`, `PartialTranscript` |
| `executePipeline` | `RunReturns`, `Fails` |
| `persistResult`, `markItemDone` | `PersistSummary`, `DropChunks`, `AddChunks`, `MarkDone`, `MarkLibrary` |
| `persistExcludedResult` | `MarkExcluded`, `DropLibrary` |
| `handlePipelineFailure` and what it calls | `FailRead`, `FailWrite` |
| eviction, errors outside the try block | `Crash` |
| `scheduled` | `CronSweep`, `CronPump` |
| retry, regenerate, repair-summaries, bump | `Retry`, `Regenerate`, `RepairSummary`, `Nudge` |

*Abstractions.* `aged` and `progress = "old"` say that a time stamp is behind the cutoff, and no
stamp of an item gets there while an invocation holds the item, because an invocation lives at most
15 minutes and the cutoff is 20. A stamp is a value that only equality tells apart; `Now` returns
one that no other invocation has in its snapshot of that item, which is all that `started_at = ?`
can observe. The queues `pipeline` and `item-jobs` are one set: the handler does not tell them
apart. Messages that are equal are one message. The cron's pump message is always there to be
delivered (`CronPump`). The columns that order claims beyond "queued first" are left to choice.
Thumbnails, embeddings, stage metrics, backfill messages, and the comments and highlights that an
exclusion deletes with the library rows, are left out.

### 2.2 Bulletin

*State.* `row` is `bulletin_translation`: `status`, `source_hash`, `updated_at` (stamp and lease),
`attempts`, `next_attempt_at` (the flag `due`), and the texts stored, each represented by the
version of the source it was made from: `intro` (headline, standfirst, overview) and `points`.
`source` is the version of the item's summary and whether the item is done. `wakes` counts
`bulletin_drain` messages. `agent` is the state of the workers and of the requests being served.

| Code | Actions |
|---|---|
| queue consumer | `Deliver`, `Evict` |
| `processNextBulletin` | `Expire`, `Select`, `Wake`, and `LeaveUnclaimed`, `Leave` in the translator |
| `translateBulletinEdition` | `ReadSource`, `ReadRow`, `Claim`, `Answer`, `NoAnswer` |
| `POST /items/:id/bulletin` | `Ask` |
| `enqueueBulletinTranslations` | `Enqueue` |
| `wakeBulletinWorkers` in `scheduled` | `CronWake` |
| regenerate, and the pipeline finishing the item again | `SendBack`, `Resummarised` |
| time | `Age`, `ComeDue` |

*Abstractions.* `Age` needs the agent that claimed the row to be past its model call: the lease is
two minutes, the call is aborted after 55 seconds. An edition is a pair of an item and a language
and a greater number is a newer item. Wake-ups saturate at `MaxWakes`; each one only says "look at
the table". Reading the existing rows and the upsert of `enqueueBulletinTranslations` are one step:
the upsert repeats the test. Rows from before introductions existed (migration 0021) have points, no
introduction and no hash; `OldRows` says which editions may have one.

### 2.3 The other modules

* **`ContainerRuns`.** `pool` are the instances (a key and the `CONTAINER_GEN` that made it), `alarm`
  those whose idle alarm is set, `run` the invocations that read from one. `OpenRun` joins or starts,
  `FinishRun`, `DeferRun` (no capacity) and `FailRun` put the row where `consumer.ts` puts it,
  `ReleaseRun` destroys, or fails to and goes on (`Released`); `Deploy` forgets alarms and may raise
  the generation. `excused` remembers instances whose run was cut off, outdated or removed, or whose
  `destroy()` failed.
* **`LibraryIngest`.** An operation is a request or an import between two statements of
  `addUrlToLibrary`, a removal, or `recomputePriority`. Under it items are taken (`live` counts their
  runs), end, and settle their library rows (`ending`, the gap in `markItemDone`); retry, regenerate
  and the admin's retry and repair send them back (`Reopen`), the admin deletes items (`PurgeItem`)
  and users (`DeleteAccount`, `ForgetAccount`, the first and the last of its statements). Three
  histories: `raced` are items of which something was written that had been read before a change,
  `reopened` those sent back and not ended since, `uncounted` those that lost rows without a count.
* **`FollowPolling`.** One feed, its follows, and the messages `poll`. `lease` is `poll_queued_at`,
  `phase` how long ago `last_checked_at` was, `cursor` `last_seen_guid`. A job reads the follow,
  drops a redundant message, clears the lease, fetches, selects a batch (`selectPollBatch`, with and
  without dates, with metadata look-ups), imports entry by entry and records.
* **`FollowMerge`.** Requests read the follow of a channel and the legacy follows, look addresses up,
  and write the merge in one batch computed from what they read; polls and deletions run meanwhile.
* **`ItemChannels`.** A linker is an ingest, a poll, a run or a repair at work on one item:
  `UpsertChannel`, `LinkChannelItem`, `LinkItemFeed`, `DropDirtyRow`. `walk` is the admin's cursor.
* **`BulletinFeed`.** A page is read by two statements at two moments; the list refetches all pages
  in order while cards appear, vanish and change date.
* **`ReadingSummary`.** A caller reads source and row, claims by an upsert whose time is the lease,
  calls, and writes if the lease is still its own.
* **`FollowUps`.** A slot is a message and later the job it has become; no job has a lease. A row
  that is queued and the message sent next are one step with failure and eviction as outcomes. `native`
  are the languages the source is found to be in, which the queueing passes over; only a Chinese
  edition of a Chinese source is withdrawn later (`AlreadyChinese`).
* **`RssSources`.** `kind` says how pages come (Folo, Substack, feed). Claim, fetch a page, persist,
  record under the lease; the boundary of a history is the date of the oldest post of a page. The
  lease may end while its holder runs.
* **`RssArticles`.** Claim, extract or take the saved text, condense a few sections per drain, write
  an edition per language, release. `seed` is the snapshot in R2, `copies` the editions that are
  copies of the original.
* **`RssMerge`.** A drain that finds a canonical URL looks up, aliases, follows the chain and moves
  sources, aliases and marks; the row stays as a tombstone. Two invocations overlap (`Hands`);
  `crossed` are the ids that a merge led to an article which another had merged meanwhile, and those
  whose mark a page set on one.
* **`ResearchBriefs`.** A pass reads items once, assignments when it comes to a user, looks for a
  brief and inserts it under a unique and a foreign key.
* **`GraphBuild`.** Clear three tables, fill them row by row, write the cache last; chunks are added,
  embedded and deleted meanwhile. Two histories: `begun` is the builder that alone has written the
  tables since it began to empty them, `mixed` says that builds overlapped, or one was given up half
  way, since the tables were last those of the cache.
* **`ApiRoutes`, `PageCache`.** A fact is what a table, or a group of columns, says. A route reads and
  writes facts. A page, and a component that several pages are made of (`AddDialog`, `CardEdits`,
  `SourceDiscovery`, ...), is a record of the entries of the cache it shows and of its edits; an edit
  calls routes, marks keys, and may put an answer into the cache or leave the page. `Init` chooses one
  entry of one page and one edit of one page among all there are; the steps are those of the library
  that keeps the cache: visits, requests, answers, polls, scrolling, and the edit itself.

### 2.4 Composition

`MCPolling`, `MCScreens` and `MCLibrary` compose modules whose actions write no row in common;
`focus` says which one moves. Interleaving the steps of two such modules shows nothing that one of
them alone does not: a step of one commutes with every step of the other and no property reads the
variables of both. Where modules do meet, the module says how the other side is seen: the pipeline
ending an item is the action `EndItem` of `LibraryIngest` and `FinishRun` of `ItemChannels`, the
import of an entry is one step of `FollowPolling`, a run of the container is one step with three
results in `ItemPipeline`. `ItemPipeline` and `SingleFlight`, and
`Bulletin` and `ReadingSummary` with `LeasedText`, are connected by refinement.

## 3. Runs, bounds and fairness

| Run | Question | Result |
|---|---|---|
| `runner` | with redelivery and requests of every kind, do leases keep one run per item that nothing disturbed (`OneRunner`) and keep it out of reach (`RunnerHoldsLease`), is the index consistent (`IndexMatchesSummary`), and does the pipeline implement `SingleFlight`? | holds |
| `settles` | does every item end, with single delivery, after an eviction or a request that sends it back (`Settles`), and do done items have summaries (`DoneIsSummarised`)? | holds |
| `givesup` | is an item whose every run fails given up for good, with redelivery (`GivesUp`), and are the attempts it counts bounded (`RetryBudget`)? | holds |
| `drain` | bulletins: one translator (`OneTranslator`), no repeats (`NeverTwice`), introductions match their hash (`IntroMatchesHash`), bounded attempts (`AttemptBudget`), every row ends (`Settles`) | holds |
| `polls` | polls: `CursorPassesNothing`, `ArrivesOn`; channels: `AttributionKept`, `WalkFindsAll`; research: `BriefsCatchUpOn` | holds |
| `sources` | sources: `HistoryIsComplete`, `FreshCredentials`, `HistoryEnds` | holds |
| `screens` | translations and poster: `WantedIsCarried`, `PaidAccounted`, `PosterComesOn`; feed: `NothingSkipped`, `FeedSettlesOn`; article: `DoneIsCurrent`, `OneDrain`, `ArticleSettlesOn`, `AskedArrives` | holds |
| `library` | libraries: `LibraryReflects`, `DemandCounted`; follows: `FollowKept`, `ShelfKept`; merged articles: `SavedMoves`; reading summaries: `BriefOfSource`, `AskedOnce`; graph: `WholeWhenFresh`; pages: `EditsShown`; containers: `StraysExcused` | holds |
| `stolen` | is there one run per item with redelivery? | **no** |
| `points` | do the points of a finished bulletin belong to its source? | **no** |
| `asked` | is an edition written that a page asks for? | **no** |
| `paused` | does a paused history stay paused? | **no** |

Every property has a mutant in `PROJECT.json`: an action changed the way a plausible bug would,
defined next to the action it changes, that makes TLC find the property violated in the same run.

### The four violations

* **`stolen`** A message that failed once is redelivered while another invocation has claimed its
  item. `recoverRetriedProcessItem` (`consumer.ts:219`) takes the row from the live invocation,
  because it checks that the row is as it was read a moment ago, and not whether anybody holds it.
  Both then process the item.
* **`points`** A claim writes the new `source_hash` before the model is called. If the call fails,
  the next attempt takes the points of the old source for those of the new one and keeps them.
* **`asked`** Opening a finished article in a language that no follower prefers sends it back, but
  the drain writes only the preferred languages: the article goes round at every view of the page.
* **`paused`** A page of a history that was being fetched when the admin paused the history stores
  the state it derived before, and takes the history out of its pause.

### Bounds, and why they are enough

*Actors.* Two invocations (workers, polls, drains, builders' deliveries) compete for one row: each
conditional statement is a race between the one that executes it and one other. A third appears
where it is of another kind (a reader next to two bulletin workers; three callers of a reading
summary; three slots of follow-up messages, so that two translations and a poster are under way). The
proofs cover every number.

*Rows.* One item, edition, source or article where rows do not interact (in `runner` too: claims,
sweeps and messages reach a row by its own columns, and `stolen` has the case in which two items
matter); two items in `stolen`,
where a message must be picked up by an invocation that prefers another item; two addresses of one
video and two users in `library`, since an address may turn out to be a second one of a video that
is there; three follow rows, two of them legacy, since a merge removes one into another while the
third may be created; three articles, so that an alias chain has a middle; four posts on pages of
two with two dates, so that a page boundary falls between posts of equal dates; two cards of each
kind on pages of one; two chunks with two rows in each table, so that a table is half filled and the
fingerprint can change in each of its three numbers.

*Limits.* `MaxRetries` 2 and `MaxReclaim` 1 keep the order of the real 5 and 3 and leave room for an
attempt before each; `MaxAttempts` 2 stands for 3, `MaxCollisions` 1 for 8 (both ways out of the
loop remain), `MaxNew` 1 and `BatchLimit` 1 make every batch stop early, `MaxInstances` 2 makes the
pool full. `MaxDeliveries` 1 means that each message is delivered once (`settles`); 2 and 3 add
redelivery, and a message that has been redelivered once is handled like one redelivered again.
`MaxRetries` of `ContainerRuns` is 1: a failure is final there, and rows go back to waiting by
`DeferRun` and `Reap` (the proof has every number).

*Faults and requests.* `MaxFaults`, `MaxBreaks`, `MaxEvictions`, `MaxUpsets`, `MaxRequests` bound how
often things go wrong or people ask: 1 to 3, so that a fault can hit the recovery from another where
recovery is the point. Two versions of a source are one change of it. Stamps suffice for every agent
to hold a different one.

*Exceptions are states, not bounds.* Where the code does nothing against an order of steps, the module
lets it happen and a history variable names what it hit: `disturbed` and `revivals` of
`ItemPipeline`, `raced`, `reopened` and `uncounted` of `LibraryIngest`, `crossed` of `RssMerge`,
`mixed` of `GraphBuild`, `excused` of `ContainerRuns`, `lost` of `FollowUps`, `cut` of `PageCache`.
Everything else in those runs is still checked, and section 5 says what happens to what they hit.
`SlowQueue = FALSE` is a bound that hides something: it lets no poll message wait longer than its
lease on the queue.

`SYMMETRY` is used where a run checks only invariants and properties of steps: of workers in `points`
and in `runner` (`ImplementsSingleFlight` has no fairness, and neither module tells workers apart), of
users and of operations in `library`. `CHECK_DEADLOCK FALSE`
stands where requests and faults are bounded and the part that moves may come to rest.

### Fairness

Liveness is checked under weak fairness of: delivery of messages and the steps of an invocation (it
goes on or is evicted; evictions are bounded); time (leases age, `next_attempt_at` and sources come
due); the cron, which runs every 15 minutes and depends on nothing else; and the end of calls
that have a timeout. `TakeBackfill` of `RssSources` is strongly fair: a backfill message comes at
every tick, and polls of the same source take its lease in between. In `ItemPipeline` a broken item's
run is fair to fail. Heartbeats, faults, requests and scrolling have none. Because these conditions do
not force one particular message to be redelivered, `settles` is checked with single delivery: cron
and the stale cutoff alone must bring every item to its end.

## 4. Proofs

Every theorem holds for arbitrary sets of items, invocations, rows, workers, users, entries and
stamps, and for arbitrary bounds, including those on faults and requests. What is assumed of
constants are the `ASSUME`s of the modules (sets are finite where they are counted, ids are numbers,
null values are not members); TLC evaluates them in every run. Two say something about the world:
`StampAssumption` of `Bulletin` (there is always a time stamp that no agent compares with, which is
what the millisecond clock provides) and the order of publication dates in `RssSourceAssumption`.

The shape is the same everywhere: types alone are seldom inductive, so a `...Typed` part adds that a
program point that uses a row has one; then what an agent *between two statements* may rely on; then
the property. Where a guess was in doubt, TLC checked it as an invariant on the instance of the run
before it was proved.

`ItemPipelineProofs`, `ItemPipelineRowProofs`. Any number of redeliveries, and every kind of request
at any time. What they promise of an item ends when it is disturbed, which `stolen` shows to happen.
* `TypeCorrect`: `[]TypeOK`.
* `DoneAlwaysSummarised`: `[]DoneIsSummarised`, disturbed or not. `SummaryInv` adds that an
  invocation past `PersistSummary` works on an item with a summary, which lasts because summaries
  are never deleted.
* `OneRunnerByLease`, `RunnerHoldsLeaseAlways`: `[]OneRunner`, `[]RunnerHoldsLease`. `LeaseInv`: types;
  invocations between items name none (`NoneChosen`); the row of an undisturbed run is held, in
  progress under a lease that has not aged, until its last write (`RunnersHold`); `OneRunner`; and a
  run that began after a redelivery read the row has stamped it anew (`Noticed`), so that the
  redelivery's optimistic lease misses. `RunnersHold` and `OneRunner` need each other: a claim
  succeeds only on a row that is not leased or has aged, so no run holds it.
* `RetryBudgetAlways`: `[]RetryBudget`. `BudgetInv` adds that a row that is leased or queued counts at
  most `MaxRetries`, and one more for each revival: claims, the reaper and the failure handler count
  from there. What redeliveries, `repair-summaries` and requests write is `TakenAgain` and `Requested`
  of `RowStep`, which says of every step how it may change a row.
* `IndexAlwaysMatchesSummary`: `[]IndexMatchesSummary`. `IndexInv` follows `persistResult` statement by
  statement: whose summary it is, when the chunks are gone, when they are whose; and that whoever runs
  a finished item has only its library rows left to write.
* `PipelineImplementsSingleFlight`: `Spec => ImplementsSingleFlight`, initial states to initial states
  and each step to a step of `SingleFlight` or a stutter (`Flight` names the abstract step). To take a
  row of a live run, or to reset it, is `Disturb`, after which the abstract job promises nothing.

`BulletinProofs`
* `BulletinTypeCorrect`: `[]TypeOK`.
* `OneTranslatorByLease`: `[]OneTranslator`. By induction with it, a row being translated is
  `processing` and has not aged (`LeaseHeld`), so the upsert of another agent does not change it.
* `IntroAlwaysMatchesHash`: `[]IntroMatchesHash`. Inductive with types: the statement that finishes a
  row tests `source_hash` against the source that was translated.
* `NeverTwiceAlways`: `NeverTwice`, an action property. `Fresh` says that an agent that still finds
  the row as it read it, by status and `updated_at`, does not find it finished for its source; it
  holds because whoever finishes a row gives it a stamp nobody else has read.
* `BulletinImplementsLeasedText`: `Spec => ImplementsLeasedText`. A lease is an agent that has a row
  translated, for the version in its hands; the text is the introduction stored. That a claim finds no
  other lease is `OneTranslator`, and a text is stored under the lease and for its version because the
  last statement tests `source_hash` and `LeaseHeld` holds. It does not hold of the points (`points`).
* `AttemptsWithinBudget`: `[]AttemptBudget`. `BudgetInv` counts, next to the attempts of a row, the
  agents that will still claim it (`OnWay`): each claim takes one of them away. A worker that selects a
  row finds fewer than `MaxAttempts`, and from then on at most the other workers and readers follow.
  Agents are counted, so `Workers` and `Readers` are assumed to be finite.

`TableProofs` (`ReadingSummary`, `FollowMerge`, `RssMerge` and `GraphBuild`)
* `BriefAlwaysOfSource`: `[]BriefOfSource` (`ContentOfRow`: what a row holds was made from the version
  it names, and a caller with the lease works on that version).
* `AskedOnceAlways`: `[]AskedOnce` (`OneCall`: whoever calls the model holds the last lease written,
  and the clock of leases only grows).
* `ReadingTypeCorrect`: `[]ReadingTypeOK`, and `ReadingImplementsLeasedText`. Here a running lease may be
  taken for another source (`TakesOver`): the later claim has another hash, and the caller that lost
  the row finds a lease that is not its own and stores nothing.
* `FollowAlwaysKept`: `[]FollowKept`, and `ShelfAlwaysKept`: `ShelfKept`, an action property.
  `FollowInv`: a row that a request has read was born (`ReadBorn`), a deleted one stays gone
  (`DroppedGone`). A merge keeps the lowest row there is *when it writes*, whatever it had read.
* `SavedAlwaysMoves`: `[]SavedMoves`, for any number of invocations that overlap. An alias leads to an
  article that has an alias itself, and that is not merged unless merges have crossed (`Leads`);
  whatever an entry or a source means, and whatever was saved, has an alias (`Aliased`); what an
  invocation has read between its statements still holds, or was merged (`HandHolds`), and no two
  drains hold one article (`LeasesApart`). A merge redirects every alias of the tombstone at once, so
  chains never get longer than one.
* `MergeTypeCorrect`: `[]MergeTypeOK`. `MergeTyped` adds that aliases lead to
  articles with a row, and that a drain past `MakeAlias` finds the alias it has made (`HandFits`).
* `WholeAlwaysWhenFresh`: `[]WholeWhenFresh`, for any number of builders, and chunks that are deleted.
  `GraphInv` says row by row what the tables hold between two statements of a build that writes them
  alone, and that such a builder, cut off, comes back and does not stop at the fingerprint (`Owns`):
  while no chunk has been deleted, chunks only grow (`Ordered`), and a set of chunks with the number
  of a larger one is that one (`FingerprintTells`). Tables that nobody has begun to empty are those of
  the cache unless builds were mixed.

`ScreenProofs` (`RssArticles`, `FollowUps` and `BulletinFeed`)
* `ArticlesTypeCorrect`: `[]ArticlesTypeOK`.
* `DoneAlwaysCurrent`: `[]DoneIsCurrent`, and `OneDrainAlways`: `[]OneDrain`. `Kept` says that the
  drain that works on the article is the one its row names (`HolderWorks`) and that it works on the
  text that is saved (`WorksOnSaved`); an upgrade that replaces the text takes the lease away.
* `FollowUpsTypeCorrect`: `[]FollowUpsTypeOK`.
* `WantedAlwaysCarried`: `[]WantedIsCarried`. `Carried` counts anybody whose kind is that of the row,
  which is not inductive: a poster job that has stored its picture is still there, but will not write
  the row again. `CarryInv` counts only messages that wait and jobs before their last write
  (`Working`), and each step leaves a row finished, given up, with such a job, or as it was (`Handled`).
* `PaidAlwaysAccounted`: `[]PaidAccounted`. `PaidInv` counts, next to the pictures paid, the jobs and
  requests that will pay for one unless they are stopped (`Painters`) and the picture that an item
  without a row may still get: their sum is at most one more than the requests, and no row is in
  error, as long as nothing has failed.
* `FeedTypeCorrect`: `[]FeedTypeOK`, and `NeverSkips`: `[]NothingSkipped`. Keys of cards are in a total
  order, and a page is the first `n` of what lies behind its cursor. `CoverInv`: a steady card is on
  the pages or lies ahead of the last of them, which says that there is more (`Covers`), for the pages
  shown and those of a refetch; and the tables that have been read for the next page gave every such
  card, or a page of others before it (`Gathers`).

`LibraryProofs` (`LibraryIngest`, `ContainerRuns` and `PageCache`)
* `IngestTypeCorrect`: `[]IngestTypeOK`; `ContainersTypeCorrect`: `[]ContainersTypeOK`.
* `LibraryAlwaysReflects`: `[]LibraryReflects`. `ReflectInv`: types; what an operation has read still
  holds unless it was told otherwise (`ReadsHold`); and, row by row (`RowHolds`), a row that does not
  say how its item stands has a run that has ended the item and is still to settle its rows, or is of
  an item that was sent back since. Two runs of one item may end it one after the other, and
  differently.
* `DemandAlwaysCounted`: `[]DemandCounted`. `DemandInv`: the counts an operation holds are right
  unless outdated (`CountHolds`), and an item whose stored counts are wrong has an operation that
  will count again (`Counting`), was raced, or has lost rows that count nothing.
* `StraysAlwaysExcused`: `[]StraysExcused`. `PoolInv`: every instance is attended by a run, a job or
  an alarm (`Attended`), jobs of translations and posters have one run (`SideAlone`), and what an
  outdated run leaves is excused (`OutdatedExcused`). A release that fails makes an instance excused
  that nobody attends.

* `EditsAlwaysShown`: `[]EditsShown`. `PageInv` has three parts. `EntryShaped`: a page in view without a
  request has an answer or a stale entry. `EditKnown`: an edit of the page that shows the entry, and
  stays there, marks it or puts its answer. This is what the code of the pages has to provide, and the
  long part of the proof: for each component and page, every edit of its own that changes what one of
  its lists shows marks that list (`KeepsItsLists`; `PagesKeep` puts them together). `Followed`: once
  the edit has settled, what the entry holds, or is being sent, is the new answer, or the entry is
  stale, unless the mark was lost (`cut`). The steps need these parts and not which page it is.

`PollingProofs` (`FollowPolling`, `ItemChannels` and `ResearchBriefs`)
* `PollingTypeCorrect`: `[]TypeOK`, which includes that a follow that is gone is not written again.
* `CursorAlwaysPassesNothing`: `[]CursorPassesNothing`. `CursorInv`: in a dated feed, what a follow
  wants up to its cursor is imported (`CursorsCovered`), and so is, or is in its batch, what a poll
  has already passed (`JobsCovered`, by program point in `WorkCovered`). Overlapping polls write
  cursors out of order; each is covered by itself. That `selectPollBatch` takes the first of what
  is new is the lemma `BatchIsFirst`, on finite sets of numbers.
* `AttributionAlwaysKept`: `[]AttributionKept`. `LinkedFirst`: a linker past its link works on an item
  that has a channel; no step takes a channel away (`ChannelsStay`).
* `WalkAlwaysFindsAll`: `[]WalkFindsAll`. `WalkInv`: of the items that were there and have no channel,
  those behind the cursor are reported, and those of the batch under way are reported, left to do or
  under repair (`Accounted`).
* `ChannelsTypeCorrect`: `[]ChannelsTypeOK`, from the same invariant.
* `ResearchTypeCorrect`: `[]ResearchTypeOK`, and `BriefsAlwaysGrounded`: `[]BriefsGrounded` (a brief is of
  an assignment and a finished item that are there). `PassPlanned`: plans are of assignments that were
  added and items that were finished, and a pass inserts what it has planned; a plan may name
  what has been deleted since, which the keys of the insert refuse. `FirstOfPlan` says that the
  newest item and its first assignment exist.

`RssSourcesProofs`
* `HistoryAlwaysComplete`: `[]HistoryIsComplete`. `HistoryInv`: what lies before the stored cursor is
  persisted (`Passed`); what is stored together with the posts of a page reaches to the page's cursor
  without a gap, ties of dates included (`Reaches`), and still does when the page is recorded (`Sound`),
  although other polls record theirs and posts are published meanwhile.
* `CredentialsAlwaysFresh`: `FreshCredentials`, an action property: a verdict on a connection ends a
  call, and tests that the revision the call was made with is the one in the row (`Founded`).

### Checked by TLC only

* Liveness (`Settles` of both modules, `GivesUp`, `ArrivesOn`, `BriefsCatchUpOn`, `HistoryEnds`,
  `PosterComesOn`, `FeedSettlesOn`, `ArticleSettlesOn`, `AskedArrives`): out of the prover's reach.
* `SingleRunner`, `PointsMatchHash`, `AskedArrives` and `PauseHolds` of the four violations do not hold
  and have no theorem. No theorem has a premise beyond the assumptions on constants.
* Type invariants of `GraphBuild` and `RssSources`, and that of `FollowMerge` beyond the part in
  `FollowInv`, were checked on the instances of the runs and are listed in no run. So were
  `BriefsGrounded` and both refinements of `LeasedText` before they were proved.

## 5. What the code does not keep

Beyond the four runs, statements of documents or comments that were found not to hold while
modelling; each is left out of the properties above, or excepted by name.

*Item pipeline.* A redelivery that read or took the row of a live run, and a request that reset it,
let two runs overlap; of such an item (`disturbed`) nothing is promised: its index may mix two runs,
and a late heartbeat or `markItemDone` may overwrite a later state. The redelivery path also revives
an item that was given up (`consumer.ts:84`), and neither it nor `repair-summaries` looks at
`retry_count`, so that each may pass the budget by one. A capacity error leaves `retry_count` alone,
but the claim that follows counts when the item already has a transcript (`:809`, `:840`). An
eviction between marking an item excluded and deleting its library rows leaves them (`:683`), and
one between the two statements of `markItemDone` (`:785`) leaves rows that wait for good.
`repair-summaries` leaves `started_at` set, so its message does not take the row (`admin.ts:200`);
the reaper does later, as `settles` shows. Adding a URL whose item has failed sends a message that
the first delivery ignores (`ingest.ts:270`).

*Libraries.* Retry, regenerate, the admin's retry and `repair-summaries` send an item back and leave
`personal_status` alone (`items.ts:484-523`, `admin.ts:169`, `:200`): its rows go on saying `done`
while it waits, fails or runs (`reopened`). The deletion of a user (`admin.ts:116`) and an exclusion
(`consumer.ts:690`) take library rows, and interest, without counting the demand of the items again,
which stays too high until the next operation on the item counts it (`uncounted`); so does one of
two operations that overlapped (`raced`).

*Containers.* `releaseContainerKey` logs a `destroy()` that fails and its callers go on
(`container.ts:193-199`): the instance of a job that is over stays until its alarm, and for good if a
deploy loses that. A release after the row was put back may destroy the next run's instance. An eviction
between a done item and its release, followed by a reset, a deploy with a new `CONTAINER_GEN`, and an
outdated run that ends an item each leave an instance that only the operator's `release_containers`
removes; failures other than capacity keep the instance (`consumer.ts:811-815`). `shard.ts` speaks
of a concurrency of 6; `wrangler.jsonc` has 10 and 8.

*Polling, channels.* In a feed without dates the cursor jumps to the newest entry although an import
may have failed (`subscriptions.ts:360`). "An item can never end up with a feed row but no channel"
(`itemChannel.ts:5`) does not hold for polls of legacy follows, nor for items of RSS feeds.

*Follow-ups.* A headline backfill that read the summary before a regeneration writes fields of the
old text (`consumer.ts:436`; `SummaryIsWhole` of `FollowUps` states it, and does not hold). The
poster waits for every language its public collection requires (`autoInfographic.ts:33-46`), but
`enqueueTranslationLanguages` passes over the language the source is in (`autoTranslate.ts:56-57`),
and only public collections are queued for: with such a requirement the poster does not come by
itself (`Unqueued`). A failed enqueue of a translation or of the poster is logged and not tried
again (`consumer.ts:725`, `lost`).

*RSS, graph, research, admin.* A page opened before a merge saves the tombstone, and a merge whose
target was itself merged after it was read leads ids to a tombstone (`crossed`; `rss.ts:701-744`). Nothing
keeps two graph builds apart, and one that is evicted at its last delivery, or whose chunks are
deleted before it comes back, leaves half a graph under a cache that may look fresh (`mixed`;
`graph_build.ts:172`), until a build runs alone. The limit of questions is
tested before the insert, and compares a timestamp with `T` to one without, so that a day's window is
24 to 48 hours. Items beyond the newest 200, or older than 14 days, never get briefs. "The last admin"
is tested before the update (`admin.ts:100-112`).

*Front end.* `main.tsx:64-66` says that edits stay immediate (`EditsImmediate` of `PageCache`, in no
run). They do not where the page does not mark what it changes: comments in the item page
(annotations), the dialog that adds items (items of a channel, tracks of a collection), removal in
the item page (the item), saving in the bulletin page (queue, item), archiving in the library
(timeline, browse). Scrolling during a refetch loses its result, and an answer that
`prepareBulletin` puts into the cache may be overwritten by an older fetch. On the page of
the Substack sources, following a publication in the search panel above the directory
(`SourceDiscovery.tsx:66-73`) marks the RSS sources and not the directory below, which goes on
offering it as not followed; the directory's own button marks both. On the page that discovers
channels, a follow in the preview of a channel marks the lists of channels
(`ChannelFollowControls.tsx:21-28`) and not the list of search results beside it
(`SourceDiscovery.tsx:42-47`), which shows `following` and is not polled. `EditsShown` requires of an
edit what its own component promises, and so leaves out these two (`OfPanel`); what it does say holds:
a page shows an edit once the edit has settled, or the stale time or the next refetch has passed.

## 6. Not modelled, and why

* *Sign-in, OAuth, MCP*: request/response; the protocol state is kept by a library.
* *Public pages, SEO, search ranking, statistics*: queries and rendering over rows that others write.
* *The containers' insides, LLM gateway, feed sharding, Bilibili credentials*: stateless with respect
  to D1, or calls to third parties; a call is one step with its outcomes.
* *Audio service, mirror, self-hosted edition, operations*: separate programs; the self-hosted edition
  runs one job at a time.
* *Layout, forms, texts, weights of the priority, titles, pictures, folders of sources, OPML*: data that
  no property tells apart.

The map covers about two fifths of the implementation's lines. What it leaves out is mostly the
presentation in `frontend/src` (layout, the reader, `api.ts`'s types), SEO and the container client's
transport.

## 7. Plan

1. The graph as one atomic rebuild, and a follow as a set of addresses, as abstract specifications.
2. The audio service's table of jobs, and the transport of the container client.
