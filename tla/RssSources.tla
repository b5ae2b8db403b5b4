----------------------------- MODULE RssSources -----------------------------
(***************************************************************************)
(* How a source of the reader is polled and its history fetched:           *)
(* cf/worker/src/lib/rss.ts (followRss, pollRss, persistEntries, wakeRss),   *)
(* with the requests of routes/rss.ts and the Substack connections of       *)
(* lib/substack.ts and routes/substack.ts.                                  *)
(*                                                                         *)
(* The cron sends a poll for a source that is due, and a backfill while its  *)
(* history is not through.  Either claims the source by a conditional       *)
(* update that is its lease, fetches a page, persists its entries and then  *)
(* records the outcome, in a statement that the lease guards.  A backfill    *)
(* moves the cursor of the history, and so does the first poll of a source. *)
(*                                                                         *)
(* One source is modelled.  Its posts are numbered from the oldest and have  *)
(* dates, perhaps equal ones; date 0 is before backfill_since.  One step is *)
(* one D1 statement, one answer of the container, or the persisting of a    *)
(* page.  The lease (10 minutes) may end while its holder still runs.        *)
(***************************************************************************)
EXTENDS Naturals, FiniteSets, FiniteSetsExt

CONSTANTS
  Pollers,           \* concurrent invocations of pollRss
  Posts,             \* posts of the source, 1 .. n
  Archive,           \* those that exist when the source is followed
  PageSize,
  MaxDate,
  Calendars,         \* publication dates the posts may have
  MaxSourceFaults,   \* bound: evictions, failures, capacity errors, lost leases
  MaxSourceRequests, \* bound: requests of readers and admins
  NoPoller

ASSUME RssSourceAssumption ==
  /\ NoPoller \notin Pollers
  /\ Posts \subseteq Nat \ {0} /\ IsFiniteSet(Posts)
  /\ Archive \subseteq Posts /\ \A p \in Archive : \A q \in Posts \ Archive : p < q
  /\ PageSize \in Nat \ {0} /\ MaxDate \in Nat
  /\ Calendars \subseteq [Posts -> 0 .. MaxDate]
  /\ \A f \in Calendars : \A p, q \in Posts : p < q => f[p] <= f[q]
  /\ MaxSourceFaults \in Nat /\ MaxSourceRequests \in Nat

VARIABLES
  kind,        \* where pages come from: Folo, Substack, or the feed alone
  publishedAt, \* publication date of every post
  posts,       \* those that are published
  source,      \* rss_source
  persisted,   \* posts whose snapshot and link are stored
  followed,    \* whether somebody follows the source
  connection,  \* substack_connection
  polls,       \* messages rss_poll waiting: "poll", "backfill"
  poller,      \* state of every invocation
  sourceFaults, sourceRequests

sourceVars == <<kind, publishedAt, posts, source, persisted, followed, connection, polls,
                poller, sourceFaults, sourceRequests>>

-----------------------------------------------------------------------------
(* Rows, pages and invocations *)

None == MaxDate + 1
\* A date for Folo, an offset for Substack; 0 or None: from the newest post.
Cursors == 0 .. (MaxDate + 1 + Cardinality(Posts) + PageSize)

History == {"pending", "running", "complete", "gap", "paused"}

Page == [posts: SUBSET Posts, cursor: Cursors, more: BOOLEAN, complete: BOOLEAN]
NoPage == [posts |-> {}, cursor |-> 0, more |-> FALSE, complete |-> FALSE]

Poller == [pc: {"idle", "fetch", "persist", "record"}, backfill: BOOLEAN,
           first: BOOLEAN, cursor: Cursors, revision: Nat, page: Page]
Resting == [pc |-> "idle", backfill |-> FALSE, first |-> FALSE, cursor |-> 0,
            revision |-> 0, page |-> NoPage]

AtPoll(g, point) == poller[g].pc = point
Goes(g, state) == poller' = [poller EXCEPT ![g] = state]
Rests(g) == Goes(g, Resting)

SourceFault == sourceFaults < MaxSourceFaults /\ sourceFaults' = sourceFaults + 1
SourceRequest == /\ sourceRequests < MaxSourceRequests
                 /\ sourceRequests' = sourceRequests + 1

\* Writes after the claim are conditional on lease_token.
Recorded(g, row) ==
  source' = IF source.holder = g THEN [row EXCEPT !.holder = NoPoller, !.due = FALSE] ELSE source

\* The newest n of S.
Newest(n, S) == {p \in S : Cardinality({q \in S : q > p}) < n}

\* A page of Folo: entries no newer than the cursor.  There is a next one if the
\* page is full and does not reach back to backfill_since.
FoloPage(cursor) ==
  LET rows == Newest(PageSize, {p \in posts : cursor = None \/ publishedAt[p] <= cursor})
      oldest == Min({publishedAt[p] : p \in rows})
      reached == rows # {} /\ oldest = 0
      more == Cardinality(rows) >= PageSize /\ ~reached
  IN [posts |-> {p \in rows : publishedAt[p] > 0}, cursor |-> IF more THEN oldest ELSE None,
      more |-> more, complete |-> reached]

\* A page of Substack, by its offset in the archive.
SubstackPage(offset) ==
  LET rows == Newest(PageSize, posts \ Newest(offset, posts))
      reached == \E p \in rows : publishedAt[p] = 0
      more == Cardinality(rows) >= PageSize /\ ~reached
  IN [posts |-> {p \in rows : publishedAt[p] > 0}, cursor |-> IF more THEN offset + Cardinality(rows) ELSE 0,
      more |-> more, complete |-> TRUE]

\* What the feed itself shows, without a way to older posts.
FeedPage ==
  [posts |-> {p \in Newest(PageSize, posts) : publishedAt[p] > 0}, cursor |-> None,
   more |-> FALSE, complete |-> FALSE]

Start == IF kind = "substack" THEN 0 ELSE None

-----------------------------------------------------------------------------
(* The cron: wakeRss *)

Connected == kind # "substack" \/ connection.status = "active"

WakeRss ==
  /\ source.due /\ followed /\ Connected
  /\ polls' = polls \cup (IF source.holder = NoPoller THEN {"poll"} ELSE {})
                    \cup (IF source.history \in {"pending", "running"} THEN {"backfill"} ELSE {})
  /\ polls' # polls
  /\ UNCHANGED <<kind, publishedAt, posts, source, persisted, followed, connection, poller,
                 sourceFaults, sourceRequests>>

-----------------------------------------------------------------------------
(* A poll: pollRss *)

\* Mutant: the lease is not looked at.
CanPollAlways(message) ==
  /\ followed /\ Connected
  /\ message = "backfill" => source.history \in {"pending", "running"}

CanPoll(message) ==
  /\ source.holder = NoPoller /\ followed /\ Connected
  /\ message = "backfill" => source.history \in {"pending", "running"}

\* A message is delivered: the source is claimed, or the message dropped.
Take(g, message) ==
  /\ AtPoll(g, "idle") /\ message \in polls
  /\ polls' = polls \ {message}
  /\ IF CanPoll(message)
     THEN /\ source' = [source EXCEPT !.holder = g]
          /\ Goes(g, [Resting EXCEPT !.pc = "fetch", !.backfill = message = "backfill",
                        !.first = source.history = "pending",
                        !.cursor = IF message = "backfill" THEN source.cursor ELSE Start,
                        !.revision = connection.revision])
     ELSE UNCHANGED <<source, poller>>
  /\ UNCHANGED <<kind, publishedAt, posts, persisted, followed, connection,
                 sourceFaults, sourceRequests>>

\* Mutant: for whatever credentials there are now.
VerdictAnyway(g, status) ==
  connection' = IF kind = "substack" THEN [connection EXCEPT !.status = status] ELSE connection

\* substackCall and getSubstackConnection: what a call finds out is recorded for
\* the credentials it was made with.
Verdict(g, status) ==
  connection' = IF kind = "substack" /\ connection.revision = poller[g].revision
                THEN [connection EXCEPT !.status = status] ELSE connection

\* The page arrives.  Without an answer from Folo the feed stands in.
Fetch(g) ==
  LET cursor == poller[g].cursor IN
  /\ AtPoll(g, "fetch")
  /\ \/ kind = "folo" /\ Goes(g, [poller[g] EXCEPT !.pc = "persist", !.page = FoloPage(cursor)])
        /\ UNCHANGED sourceFaults
     \/ /\ kind = "substack"
        /\ Goes(g, [poller[g] EXCEPT !.pc = "persist", !.page = SubstackPage(cursor)])
        /\ UNCHANGED sourceFaults
     \/ /\ kind # "substack" /\ Goes(g, [poller[g] EXCEPT !.pc = "persist", !.page = FeedPage])
        /\ IF kind = "folo" THEN SourceFault ELSE UNCHANGED sourceFaults
  /\ Verdict(g, "active")
  /\ UNCHANGED <<kind, publishedAt, posts, source, persisted, followed, polls, sourceRequests>>

Persist(g) ==
  /\ AtPoll(g, "persist")
  /\ persisted' = persisted \cup poller[g].page.posts
  /\ Goes(g, [poller[g] EXCEPT !.pc = "record"])
  /\ UNCHANGED <<kind, publishedAt, posts, source, followed, connection, polls,
                 sourceFaults, sourceRequests>>

\* What is to become of the history: it goes on, or is through, or a page did
\* not get further than the one before.
Outcome(g) ==
  LET page == poller[g].page
      stalled == poller[g].backfill /\ kind # "substack" /\ page.cursor = poller[g].cursor
  IN IF stalled THEN "gap"
     ELSE IF page.more THEN "running"
     ELSE IF page.complete THEN "complete" ELSE "gap"

RecordPoll(g) ==
  LET history == poller[g].backfill \/ poller[g].first IN
  /\ AtPoll(g, "record")
  /\ Recorded(g, IF history
                 THEN [source EXCEPT !.cursor = poller[g].page.cursor, !.history = Outcome(g)]
                 ELSE source)
  /\ polls' = IF history /\ Outcome(g) = "running" THEN polls \cup {"backfill"} ELSE polls
  /\ Rests(g)
  /\ UNCHANGED <<kind, publishedAt, posts, persisted, followed, connection,
                 sourceFaults, sourceRequests>>

\* Mutant: the cursor moves on although the page was not stored.
FailPollMoved(g) ==
  /\ poller[g].pc \in {"fetch", "persist"} /\ SourceFault
  /\ UNCHANGED <<polls, connection, persisted>>
  /\ Recorded(g, IF AtPoll(g, "persist") /\ poller[g].backfill
                 THEN [source EXCEPT !.cursor = poller[g].page.cursor] ELSE source)
  /\ Rests(g)
  /\ UNCHANGED <<kind, publishedAt, posts, followed, sourceRequests>>

\* A failure, also half-way through the entries of a page, is recorded; a lack
\* of capacity asks for the same again; either keeps the history as it is.
FailPoll(g) ==
  /\ poller[g].pc \in {"fetch", "persist"} /\ SourceFault
  /\ \E stored \in SUBSET poller[g].page.posts : persisted' = persisted \cup stored
  /\ \/ UNCHANGED <<polls, connection>>
     \/ /\ AtPoll(g, "fetch")
        /\ polls' = polls \cup {IF poller[g].backfill THEN "backfill" ELSE "poll"}
        /\ UNCHANGED connection
     \/ AtPoll(g, "fetch") /\ Verdict(g, "needs_auth") /\ UNCHANGED polls
  /\ Recorded(g, source)
  /\ Rests(g)
  /\ UNCHANGED <<kind, publishedAt, posts, followed, sourceRequests>>

EvictPoll(g) ==
  /\ ~AtPoll(g, "idle") /\ SourceFault
  /\ \E stored \in SUBSET poller[g].page.posts : persisted' = persisted \cup stored
  /\ Rests(g)
  /\ UNCHANGED <<kind, publishedAt, posts, source, followed, connection, polls, sourceRequests>>

\* The lease ends: its holder is gone, or slow.
ExpireSource ==
  /\ source.holder # NoPoller
  /\ IF AtPoll(source.holder, "idle") THEN UNCHANGED sourceFaults ELSE SourceFault
  /\ source' = [source EXCEPT !.holder = NoPoller]
  /\ UNCHANGED <<kind, publishedAt, posts, persisted, followed, connection, polls, poller, sourceRequests>>

-----------------------------------------------------------------------------
(* Time and the publisher *)

ComeDue ==
  /\ ~source.due
  /\ source' = [source EXCEPT !.due = TRUE]
  /\ UNCHANGED <<kind, publishedAt, posts, persisted, followed, connection, polls, poller,
                 sourceFaults, sourceRequests>>

PublishPost ==
  /\ posts # Posts
  /\ posts' = posts \cup {Min(Posts \ posts)}
  /\ UNCHANGED <<kind, publishedAt, source, persisted, followed, connection, polls, poller,
                 sourceFaults, sourceRequests>>

-----------------------------------------------------------------------------
(* Requests *)

\* followRss and DELETE /sources/:id.
FollowSource ==
  /\ SourceRequest
  /\ followed' = ~followed
  /\ polls' = IF followed THEN polls ELSE polls \cup {"poll"}
  /\ UNCHANGED <<kind, publishedAt, posts, source, persisted, connection, poller, sourceFaults>>

\* POST /sources/:id/refresh.
RefreshSource ==
  /\ followed /\ SourceRequest
  /\ polls' = polls \cup {"poll"}
  /\ UNCHANGED <<kind, publishedAt, posts, source, persisted, followed, connection, poller, sourceFaults>>

\* PATCH /sources/:id {backfill}, by an admin.
PauseHistory ==
  /\ followed /\ SourceRequest
  /\ source' = [source EXCEPT !.history = "paused", !.due = TRUE]
  /\ UNCHANGED <<kind, publishedAt, posts, persisted, followed, connection, polls, poller, sourceFaults>>

ResumeHistory ==
  /\ followed /\ SourceRequest
  /\ source' = [source EXCEPT !.history = "running", !.due = TRUE]
  /\ polls' = polls \cup {"backfill"}
  /\ UNCHANGED <<kind, publishedAt, posts, persisted, followed, connection, poller, sourceFaults>>

\* PATCH /connections/:id with a new cookie.
Reconnect ==
  /\ kind = "substack" /\ SourceRequest
  /\ connection' = [status |-> "active", revision |-> connection.revision + 1]
  /\ source' = [source EXCEPT !.due = TRUE]
  /\ UNCHANGED <<kind, publishedAt, posts, persisted, followed, polls, poller, sourceFaults>>

-----------------------------------------------------------------------------
(* The specification *)

\* A source that has just been followed.
SourcesInit ==
  /\ kind \in {"folo", "substack", "feed"}
  /\ publishedAt \in Calendars
  /\ posts = Archive
  /\ source = [holder |-> NoPoller, due |-> TRUE, history |-> "pending", cursor |-> Start]
  /\ persisted = {} /\ followed = TRUE
  /\ connection = [status |-> "active", revision |-> 1]
  /\ polls = {"poll"}
  /\ poller = [g \in Pollers |-> Resting]
  /\ sourceFaults = 0 /\ sourceRequests = 0

PollStep(g) == Fetch(g) \/ Persist(g) \/ RecordPoll(g)

SourcesNext ==
  \/ \E g \in Pollers :
       \/ \E message \in polls : Take(g, message)
       \/ PollStep(g) \/ FailPoll(g) \/ EvictPoll(g)
  \/ WakeRss \/ ExpireSource \/ ComeDue \/ PublishPost
  \/ FollowSource \/ RefreshSource \/ PauseHistory \/ ResumeHistory \/ Reconnect

SourcesSpec == SourcesInit /\ [][SourcesNext]_sourceVars

TakePoll == \E g \in Pollers : "poll" \in polls /\ Take(g, "poll")
TakeBackfill ==
  \E g \in Pollers : "backfill" \in polls /\ CanPoll("backfill") /\ Take(g, "backfill")

\* The cron fires, polls go on, leases and waiting times end, and the message of
\* a backfill that is sent again and again is at some time delivered while no
\* poll holds the source.
SourcesFairness ==
  /\ WF_sourceVars(WakeRss) /\ WF_sourceVars(ExpireSource) /\ WF_sourceVars(ComeDue)
  /\ \A g \in Pollers : WF_sourceVars(PollStep(g))
  /\ WF_sourceVars(TakePoll) /\ SF_sourceVars(TakeBackfill)

SourcesFairSpec == SourcesSpec /\ SourcesFairness

-----------------------------------------------------------------------------
(* Properties *)

\* Every variable keeps its type.
SourcesTypeOK ==
  /\ kind \in {"folo", "substack", "feed"} /\ publishedAt \in Calendars
  /\ posts \subseteq Posts /\ persisted \subseteq posts
  /\ source \in [holder: Pollers \cup {NoPoller}, due: BOOLEAN, history: History, cursor: Cursors]
  /\ followed \in BOOLEAN
  /\ connection \in [status: {"active", "needs_auth"}, revision: Nat]
  /\ polls \subseteq {"poll", "backfill"}
  /\ poller \in [Pollers -> Poller]
  /\ sourceFaults \in 0 .. MaxSourceFaults /\ sourceRequests \in 0 .. MaxSourceRequests

\* "R2 discovery snapshots and DB links are persisted before advancing that
\* cursor.  The history status complete requires reaching the time boundary"
\* (cf/rss/README.md:116): a complete history misses no post there was.
HistoryIsComplete ==
  source.history = "complete" => \A p \in Archive : publishedAt[p] > 0 => p \in persisted

\* Credentials are never found wanting by a call made with older ones.
FreshCredentials ==
  [][connection'.status = "needs_auth" /\ connection.status = "active"
       => \E g \in Pollers : /\ AtPoll(g, "fetch") /\ poller'[g].pc = "idle"
                             /\ poller[g].revision = connection.revision]_sourceVars

\* A history that somebody follows ends, complete or with a gap.
HistoryEnds ==
  source.history \in {"pending", "running"} ~>
    source.history \in {"complete", "gap", "paused"} \/ ~followed \/ ~Connected

\* "Backfill can be paused independently per source" (cf/rss/README.md:148): only
\* an admin takes a history out of its pause.
PauseHolds ==
  [][source.history = "paused" /\ source'.history # "paused"
       => sourceRequests' = sourceRequests + 1]_sourceVars
=============================================================================
