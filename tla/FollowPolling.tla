----------------------------- MODULE FollowPolling -----------------------------
(***************************************************************************)
(* How a followed channel is polled: cf/worker/src/pipeline/subscriptions.ts *)
(* with the requests of routes/subscriptions.ts and routes/channels.ts.      *)
(*                                                                         *)
(* The cron selects the follows that are due, stamps poll_queued_at (a lease *)
(* on the queue, not on the poll) and sends a message for each.  A poll      *)
(* reads the follow, drops its message if that is redundant, clears the      *)
(* lease, fetches the feed, selects a batch of entries, imports them one by  *)
(* one and moves the cursor last_seen_guid.  Requests stamp and send too.    *)
(*                                                                         *)
(* One step is one D1 statement, the import of one entry, or one answer of   *)
(* the feed.  One feed is modelled; its entries are numbered from the oldest *)
(* and an entry stands for its guid and its URL.  Times are kept as far as   *)
(* the code compares them: the phase of last_checked_at, and whether a       *)
(* message is older than last_checked_at or than poll_queued_at.  Importing  *)
(* an entry is one step here; LibraryIngest has its statements, and          *)
(* FollowMerge the merging of follows.                                      *)
(***************************************************************************)
EXTENDS Naturals, FiniteSets, FiniteSetsExt

CONSTANTS
  Follows,      \* rows of subscription that follow the channel
  Entries,      \* guids of the feed; 0 stands for null
  Short,        \* entries shorter than SUBSCRIPTION_MIN_DURATION_S
  Old,          \* entries published before min_published_at
  Slots,        \* messages that exist at a time, waiting or being handled
  MaxNew,       \* MAX_NEW_PER_POLL
  MaxLookups,   \* MAX_SOURCE_LOOKUPS
  MaxFaults,    \* bound: messages lost, evictions, failures, capacity blips
  MaxRequests,  \* bound: requests of users
  SlowQueue,    \* whether a message may wait longer than POLL_QUEUE_LEASE_MS
  NoFollow

ASSUME FollowAssumption ==
  /\ NoFollow \notin Follows
  /\ Entries \subseteq Nat \ {0} /\ IsFiniteSet(Entries)
  /\ Short \subseteq Entries /\ Old \subseteq Entries
  /\ Slots \subseteq Nat /\ IsFiniteSet(Slots)
  /\ MaxNew \in Nat \ {0} /\ MaxLookups \in Nat
  /\ MaxFaults \in Nat /\ MaxRequests \in Nat /\ SlowQueue \in BOOLEAN

VARIABLES
  follow,    \* subscription
  feed,      \* entries that the feed shows now
  dated,     \* whether the feed gives publication dates
  imported,  \* entries that have been added for a follow, or are excluded
  job,       \* messages of kind poll, and the invocations that handle them
  pass,      \* follows that a running cron pass has still to queue
  faults, requests

vars == <<follow, feed, dated, imported, job, pass, faults, requests>>

-----------------------------------------------------------------------------
(* Rows and messages *)

Cursor == {0} \cup Entries

\* How long ago last_checked_at was: never, less than half the interval, less
\* than the interval, or longer.
Phase == {"never", "recent", "checked", "due"}

Follow == [state: {"unborn", "live", "gone"}, phase: Phase,
           lease: {"none", "live", "expired"}, cursor: Cursor]
Unborn == [state |-> "unborn", phase |-> "never",
           lease |-> "none", cursor |-> 0]

Live(f) == follow[f].state = "live"

Job == [pc: {"free", "waiting", "clear", "fetch", "import", "record"},
        follow: Follows \cup {NoFollow}, force: BOOLEAN,
        stale: BOOLEAN, overtaken: BOOLEAN,
        recent: BOOLEAN, cursor: Cursor, batch: SUBSET Entries,
        next: Cursor, reached: Cursor]
Free == [pc |-> "free", follow |-> NoFollow, force |-> FALSE,
         stale |-> FALSE, overtaken |-> FALSE,
         recent |-> FALSE, cursor |-> 0, batch |-> {},
         next |-> 0, reached |-> 0]

FreeSlots == {s \in Slots : job[s].pc = "free"}
At(s, point) == job[s].pc = point

\* The jobs after last_checked_at, or poll_queued_at, of f has been set to now:
\* every message sent before is older.  A forced poll does not look at either.
Asked(j, f) == j.follow = f /\ ~j.force
Stamped(jobs, f) == [s \in Slots |-> [jobs[s] EXCEPT !.stale = @ \/ Asked(jobs[s], f)]]
Overtaken(jobs, f) == [s \in Slots |-> [jobs[s] EXCEPT !.overtaken = @ \/ Asked(jobs[s], f)]]

\* The jobs after a message for f has been sent.
Sent(jobs, f, force) ==
  [jobs EXCEPT ![Min(FreeSlots)] = [Free EXCEPT !.pc = "waiting", !.follow = f, !.force = force]]

\* A fault that costs one of the allowed ones, or none.
Fault == faults < MaxFaults /\ faults' = faults + 1
NoFault == UNCHANGED faults

\* last_checked_at = now, in a row that exists.
Checked(f) == IF Live(f) THEN [follow EXCEPT ![f].phase = "recent"] ELSE follow

-----------------------------------------------------------------------------
(* The cron: pollDueSubscriptions *)

\* Mutant: an expired lease still keeps the cron away.
DueUnleased(f) == Live(f) /\ follow[f].phase \in {"never", "due"} /\ follow[f].lease = "none"

Due(f) == Live(f) /\ follow[f].phase \in {"never", "due"} /\ follow[f].lease # "live"

CronSelect ==
  /\ pass = {}
  /\ pass' = {f \in Follows : Due(f)}
  /\ pass' # {}
  /\ UNCHANGED <<follow, feed, dated, imported, job, faults, requests>>

\* The lease is stamped, then the message is sent; an eviction between the two,
\* or the queue, loses it.
CronQueue(f) ==
  /\ f \in pass /\ FreeSlots # {}
  /\ pass' = pass \ {f}
  /\ follow' = IF Live(f) THEN [follow EXCEPT ![f].lease = "live"] ELSE follow
  /\ LET older == IF Live(f) THEN Overtaken(job, f) ELSE job IN
     \/ job' = Sent(older, f, FALSE) /\ NoFault
     \/ job' = older /\ Fault
  /\ UNCHANGED <<feed, dated, imported, requests>>

-----------------------------------------------------------------------------
(* A poll: pollSubscription *)

\* "A poll already ran after this request, or a newer request is still queued
\* and owns the lease."
Redundant(s) ==
  LET f == job[s].follow IN
  ~job[s].force /\ (job[s].stale \/ (job[s].overtaken /\ follow[f].lease # "none"))

Deliver(s) ==
  LET f == job[s].follow IN
  /\ At(s, "waiting")
  /\ job' = [job EXCEPT ![s] =
               IF Live(f) /\ ~Redundant(s)
               THEN [@ EXCEPT !.pc = "clear", !.cursor = follow[f].cursor,
                              !.recent = follow[f].phase = "recent"]
               ELSE Free]
  /\ UNCHANGED <<follow, feed, dated, imported, pass, faults, requests>>

\* The lease is cleared, by whoever handles a message of the follow; then a
\* follow polled a short while ago is left alone, unless a user asked.
Clear(s) ==
  LET f == job[s].follow IN
  /\ At(s, "clear")
  /\ follow' = IF Live(f) THEN [follow EXCEPT ![f].lease = "none"] ELSE follow
  /\ job' = [job EXCEPT ![s] = IF job[s].recent /\ ~job[s].force THEN Free
                               ELSE [@ EXCEPT !.pc = "fetch", !.recent = FALSE]]
  /\ UNCHANGED <<feed, dated, imported, pass, faults, requests>>

\* Without a usable answer: a capacity blip leaves the poll unrecorded, an error
\* or an empty feed is recorded as a check.
NoFeed(s) ==
  LET f == job[s].follow IN
  /\ At(s, "fetch")
  /\ \/ /\ Fault
        /\ UNCHANGED follow
        /\ job' = [job EXCEPT ![s] = Free]
     \/ /\ IF feed = {} THEN NoFault ELSE Fault
        /\ follow' = Checked(f)
        /\ job' = [Stamped(job, f) EXCEPT ![s] = Free]
  /\ UNCHANGED <<feed, dated, imported, pass, requests>>

\* Entries newer than the cursor, or all of them when it is not in the feed.
Fresh(c) == IF c \in feed THEN {e \in feed : e > c} ELSE feed

Oldest(n, S) == {e \in S : Cardinality({d \in S : d < e}) < n}
Newest(n, S) == {e \in S : Cardinality({d \in S : d > e}) < n}

\* Mutant: the cursor jumps to the newest entry although some are left over.
DatedBatchToEnd(c, unknown) ==
  LET wanted == {e \in Fresh(c) \ Old : e \notin Short \/ e \in unknown}
  IN [entries |-> Oldest(MaxNew, wanted), next |-> Max(feed)]

\* selectPollBatch for a feed with dates: the oldest wanted entries, and the
\* cursor stops at the newest one taken if some are left over.  An entry whose
\* duration the source does not tell is wanted.
DatedBatch(c, unknown) ==
  LET wanted == {e \in Fresh(c) \ Old : e \notin Short \/ e \in unknown}
      taken == Oldest(MaxNew, wanted)
  IN [entries |-> taken,
      next |-> IF wanted = taken THEN Max(feed) ELSE Max(taken)]

\* For a feed without: from the newest entry down, to the first that the source
\* does not describe, that is out of the window, or that is beyond the budget
\* of lookups.  Only the first of these leaves the cursor where it is.
UndatedBatch(c, unknown) ==
  LET fresh == Fresh(c)
      budget == Newest(MaxLookups, fresh)
      barrier == {e \in fresh : e \in unknown \/ e \in Old \/ e \notin budget}
      low == IF barrier = {} THEN 0 ELSE Max(barrier)
      wanted == {e \in fresh \ Short : e > low}
      refused == /\ low \in budget \cap unknown
                 /\ Cardinality(wanted) <= MaxNew
  IN [entries |-> Newest(MaxNew, wanted),
      next |-> IF refused THEN 0 ELSE Max(feed)]

\* The feed answers, the source describes entries or does not, and a batch is
\* selected.
Select(s) ==
  /\ At(s, "fetch") /\ feed # {}
  /\ \E unknown \in SUBSET Fresh(job[s].cursor) :
       LET batch == IF dated THEN DatedBatch(job[s].cursor, unknown)
                    ELSE UndatedBatch(job[s].cursor, unknown)
       IN job' = [job EXCEPT ![s].pc = IF batch.entries = {} THEN "record" ELSE "import",
                             ![s].batch = batch.entries, ![s].next = batch.next,
                             ![s].cursor = 0,
                             ![s].reached = IF batch.entries = {} THEN 0 ELSE job[s].cursor]
  /\ UNCHANGED <<follow, feed, dated, imported, pass, faults, requests>>

\* enqueueSubscriptionBatch: the oldest entry of the batch is added to the
\* library.
Import(s) ==
  LET f == job[s].follow
      e == Min(job[s].batch)
  IN
  /\ At(s, "import") /\ Live(f)
  /\ imported' = [imported EXCEPT ![f] = @ \cup {e}]
  /\ job' = [job EXCEPT ![s].batch = @ \ {e},
                        ![s].reached = IF job[s].batch = {e} THEN 0 ELSE e,
                        ![s].pc = IF job[s].batch = {e} THEN "record" ELSE "import"]
  /\ UNCHANGED <<follow, feed, dated, pass, faults, requests>>

\* It fails, as it must when the follow is gone (user_item.subscription_id is a
\* foreign key): the cursor stops at the last entry added.
ImportFails(s) ==
  /\ At(s, "import")
  /\ IF Live(job[s].follow) THEN Fault ELSE NoFault
  /\ job' = [job EXCEPT ![s].pc = "record", ![s].next = job[s].reached,
                        ![s].batch = {}, ![s].reached = 0]
  /\ UNCHANGED <<follow, feed, dated, imported, pass, requests>>

\* recordPollSuccess, and recordPollError after a failed batch.
Record(s) ==
  LET f == job[s].follow IN
  /\ At(s, "record")
  /\ follow' = IF Live(f)
               THEN [Checked(f) EXCEPT ![f].cursor = IF job[s].next = 0 THEN @ ELSE job[s].next]
               ELSE follow
  /\ job' = [Stamped(job, f) EXCEPT ![s] = Free]
  /\ UNCHANGED <<feed, dated, imported, pass, faults, requests>>

\* A statement after the fetch throws: the poll is recorded, the cursor stays.
RecordFails(s) ==
  /\ At(s, "record") /\ Fault
  /\ follow' = Checked(job[s].follow)
  /\ job' = [Stamped(job, job[s].follow) EXCEPT ![s] = Free]
  /\ UNCHANGED <<feed, dated, imported, pass, requests>>

\* The invocation is evicted, or a statement before the fetch throws; its
\* message is delivered again, or dead-lettered.
Evict(s) ==
  /\ job[s].pc \in {"clear", "fetch", "import", "record"}
  /\ Fault
  /\ job' \in {[job EXCEPT ![s] = Free],
               [job EXCEPT ![s] = [Free EXCEPT !.pc = "waiting", !.follow = job[s].follow,
                                               !.force = job[s].force, !.stale = job[s].stale,
                                               !.overtaken = job[s].overtaken]]}
  /\ UNCHANGED <<follow, feed, dated, imported, pass, requests>>

-----------------------------------------------------------------------------
(* Requests *)

Request == requests < MaxRequests /\ requests' = requests + 1

\* A new follow is polled at once.
Subscribe(f) ==
  /\ follow[f].state = "unborn" /\ FreeSlots # {} /\ Request
  /\ follow' = [follow EXCEPT ![f] = [Unborn EXCEPT !.state = "live"]]
  /\ \/ job' = Sent(job, f, TRUE) /\ NoFault
     \/ UNCHANGED job /\ Fault
  /\ UNCHANGED <<feed, dated, imported, pass>>

\* A user asks for a poll: last_checked_at is stamped and a forced message sent,
\* in one order or the other, and only one of the two may happen.
Ask(f) ==
  /\ Live(f) /\ FreeSlots # {} /\ Request
  /\ \/ job' = Sent(Stamped(job, f), f, TRUE) /\ follow' = Checked(f) /\ NoFault
     \/ job' = Stamped(job, f) /\ follow' = Checked(f) /\ Fault
     \/ job' = Sent(job, f, TRUE) /\ UNCHANGED follow /\ Fault
  /\ UNCHANGED <<feed, dated, imported, pass>>

Unfollow(f) ==
  /\ Live(f) /\ Request
  /\ follow' = [follow EXCEPT ![f] = [Unborn EXCEPT !.state = "gone"]]
  /\ UNCHANGED <<feed, dated, imported, job, pass, faults>>

-----------------------------------------------------------------------------
(* Time and the feed *)

Age(f) ==
  /\ Live(f) /\ follow[f].phase \in {"recent", "checked"}
  /\ follow' = [follow EXCEPT ![f].phase = IF @ = "recent" THEN "checked" ELSE "due"]
  /\ UNCHANGED <<feed, dated, imported, job, pass, faults, requests>>

\* Two hours after a message was queued it has been delivered or lost, unless
\* the queue is that slow.
ExpireLease(f) ==
  /\ follow[f].lease = "live"
  /\ SlowQueue \/ \A s \in Slots : At(s, "waiting") => job[s].follow # f
  /\ follow' = [follow EXCEPT ![f].lease = "expired"]
  /\ UNCHANGED <<feed, dated, imported, job, pass, faults, requests>>

Publish(e) ==
  /\ e \notin feed /\ \A d \in feed : d < e
  /\ \A d \in Entries : d < e => d \in feed
  /\ feed' = feed \cup {e}
  /\ UNCHANGED <<follow, dated, imported, job, pass, faults, requests>>

-----------------------------------------------------------------------------
(* The specification *)

\* A feed with some entries, and follows that have not been polled.
Init ==
  /\ follow \in [Follows -> {Unborn, [Unborn EXCEPT !.state = "live"]}]
  /\ feed \in {{}} \cup {{d \in Entries : d <= e} : e \in Entries}
  /\ dated \in BOOLEAN
  /\ imported = [f \in Follows |-> {}]
  /\ job = [s \in Slots |-> Free]
  /\ pass = {}
  /\ faults = 0 /\ requests = 0

Poll(s) ==
  Deliver(s) \/ Clear(s) \/ NoFeed(s) \/ Select(s) \/ Import(s) \/ ImportFails(s) \/ Record(s)

Next ==
  \/ CronSelect
  \/ \E f \in Follows :
       CronQueue(f) \/ Subscribe(f) \/ Ask(f) \/ Unfollow(f) \/ Age(f) \/ ExpireLease(f)
  \/ \E s \in Slots : Poll(s) \/ RecordFails(s) \/ Evict(s)
  \/ \E e \in Entries : Publish(e)

Spec == Init /\ [][Next]_vars

\* The cron fires and goes through its list, messages are delivered, polls go on
\* until they are through, time passes.
Fairness ==
  /\ WF_vars(CronSelect)
  /\ \A f \in Follows :
       WF_vars(CronQueue(f)) /\ WF_vars(Age(f)) /\ WF_vars(ExpireLease(f))
  /\ \A s \in Slots : WF_vars(Poll(s))

FairSpec == Spec /\ Fairness

-----------------------------------------------------------------------------
(* Properties *)

\* Every variable keeps its type, and a row that is gone is not written again.
TypeOK ==
  /\ follow \in [Follows -> Follow]
  /\ \A f \in Follows : Live(f) \/ follow[f] = [Unborn EXCEPT !.state = follow[f].state]
  /\ feed \subseteq Entries /\ dated \in BOOLEAN
  /\ imported \in [Follows -> SUBSET Entries]
  /\ job \in [Slots -> Job]
  /\ pass \subseteq Follows
  /\ faults \in 0 .. MaxFaults /\ requests \in 0 .. MaxRequests

Wanted == Entries \ (Short \cup Old)

\* The cursor of a feed with dates never passes an entry that was not imported,
\* whatever fails and however polls of one follow overlap (selectPollBatch and
\* enqueueSubscriptionBatch).
CursorPassesNothing ==
  dated => \A f \in Follows : Live(f) =>
    \A e \in Wanted : e <= follow[f].cursor => e \in imported[f]

\* "so a lost message cannot silence a follow" (subscriptions.ts:460): whatever
\* a feed with dates publishes reaches the library of everyone who follows it.
Arrives ==
  \A f \in Follows : \A e \in Wanted :
    (dated /\ e \in feed /\ Live(f)) ~> (~Live(f) \/ e \in imported[f])
=============================================================================
