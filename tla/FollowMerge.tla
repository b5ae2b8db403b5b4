----------------------------- MODULE FollowMerge -----------------------------
(***************************************************************************)
(* How the follows of one user and one channel become one row:               *)
(* mergeFollowsIntoChannel of cf/worker/src/lib/channels.ts, with the        *)
(* requests that call it (routes/channels.ts, routes/subscriptions.ts, and   *)
(* the migration of routes/admin.ts) and the polls that run meanwhile.       *)
(*                                                                         *)
(* A legacy follow has the address of its feed and no channel.  A request    *)
(* reads the follow linked to the channel and the legacy ones, looks every   *)
(* legacy address up on the network, computes the merged state from the rows *)
(* it has read, and writes it in one batch: the library moves to the lowest  *)
(* row, the others are deleted, the items of their feeds are linked.         *)
(*                                                                         *)
(* One step is one D1 statement or batch.  The channel's platform is one     *)
(* whose items name no channel (rss), so attachItemChannelBestEffort links   *)
(* nothing.  Times are the order in which polls have ended.  Comments and    *)
(* highlights of a follow move and go as its library rows do, except that    *)
(* deleting the follow deletes them.  Failing imports are in FollowPolling.  *)
(***************************************************************************)
EXTENDS Naturals, FiniteSets, FiniteSetsExt

CONSTANTS
  Rows,        \* ids that rows of subscription have or will have
  Legacy,      \* rows that exist at the start, without a channel
  Canonical,   \* the address of the channel's feed
  Alias,       \* another address of it
  Guids,       \* entries of the feed, numbered from the oldest
  Windows,     \* values of min_published_at; 0 stands for null
  Askers,      \* requests that can be under way at a time
  MaxPolls, MaxAsks, MaxDrops,  \* bounds: polls, requests, deletions
  Absent,      \* of an entry that is not in the library
  Loose,       \* of an entry in the library that no follow has brought
  Keep         \* a request that gives no window

ASSUME FollowMergeAssumption ==
  /\ Rows \subseteq Nat /\ IsFiniteSet(Rows) /\ Legacy \subseteq Rows
  /\ Guids \subseteq Nat \ {0} /\ IsFiniteSet(Guids)
  /\ Windows \subseteq Nat
  /\ Absent \notin Rows /\ Loose \notin Rows \cup {Absent} /\ Keep \notin Nat /\ Canonical # Alias
  /\ MaxPolls \in Nat /\ MaxAsks \in Nat /\ MaxDrops \in Nat

VARIABLES
  row,       \* subscription, of one user
  shelf,     \* user_item.subscription_id of that user, by entry
  inFeed,    \* item_feed
  shown,     \* channel_item of the channel
  polling,   \* the running poll of a row
  asker,
  polls, asks,
  dropped    \* rows that the user has deleted

followVars == <<row, shelf, inFeed, shown, polling, asker, polls, asks, dropped>>

-----------------------------------------------------------------------------
(* Rows *)

FeedAddress == {Canonical, Alias}

Row == [state: {"unborn", "live", "gone"}, feed: FeedAddress, linked: BOOLEAN,
        since: Nat, checked: Nat, cursor: Guids \cup {0}]

Present(i) == row[i].state = "live"
RowsThat(P(_)) == {i \in Rows : Present(i) /\ P(i)}
Linked == RowsThat(LAMBDA i : row[i].linked)
Unmigrated == RowsThat(LAMBDA i : ~row[i].linked)

Place == Rows \cup {Absent, Loose}

\* A foreign key: the rows of the library after the follows of a set are deleted.
Loosened(places, removed) ==
  [e \in Guids |-> IF places[e] \in removed THEN Loose ELSE places[e]]

Poll == [pc: {"idle", "link", "save", "record"}, feed: FeedAddress,
         linked: BOOLEAN, since: Nat, cursor: Guids \cup {0}]
IdlePoll == [pc |-> "idle", feed |-> Canonical, linked |-> FALSE, since |-> 0, cursor |-> 0]

Asker == [pc: {"idle", "aliases", "existing", "write"}, follows: BOOLEAN,
          read: SUBSET Rows, as: [Rows -> Row], since: Nat \cup {Keep}]
IdleAsker == [pc |-> "idle", follows |-> FALSE, read |-> {}, as |-> [i \in Rows |->
                [state |-> "unborn", feed |-> Canonical, linked |-> FALSE,
                 since |-> 0, checked |-> 0, cursor |-> 0]], since |-> Keep]

\* The request a after it has read the rows of a set.
Having(a, found) ==
  [asker[a] EXCEPT !.read = @ \cup found,
                   !.as = [i \in Rows |-> IF i \in found THEN row[i] ELSE @[i]]]

-----------------------------------------------------------------------------
(* mergeFollowState, of the rows as a request has read them *)

\* Mutant: the newest row survives.
SurvivorNewest(read) == Max(read)

Survivor(read) == Min(read)
Duplicates(read) == read \ {Survivor(read)}

\* last_checked_at and the fields that go with it come from the row that was
\* checked last, the lowest of those that were never checked.
Healthiest(read, as) ==
  Min({i \in read : \A j \in read : as[j].checked <= as[i].checked})

EarliestWindow(read, as) ==
  LET given == {as[i].since : i \in read} \ {0} IN IF given = {} THEN 0 ELSE Min(given)

-----------------------------------------------------------------------------
(* Polls of one follow *)

StartPoll(i) ==
  /\ Present(i) /\ polling[i].pc = "idle" /\ polls < MaxPolls
  /\ polls' = polls + 1
  /\ LET next == {e \in Guids : e > row[i].cursor /\ e >= row[i].since} IN
     polling' = [polling EXCEPT ![i] =
       [pc |-> IF next = {} THEN "record" ELSE "link",
        feed |-> IF row[i].linked THEN Canonical ELSE row[i].feed,
        linked |-> row[i].linked, since |-> row[i].since, cursor |-> row[i].cursor]]
  /\ UNCHANGED <<row, shelf, inFeed, shown, asker, asks, dropped>>

\* The entries that are left to import, and the one whose turn it is.
Left(i) == {e \in Guids : e > polling[i].cursor /\ e >= polling[i].since}
Entry(i) == Min(Left(i))

\* The channel the poll has read with its row is linked, then the feed.
LinkEntry(i) ==
  /\ polling[i].pc = "link"
  /\ shown' = IF polling[i].linked THEN shown \cup {Entry(i)} ELSE shown
  /\ inFeed' = inFeed \cup {<<Entry(i), polling[i].feed>>}
  /\ polling' = [polling EXCEPT ![i].pc = "save"]
  /\ UNCHANGED <<row, shelf, asker, polls, asks, dropped>>

\* The library row names the follow, whose deletion makes the import, and with
\* it the poll, fail.
SaveEntry(i) ==
  /\ polling[i].pc = "save"
  /\ IF Present(i)
     THEN /\ shelf' = [shelf EXCEPT ![Entry(i)] = i]
          /\ polling' = [polling EXCEPT
               ![i].cursor = Entry(i),
               ![i].pc = IF Left(i) = {Entry(i)} THEN "record" ELSE "link"]
     ELSE /\ polling' = [polling EXCEPT ![i] = IdlePoll]
          /\ UNCHANGED shelf
  /\ UNCHANGED <<row, inFeed, shown, asker, polls, asks, dropped>>

\* recordPollSuccess; the times of polls are told apart by a later number.
RecordPoll(i) ==
  /\ polling[i].pc = "record"
  /\ row' = IF Present(i)
            THEN [row EXCEPT ![i].cursor = polling[i].cursor,
                             ![i].checked = Max({row[j].checked : j \in Rows}) + 1]
            ELSE row
  /\ polling' = [polling EXCEPT ![i] = IdlePoll]
  /\ UNCHANGED <<shelf, inFeed, shown, asker, polls, asks, dropped>>

EvictPoll(i) ==
  /\ polling[i].pc # "idle"
  /\ polling' = [polling EXCEPT ![i] = IdlePoll]
  /\ UNCHANGED <<row, shelf, inFeed, shown, asker, polls, asks, dropped>>

-----------------------------------------------------------------------------
(* Requests *)

MayAsk(a) == asker[a].pc = "idle" /\ asks < MaxAsks /\ asks' = asks + 1

\* POST /subscriptions, or PUT /channels/:id/follow, which may ask for a window:
\* findUserFollow.
StartFollow(a) ==
  /\ MayAsk(a)
  /\ \E since \in Windows \cup {Keep} :
       asker' = [asker EXCEPT ![a] =
         [Having(a, Linked) EXCEPT !.pc = "aliases", !.follows = TRUE, !.since = since]]
  /\ UNCHANGED <<row, shelf, inFeed, shown, polling, polls, dropped>>

\* findUnmigratedUserFollowsByIdentity: an address that cannot be resolved now
\* leaves its row out.
ReadAliases(a) ==
  /\ asker[a].pc = "aliases"
  /\ \E resolved \in SUBSET Unmigrated :
       asker' = [asker EXCEPT ![a] = [Having(a, resolved) EXCEPT !.pc = "write"]]
  /\ UNCHANGED <<row, shelf, inFeed, shown, polling, polls, asks, dropped>>

\* POST /admin/migrate-channels: legacy rows first, then the linked one.
StartMigrate(a) ==
  /\ MayAsk(a)
  /\ \E resolved \in SUBSET Unmigrated \ {{}} :
       asker' = [asker EXCEPT ![a] = [Having(a, resolved) EXCEPT !.pc = "existing"]]
  /\ UNCHANGED <<row, shelf, inFeed, shown, polling, polls, dropped>>

ReadExisting(a) ==
  /\ asker[a].pc = "existing"
  /\ asker' = [asker EXCEPT ![a] =
       [Having(a, Linked \ asker[a].read) EXCEPT !.pc = "write"]]
  /\ UNCHANGED <<row, shelf, inFeed, shown, polling, polls, asks, dropped>>

Finished(a) == asker' = [asker EXCEPT ![a] = IdleAsker]

\* The batch fails as a whole if a library row would name a follow that is gone,
\* or if two follows of the user would have the channel.
Refused(read) ==
  \/ ~Present(Survivor(read)) /\ \E e \in Guids : shelf[e] \in Duplicates(read)
  \/ Present(Survivor(read)) /\ Linked \ read # {}

MergedRows(read, as, since) ==
  [i \in Rows |->
     CASE i \in Duplicates(read) /\ Present(i) -> [row[i] EXCEPT !.state = "gone"]
       [] i = Survivor(read) /\ Present(i) ->
            LET health == as[Healthiest(read, as)] IN
            [row[i] EXCEPT !.linked = TRUE,
               !.since = IF since = Keep THEN EarliestWindow(read, as) ELSE since,
               !.checked = health.checked, !.cursor = health.cursor]
       [] OTHER -> row[i]]

\* Mutant: the references are not moved before the duplicates are deleted.
MovedTooLate(read) == Loosened(shelf, Duplicates(read))

\* The library after a merge: the rows of the duplicates name the survivor.
Moved(read) ==
  [e \in Guids |-> IF shelf[e] \in Duplicates(read) THEN Survivor(read) ELSE shelf[e]]

\* mergeFollowsIntoChannel.
Merge(a) ==
  /\ asker[a].pc = "write" /\ asker[a].read # {}
  /\ LET read == asker[a].read
         feeds == {asker[a].as[i].feed : i \in read}
     IN IF Refused(read) THEN UNCHANGED <<row, shelf, shown>>
        ELSE /\ row' = MergedRows(read, asker[a].as, asker[a].since)
             /\ shelf' = Moved(read)
             /\ shown' = shown \cup {e \in Guids : \E f \in feeds : <<e, f>> \in inFeed}
  /\ Finished(a)
  /\ UNCHANGED <<inFeed, polling, polls, asks, dropped>>

\* INSERT OR IGNORE of a follow of the channel, by a request that found none; the
\* user has one row per channel and per address.
Insert(a) ==
  /\ asker[a].pc = "write" /\ asker[a].read = {} /\ asker[a].follows
  /\ LET unborn == {i \in Rows : \A j \in Rows : j >= i => row[j].state = "unborn"} IN
     IF \E i \in Rows : Present(i) /\ (row[i].linked \/ row[i].feed = Canonical)
     THEN UNCHANGED row
     ELSE /\ unborn # {}
          /\ row' = [row EXCEPT ![Min(unborn)] =
               [state |-> "live", feed |-> Canonical, linked |-> TRUE,
                since |-> IF asker[a].since = Keep THEN Max(Windows) ELSE asker[a].since,
                checked |-> 0, cursor |-> 0]]
  /\ Finished(a)
  /\ UNCHANGED <<shelf, inFeed, shown, polling, polls, asks, dropped>>

\* DELETE /subscriptions/:id, or /channels/:id/follow.
Unfollow(i) ==
  /\ Present(i) /\ Cardinality(dropped) < MaxDrops
  /\ row' = [row EXCEPT ![i].state = "gone"]
  /\ shelf' = Loosened(shelf, {i})
  /\ dropped' = dropped \cup {i}
  /\ UNCHANGED <<inFeed, shown, polling, asker, polls, asks>>

\* PATCH /channels/:id/follow.
ChangeWindow(i) ==
  /\ i \in Linked /\ asks < MaxAsks /\ asks' = asks + 1
  /\ \E since \in Windows \ {0} : row' = [row EXCEPT ![i].since = since]
  /\ UNCHANGED <<shelf, inFeed, shown, polling, asker, polls, dropped>>

-----------------------------------------------------------------------------
FollowMergeInit ==
  /\ row \in [Rows -> {r \in [state: {"unborn", "live"}, feed: FeedAddress,
                              linked: {FALSE}, since: Windows, checked: {0}, cursor: {0}] :
                        r.state = "unborn" => r.feed = Canonical /\ r.since = Max(Windows)}]
  /\ \A i \in Rows : (row[i].state = "live") = (i \in Legacy)
  /\ \A i \in Legacy : \A j \in Legacy \ {i} : row[i].feed # row[j].feed
  /\ shelf = [e \in Guids |-> Absent]
  /\ inFeed = {} /\ shown = {}
  /\ polling = [i \in Rows |-> IdlePoll]
  /\ asker = [a \in Askers |-> IdleAsker]
  /\ polls = 0 /\ asks = 0 /\ dropped = {}

FollowMergeNext ==
  \/ \E i \in Rows : \/ StartPoll(i) \/ LinkEntry(i) \/ SaveEntry(i)
                     \/ RecordPoll(i) \/ EvictPoll(i)
                     \/ Unfollow(i) \/ ChangeWindow(i)
  \/ \E a \in Askers : \/ StartFollow(a) \/ ReadAliases(a)
                       \/ StartMigrate(a) \/ ReadExisting(a)
                       \/ Merge(a) \/ Insert(a)

FollowMergeSpec == FollowMergeInit /\ [][FollowMergeNext]_followVars

-----------------------------------------------------------------------------
(* Properties *)

\* Types, and: the user never has two follows of the channel (ux_sub_user_channel).
FollowMergeTypeOK ==
  /\ row \in [Rows -> Row]
  /\ shelf \in [Guids -> Place]
  /\ inFeed \subseteq Guids \X FeedAddress /\ shown \subseteq Guids
  /\ polling \in [Rows -> Poll]
  /\ asker \in [Askers -> Asker]
  /\ polls \in 0..MaxPolls /\ asks \in 0..MaxAsks /\ dropped \subseteq Rows
  /\ Cardinality(Linked) <= 1

\* A follow that the user has not deleted is gone only because an older one has
\* taken its place, and that one is there unless the user has deleted it:
\* requests that merge overlapping sets of rows they read earlier never leave
\* the user without a follow (mergeFollowState keeps the lowest id).
FollowKept ==
  \A i \in Rows : row[i].state = "gone" /\ i \notin dropped =>
    \E j \in Rows : j < i /\ (Present(j) \/ j \in dropped)

\* A library row loses its follow only when the user deletes that follow: merging
\* moves it, whatever polls have added to it since the rows were read.
ShelfKept ==
  [][\A e \in Guids : shelf[e] \in Rows /\ shelf'[e] \notin Rows =>
       shelf[e] \in dropped' \ dropped]_followVars
=============================================================================
