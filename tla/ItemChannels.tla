----------------------------- MODULE ItemChannels -----------------------------
(***************************************************************************)
(* Which channel an item belongs to: cf/worker/src/lib/itemChannel.ts, the   *)
(* paths that call it (lib/ingest.ts, pipeline/subscriptions.ts,             *)
(* pipeline/consumer.ts), and the admin's repairs (routes/adminChannelLink.ts *)
(* and the backfill of routes/admin.ts).                                    *)
(*                                                                         *)
(* channel_item links an item to channels; item_feed keeps the addresses of   *)
(* the feeds that brought it.  An address is the canonical feed of a channel,  *)
(* a page of it that only the network can tell, or the malformed template     *)
(* that the pipeline used to write.  A linker is an invocation or a request   *)
(* at work on one item; one step of it is one D1 statement, before which it   *)
(* may fail or be evicted.  The recount of the demand that ends an operation  *)
(* is in LibraryIngest, the merge of follows in FollowMerge.                 *)
(***************************************************************************)
EXTENDS Naturals, FiniteSets

CONSTANTS
  Videos,      \* ids of items, in the order in which they are added
  Owner,       \* the channel each of them is published by
  Platform,    \* of each channel
  Linkers,
  Subs,        \* follows from before channels
  BatchLimit,  \* items of one request of the walk
  MaxPaths, MaxBreaks,  \* bounds: operations begun, evictions and failures
  NoVideo, NoOwner, NoAddress

Channels == {Owner[v] : v \in Videos}

ASSUME ItemChannelsAssumption ==
  /\ Videos \subseteq Nat \ {0} /\ IsFiniteSet(Videos) /\ NoVideo \notin Videos
  /\ NoOwner \notin Channels /\ BatchLimit \in Nat \ {0}
  /\ MaxPaths \in Nat /\ MaxBreaks \in Nat

VARIABLES
  videoState,  \* item.status
  feedRows,    \* item_feed
  linkedTo,    \* channel_item
  channelRows, \* channel
  subscribed,  \* the legacy follows: channel_id and feed_url
  linker,
  walk,        \* the admin's repeated POST /backfill-item-channels
  inherited,   \* feed rows from before, or written by a legacy follow
  paths, breaks

channelVars == <<videoState, feedRows, linkedTo, channelRows, subscribed, linker, walk,
                 inherited, paths, breaks>>

-----------------------------------------------------------------------------
(* Addresses and identities *)

Canon(c) == [kind |-> "feed", of |-> c]
Page(c) == [kind |-> "page", of |-> c]
Template(c) == [kind |-> "template", of |-> c]
Address == [kind: {"feed", "page", "template"}, of: Channels]

PlatformOf(v) == Platform[Owner[v]]

\* channelUrlFromMetadata: what metadata that is in hand, or the item's own address,
\* says.  An episode at Apple's names its show; an RSS episode names nothing.
TellsItself(v) == PlatformOf(v) = "apple_podcast"
TellsWith(v, hinted) ==
  \/ TellsItself(v)
  \/ hinted /\ PlatformOf(v) \in {"youtube", "bilibili", "xiaoyuzhou"}

\* channelUrlFromFeedRow: the uploader's number in the template can be read back.
RowTells(v, r) == r.kind # "template" \/ PlatformOf(v) = "bilibili"
Telling(v) == {r \in feedRows[v] : RowTells(v, r)}

\* resolveChannelIdentity: only a page needs the network, and none at Bilibili.
NeedsNetwork(r) == r.kind = "page" /\ Platform[r.of] # "bilibili"

-----------------------------------------------------------------------------
(* Linkers *)

Linker == [pc: {"idle", "upsert", "link", "feed", "row", "drop"},
           path: {"none", "attach", "poll", "legacy", "walk"},
           video: Videos \cup {NoVideo}, channel: Channels \cup {NoOwner},
           brought: Address \cup {NoAddress}, dirty: Address \cup {NoAddress}]
AtRest == [pc |-> "idle", path |-> "none", video |-> NoVideo, channel |-> NoOwner,
           brought |-> NoAddress, dirty |-> NoAddress]

StartLinker(l, state) ==
  /\ linker[l].pc = "idle" /\ paths < MaxPaths
  /\ paths' = paths + 1
  /\ linker' = [linker EXCEPT ![l] = state]

Goes(l, point) == linker' = [linker EXCEPT ![l].pc = point]
Rests(l) == linker' = [linker EXCEPT ![l] = AtRest]

\* attachChannelIdentity starts with the channel, for the item v on a path.
Attaching(path, v) == [AtRest EXCEPT !.pc = "upsert", !.path = path, !.video = v, !.channel = Owner[v]]

\* After the attachment: linkItemFeed with the address of the poll, if there is one.
Onward(l) ==
  IF linker[l].brought # NoAddress THEN "row"
  ELSE IF linker[l].dirty # NoAddress THEN "drop" ELSE "idle"

Moves(l, point) == IF point = "idle" THEN Rests(l) ELSE Goes(l, point)

-----------------------------------------------------------------------------
(* Adding an item *)

Exists(v) == videoState[v] # "none"
Created(v) == videoState' = [videoState EXCEPT ![v] = IF Exists(v) THEN @ ELSE "queued"]
InOrder(v) == \A w \in Videos : w < v => Exists(w)

\* addUrlToLibrary by hand: the metadata may have been fetched.
AddByHand(l, v, hinted) ==
  /\ InOrder(v) /\ Created(v)
  /\ StartLinker(l, IF TellsWith(v, hinted) THEN Attaching("attach", v) ELSE AtRest)
  /\ UNCHANGED <<feedRows, linkedTo, channelRows, subscribed, walk, inherited, breaks>>

\* A poll of a follow with a channel links that, and brings the channel's feed.
PollLinked(l, s, v) ==
  /\ InOrder(v) /\ Created(v) /\ subscribed[s].channel = Owner[v]
  /\ StartLinker(l, [AtRest EXCEPT !.pc = "link", !.path = "poll", !.video = v,
                             !.channel = subscribed[s].channel,
                             !.brought = Canon(subscribed[s].channel)])
  /\ UNCHANGED <<feedRows, linkedTo, channelRows, subscribed, walk, inherited, breaks>>

\* A poll of one without brings only the address; the entry's own metadata name
\* no channel, so that nothing but the address of the item may tell it.
PollLegacy(l, s, v) ==
  /\ InOrder(v) /\ Created(v) /\ subscribed[s].channel = NoOwner /\ subscribed[s].feed.of = Owner[v]
  /\ \/ StartLinker(l, [AtRest EXCEPT !.pc = "row", !.path = "legacy", !.video = v,
                                !.brought = subscribed[s].feed])
     \/ TellsItself(v) /\ StartLinker(l, [Attaching("legacy", v) EXCEPT !.brought = subscribed[s].feed])
  /\ UNCHANGED <<feedRows, linkedTo, channelRows, subscribed, walk, inherited, breaks>>

\* attachResultChannel, after a run: an item that has no channel is attached.
FinishRun(l, v, hinted) ==
  /\ videoState[v] = "queued"
  /\ videoState' = [videoState EXCEPT ![v] = "done"]
  /\ StartLinker(l, IF linkedTo[v] = {} /\ TellsWith(v, hinted) THEN Attaching("attach", v) ELSE AtRest)
  /\ UNCHANGED <<feedRows, linkedTo, channelRows, subscribed, walk, inherited, breaks>>

\* An excluded item ends without it.
Exclude(v) ==
  /\ videoState[v] = "queued"
  /\ videoState' = [videoState EXCEPT ![v] = "excluded"]
  /\ UNCHANGED <<feedRows, linkedTo, channelRows, subscribed, linker, walk, inherited, paths, breaks>>

-----------------------------------------------------------------------------
(* attachChannelIdentity, one statement after the other *)

\* Mutant: the feed is written before the link.
UpsertChannelWithFeed(l) ==
  /\ linker[l].pc = "upsert"
  /\ channelRows' = channelRows \cup {linker[l].channel}
  /\ feedRows' = [feedRows EXCEPT ![linker[l].video] = @ \cup {Canon(linker[l].channel)}]
  /\ Goes(l, "link")
  /\ UNCHANGED <<videoState, linkedTo, subscribed, walk, inherited, paths, breaks>>

UpsertChannel(l) ==
  /\ linker[l].pc = "upsert"
  /\ channelRows' = channelRows \cup {linker[l].channel}
  /\ Goes(l, "link")
  /\ UNCHANGED <<videoState, feedRows, linkedTo, subscribed, walk, inherited, paths, breaks>>

\* The poll of a linked follow has no feed of an identity to write.
LinkChannelItem(l) ==
  /\ linker[l].pc = "link"
  /\ linkedTo' = [linkedTo EXCEPT ![linker[l].video] = @ \cup {linker[l].channel}]
  /\ Goes(l, IF linker[l].path = "poll" THEN "row" ELSE "feed")
  /\ UNCHANGED <<videoState, feedRows, channelRows, subscribed, walk, inherited, paths, breaks>>

LinkItemFeed(l) ==
  /\ linker[l].pc = "feed"
  /\ feedRows' = [feedRows EXCEPT ![linker[l].video] = @ \cup {Canon(linker[l].channel)}]
  /\ Moves(l, Onward(l))
  /\ UNCHANGED <<videoState, linkedTo, channelRows, subscribed, walk, inherited, paths, breaks>>

LinkPolledFeed(l) ==
  /\ linker[l].pc = "row"
  /\ feedRows' = [feedRows EXCEPT ![linker[l].video] = @ \cup {linker[l].brought}]
  /\ inherited' = IF linker[l].path = "legacy"
                  THEN [inherited EXCEPT ![linker[l].video] = @ \cup {linker[l].brought}]
                  ELSE inherited
  /\ Rests(l)
  /\ UNCHANGED <<videoState, linkedTo, channelRows, subscribed, walk, paths, breaks>>

DropDirtyRow(l) ==
  /\ linker[l].pc = "drop"
  /\ feedRows' = [feedRows EXCEPT ![linker[l].video] = @ \ {linker[l].dirty}]
  /\ Rests(l)
  /\ UNCHANGED <<videoState, linkedTo, channelRows, subscribed, walk, inherited, paths, breaks>>

\* attachItemChannelBestEffort swallows a failure: the poll goes on to its address.
\* An item of the walk is reported as skipped.
LinkerFails(l) ==
  /\ linker[l].pc # "idle" /\ breaks < MaxBreaks
  /\ breaks' = breaks + 1
  /\ Moves(l, IF linker[l].path = "legacy" /\ linker[l].pc # "row" THEN "row" ELSE "idle")
  /\ walk' = IF linker[l].path = "walk"
             THEN [walk EXCEPT !.skipped = @ \cup {linker[l].video}] ELSE walk
  /\ UNCHANGED <<videoState, feedRows, linkedTo, channelRows, subscribed, inherited, paths>>

\* The request or the invocation of a linker is evicted; that of the walk takes its
\* batch along, and the admin repeats it.
EvictLinker(l) ==
  /\ linker[l].pc # "idle" /\ breaks < MaxBreaks
  /\ breaks' = breaks + 1
  /\ IF linker[l].path = "walk"
     THEN /\ linker' = [k \in Linkers |-> IF linker[k].path = "walk" THEN AtRest ELSE linker[k]]
          /\ walk' = [walk EXCEPT !.pc = "between", !.left = {}, !.last = 0, !.short = FALSE]
     ELSE Rests(l) /\ UNCHANGED walk
  /\ UNCHANGED <<videoState, feedRows, linkedTo, channelRows, subscribed, inherited, paths>>

-----------------------------------------------------------------------------
(* Follows *)

\* selfHealSubscriptionFeed: a poll resolves the page of a follow, and stores the feed.
Heal(s) ==
  /\ subscribed[s].channel = NoOwner /\ NeedsNetwork(subscribed[s].feed)
  /\ subscribed' = [subscribed EXCEPT ![s].feed = Canon(@.of)]
  /\ UNCHANGED <<videoState, feedRows, linkedTo, channelRows, linker, walk, inherited, paths, breaks>>

\* The migration of a follow: its channel, its channel_id, and the items of its address.
Migrate(s) ==
  /\ subscribed[s].channel = NoOwner
  /\ LET c == subscribed[s].feed.of IN
     /\ channelRows' = channelRows \cup {c}
     /\ subscribed' = [subscribed EXCEPT ![s].channel = c]
     /\ linkedTo' = [v \in Videos |-> IF subscribed[s].feed \in feedRows[v]
                                      THEN linkedTo[v] \cup {c} ELSE linkedTo[v]]
  /\ UNCHANGED <<videoState, feedRows, linker, walk, inherited, paths, breaks>>

-----------------------------------------------------------------------------
(* The admin's repairs *)

\* POST /backfill-channel-items: the channels of an address, by the channel's own feed
\* or by a follow that has it.
ChannelsOf(r) ==
  {c \in channelRows : Canon(c) = r \/ \E s \in Subs : subscribed[s] = [channel |-> c, feed |-> r]}

BackfillLinks(v) ==
  /\ \E r \in feedRows[v] :
       /\ ~ (ChannelsOf(r) \subseteq linkedTo[v])
       /\ linkedTo' = [linkedTo EXCEPT ![v] = @ \cup ChannelsOf(r)]
  /\ UNCHANGED <<videoState, feedRows, channelRows, subscribed, linker, walk, inherited, paths, breaks>>

Unchanneled == {v \in Videos : videoState[v] \notin {"none", "excluded"} /\ linkedTo[v] = {}}

Walk == [pc: {"unasked", "between", "batch", "ended"}, after: Nat, left: SUBSET Videos,
         last: Nat, short: BOOLEAN, skipped: SUBSET Videos, present: SUBSET Videos]
NoWalk == [pc |-> "unasked", after |-> 0, left |-> {}, last |-> 0, short |-> FALSE,
           skipped |-> {}, present |-> {}]

StartWalk ==
  /\ walk.pc = "unasked" /\ paths < MaxPaths
  /\ paths' = paths + 1
  /\ walk' = [NoWalk EXCEPT !.pc = "between", !.present = {v \in Videos : Exists(v)}]
  /\ UNCHANGED <<videoState, feedRows, linkedTo, channelRows, subscribed, linker, inherited, breaks>>

\* The first items after the cursor that have no channel.
Candidates(after) ==
  LET beyond == {v \in Unchanneled : v > after} IN
  {v \in beyond : Cardinality({w \in beyond : w < v}) < BatchLimit}

\* The last of a batch, or the cursor as it was.
LastOf(batch, after) ==
  CHOOSE n \in batch \cup {after} : \A v \in batch : v <= n

StartBatch ==
  /\ walk.pc = "between"
  /\ LET batch == Candidates(walk.after) IN
     walk' = [walk EXCEPT !.pc = "batch", !.left = batch, !.last = LastOf(batch, walk.after),
                          !.short = Cardinality(batch) < BatchLimit]
  /\ UNCHANGED <<videoState, feedRows, linkedTo, channelRows, subscribed, linker, inherited, paths, breaks>>

Skip(v) ==
  /\ walk' = [walk EXCEPT !.left = @ \ {v}, !.skipped = @ \cup {v}]
  /\ UNCHANGED linker

Repair(l, v, dirty) ==
  /\ linker[l].pc = "idle"
  /\ linker' = [linker EXCEPT ![l] = [Attaching("walk", v) EXCEPT !.dirty = dirty]]
  /\ walk' = [walk EXCEPT !.left = @ \ {v}]

\* backfillItem: phase a asks the rows of the item, phase b its source, and "auto" the
\* source if no row tells.  The network may fail.
BackfillItem(l, v, asked) ==
  /\ walk.pc = "batch" /\ v \in walk.left
  /\ IF asked # "b" /\ Telling(v) # {}
     THEN \E r \in Telling(v) :
            \/ Repair(l, v, IF r.kind = "template" THEN r ELSE NoAddress)
            \/ NeedsNetwork(r) /\ Skip(v)
     ELSE \/ asked # "a" /\ TellsWith(v, TRUE) /\ Repair(l, v, NoAddress)
          \/ Skip(v)
  /\ UNCHANGED <<videoState, feedRows, linkedTo, channelRows, subscribed, inherited, paths, breaks>>

BatchAnswer(exhausted) ==
  [walk EXCEPT !.pc = IF exhausted THEN "ended" ELSE "between", !.after = walk.last,
               !.last = 0, !.short = FALSE]

\* Mutant: a batch that linked few items is taken for the last.
EndBatchByLinked ==
  /\ walk.pc = "batch" /\ walk.left = {} /\ \A l \in Linkers : linker[l].path # "walk"
  /\ walk' = BatchAnswer(walk.short \/ walk.skipped # {})
  /\ UNCHANGED <<videoState, feedRows, linkedTo, channelRows, subscribed, linker, inherited, paths, breaks>>

\* The answer: next_after_item_id, and exhausted.
EndBatch ==
  /\ walk.pc = "batch" /\ walk.left = {} /\ \A l \in Linkers : linker[l].path # "walk"
  /\ walk' = BatchAnswer(walk.short)
  /\ UNCHANGED <<videoState, feedRows, linkedTo, channelRows, subscribed, linker, inherited, paths, breaks>>

-----------------------------------------------------------------------------
(* Specification *)

\* Items from before: some with the template or an address, and none with a channel.
ChannelsInit ==
  /\ \E old \in {{}, Videos} :
       /\ videoState = [v \in Videos |-> IF v \in old THEN "done" ELSE "none"]
       /\ feedRows \in {rows \in [Videos -> {{}} \cup {{Page(c)} : c \in Channels}
                                              \cup {{Template(c)} : c \in Channels}] :
                          \A v \in Videos : \A r \in rows[v] : v \in old /\ r.of = Owner[v]}
  /\ linkedTo = [v \in Videos |-> {}]
  /\ channelRows = {}
  /\ subscribed \in [Subs -> {[channel |-> NoOwner, feed |-> Page(c)] : c \in Channels}]
  /\ linker = [l \in Linkers |-> AtRest]
  /\ walk = NoWalk
  /\ inherited = feedRows
  /\ paths = 0 /\ breaks = 0

ChannelsNext ==
  \/ \E l \in Linkers :
       \/ \E v \in Videos, hinted \in BOOLEAN : AddByHand(l, v, hinted) \/ FinishRun(l, v, hinted)
       \/ \E v \in Videos, s \in Subs : PollLinked(l, s, v) \/ PollLegacy(l, s, v)
       \/ \E v \in Videos, asked \in {"a", "b", "auto"} : BackfillItem(l, v, asked)
       \/ UpsertChannel(l) \/ LinkChannelItem(l) \/ LinkItemFeed(l) \/ LinkPolledFeed(l)
       \/ DropDirtyRow(l) \/ LinkerFails(l) \/ EvictLinker(l)
  \/ \E v \in Videos : Exclude(v) \/ BackfillLinks(v)
  \/ \E s \in Subs : Heal(s) \/ Migrate(s)
  \/ StartWalk \/ StartBatch \/ EndBatch

ChannelsSpec == ChannelsInit /\ [][ChannelsNext]_channelVars
-----------------------------------------------------------------------------
(* Properties *)

\* Every variable has its type.
ChannelsTypeOK ==
  /\ videoState \in [Videos -> {"none", "queued", "done", "excluded"}]
  /\ feedRows \in [Videos -> SUBSET Address] /\ inherited \in [Videos -> SUBSET Address]
  /\ linkedTo \in [Videos -> SUBSET Channels] /\ channelRows \subseteq Channels
  /\ subscribed \in [Subs -> [channel: Channels \cup {NoOwner}, feed: Address]]
  /\ linker \in [Linkers -> Linker] /\ walk \in Walk
  /\ paths \in 0..MaxPaths /\ breaks \in 0..MaxBreaks

\* "An item can never end up with a feed row but no channel" (itemChannel.ts:5): true of
\* the rows that neither the time before nor a legacy follow has left.
FeedMeansChannel == \A v \in Videos : feedRows[v] \ inherited[v] # {} => linkedTo[v] # {}

\* The template row goes only when the item has its channel: what it said of the
\* channel is not lost when the repair fails or is evicted half-way.
OwnerNotLost ==
  \A v \in Videos : (\E r \in inherited[v] : RowTells(v, r)) => linkedTo[v] # {} \/ Telling(v) # {}

\* An item keeps what says whose it is.
AttributionKept == FeedMeansChannel /\ OwnerNotLost

\* The walk that has ended has left no item without a channel that it has not
\* reported, whatever was added, linked, excluded or evicted meanwhile.
WalkFindsAll ==
  walk.pc = "ended" => walk.present \cap Unchanneled \subseteq walk.skipped
=============================================================================
