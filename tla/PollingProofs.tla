---------------------------- MODULE PollingProofs ----------------------------
(***************************************************************************)
(* Theorems about the parts that MCPolling composes: the channels of items   *)
(* (ItemChannels), the polls of follows (FollowPolling) and the research     *)
(* briefs (ResearchBriefs), for every number of items, channels, follows,    *)
(* entries, messages, assignments, passes and faults.                        *)
(***************************************************************************)
EXTENDS FollowPolling, ItemChannels, ResearchBriefs, FiniteSetTheorems, WellFoundedInduction,
        TLAPS

-----------------------------------------------------------------------------
(* The lowest and the highest of some numbers *)

Below == {ss \in Nat \X Nat : ss[1] < ss[2]}

LEMMA LowestOf ==
  ASSUME NEW S \in SUBSET Nat, S # {}
  PROVE  \E x \in S : \A y \in S : x <= y
<1>1. IsWellFoundedOn(Below, Nat)
  BY NatLessThanWellFounded DEF OpToRel, Below
<1>2. PICK x \in S : \A y \in S : <<y, x>> \notin Below
  BY <1>1, WFMin
<1>3. ASSUME NEW y \in S PROVE x <= y
  <2>1. x \in Nat /\ y \in Nat /\ ~(y < x)
    BY <1>2 DEF Below
  <2>. QED BY <2>1
<1>. QED BY <1>3

\* The one with the fewest above it has none.
LEMMA HighestOf ==
  ASSUME NEW S \in SUBSET Nat, S # {}, IsFiniteSet(S)
  PROVE  \E x \in S : \A y \in S : y <= x
<1>. DEFINE Above(x) == {w \in S : w > x}
            Counts == {Cardinality(Above(x)) : x \in S}
<1>1. \A x \in S : IsFiniteSet(Above(x)) /\ Cardinality(Above(x)) \in Nat
  BY FS_Subset, FS_CardinalityType
<1>2. Counts \in SUBSET Nat /\ Counts # {}
  BY <1>1
<1>3. PICK x \in S : \A y \in S : Cardinality(Above(x)) <= Cardinality(Above(y))
  <2>. HIDE DEF Above
  <2>1. PICK n \in Counts : \A m \in Counts : n <= m
    <3>. HIDE DEF Counts
    <3>. QED BY <1>2, LowestOf
  <2>. QED BY <2>1
<1>4. ASSUME NEW y \in S, y > x PROVE FALSE
  <2>1. Above(y) \subseteq Above(x) /\ Above(y) # Above(x)
    <3>1. \A w \in S : w > y => w > x
      BY <1>4
    <3>2. y \in Above(x) /\ y \notin Above(y)
      BY <1>4
    <3>. QED BY <3>1, <3>2
  <2>2. Cardinality(Above(y)) < Cardinality(Above(x))
    <3>. HIDE DEF Above
    <3>. QED BY <1>1, <2>1, FS_Subset
  <2>. HIDE DEF Above
  <2>. QED BY <1>1, <1>3, <2>2
<1>. QED BY <1>4

\* Of the numbers with fewer than n below them in a set, there are fewer than n
\* only if that is all of them.
LEMMA FirstOnes ==
  ASSUME NEW S \in SUBSET Nat, IsFiniteSet(S), NEW n \in Nat
  PROVE  LET first == {v \in S : Cardinality({w \in S : w < v}) < n}
         IN  /\ \A v \in first : \A w \in S : w <= v => w \in first
             /\ Cardinality(first) < n => first = S
<1>. DEFINE Lower(v) == {w \in S : w < v}
            first == {v \in S : Cardinality(Lower(v)) < n}
<1>1. \A v \in S : IsFiniteSet(Lower(v)) /\ Cardinality(Lower(v)) \in Nat
  BY FS_Subset, FS_CardinalityType
<1>2. ASSUME NEW v \in first, NEW w \in S, w <= v PROVE w \in first
  <2>1. Lower(w) \subseteq Lower(v)
    <3>1. SUFFICES ASSUME NEW x \in S, x < w PROVE x < v
      OBVIOUS
    <3>2. x \in Nat /\ w \in Nat /\ v \in Nat
      OBVIOUS
    <3>. QED BY <1>2, <3>1, <3>2
  <2>2. Cardinality(Lower(w)) <= Cardinality(Lower(v))
    <3>. HIDE DEF Lower
    <3>. QED BY <1>1, <2>1, FS_Subset
  <2>. HIDE DEF Lower
  <2>. QED BY <1>1, <2>2
<1>3. ASSUME Cardinality(first) < n, first # S PROVE FALSE
  <2>1. S \ first \in SUBSET Nat /\ S \ first # {}
    BY <1>3
  <2>2. PICK v \in S \ first : \A w \in S \ first : v <= w
    <3>. HIDE DEF first
    <3>. QED BY <2>1, LowestOf
  <2>3. Lower(v) \subseteq first
    <3>1. SUFFICES ASSUME NEW w \in S, w < v, w \notin first PROVE FALSE
      BY DEF Lower
    <3>. QED BY <2>2, <3>1
  <2>4. Cardinality(Lower(v)) <= Cardinality(first)
    <3>1. IsFiniteSet(first)
      BY FS_Subset
    <3>. HIDE DEF first, Lower
    <3>. QED BY <2>3, <3>1, FS_Subset
  <2>5. ~(Cardinality(Lower(v)) < n)
    BY <2>2
  <2>6. Cardinality(first) \in Nat
    <3>1. IsFiniteSet(first)
      BY FS_Subset
    <3>. HIDE DEF first
    <3>. QED BY <3>1, FS_CardinalityType
  <2>. HIDE DEF first, Lower
  <2>. QED BY <1>1, <1>3, <2>2, <2>4, <2>5, <2>6
<1>. QED BY <1>2, <1>3

-----------------------------------------------------------------------------
(* Linkers and rows are well typed *)

\* What the points of a linker rely on beyond their types.
LinkerNamed(k) ==
  /\ (k.pc = "idle") <=> (k.path = "none")
  /\ k.pc # "idle" => k.video \in Videos
  /\ k.pc \in {"upsert", "link", "feed"} => k.channel \in Channels
  /\ k.path \in {"poll", "legacy"} => k.brought \in Address
  /\ k.pc = "row" => k.path \in {"poll", "legacy"}
  /\ k.path = "attach" => k.brought = NoAddress
  /\ k.path = "walk" => k.brought = NoAddress
  /\ k.pc = "drop" => k.dirty \in Address
LinkersNamed == \A l \in Linkers : LinkerNamed(linker[l])

RowsTyped ==
  /\ videoState \in [Videos -> {"none", "queued", "done", "excluded"}]
  /\ feedRows \in [Videos -> SUBSET Address] /\ inherited \in [Videos -> SUBSET Address]
  /\ linkedTo \in [Videos -> SUBSET Channels] /\ channelRows \subseteq Channels
  /\ subscribed \in [Subs -> [channel: Channels \cup {NoOwner}, feed: Address]]
  /\ paths \in 0..MaxPaths /\ breaks \in 0..MaxBreaks
LinkersTyped == linker \in [Linkers -> Linker] /\ LinkersNamed
ChannelsTyped == RowsTyped /\ LinkersTyped

LEMMA AddressesTyped ==
  /\ \A c \in Channels : Canon(c) \in Address /\ Page(c) \in Address /\ Template(c) \in Address
  /\ \A v \in Videos : Owner[v] \in Channels
BY DEF Canon, Page, Template, Address, Channels

LEMMA AtRestTyped == AtRest \in Linker /\ LinkerNamed(AtRest)
BY DEF AtRest, Linker, LinkerNamed

LEMMA AttachingTyped ==
  ASSUME NEW path \in {"attach", "legacy", "walk"}, NEW v \in Videos
  PROVE  /\ Attaching(path, v) \in Linker
         /\ path # "legacy" => LinkerNamed(Attaching(path, v))
         /\ \A r \in Address : /\ [Attaching(path, v) EXCEPT !.brought = r] \in Linker
                               /\ path = "legacy" => LinkerNamed([Attaching(path, v) EXCEPT !.brought = r])
         /\ \A r \in Address \cup {NoAddress} :
              /\ [Attaching(path, v) EXCEPT !.dirty = r] \in Linker
              /\ path # "legacy" => LinkerNamed([Attaching(path, v) EXCEPT !.dirty = r])
<1>1. Owner[v] \in Channels
  BY AddressesTyped
<1>. QED BY <1>1 DEF Attaching, AtRest, Linker, LinkerNamed

LEMMA LinkerStored ==
  ASSUME LinkersTyped, NEW l, NEW k \in Linker, LinkerNamed(k),
         linker' = [linker EXCEPT ![l] = k]
  PROVE  LinkersTyped'
<1>1. linker' \in [Linkers -> Linker]
  BY DEF LinkersTyped
<1>2. ASSUME NEW m \in Linkers PROVE LinkerNamed(linker[m])'
  <2>1. linker'[m] = k \/ linker'[m] = linker[m]
    BY DEF LinkersTyped
  <2>. QED BY <2>1 DEF LinkersTyped, LinkersNamed, LinkerNamed
<1>. QED BY <1>1, <1>2 DEF LinkersTyped, LinkersNamed

LEMMA LinkerRests ==
  ASSUME LinkersTyped, NEW l, Rests(l) PROVE LinkersTyped'
BY AtRestTyped, LinkerStored DEF Rests

LEMMA LinkerGoes ==
  ASSUME LinkersTyped, NEW l \in Linkers, linker[l].pc # "idle",
         NEW point \in {"link", "feed", "row", "drop"}, Goes(l, point),
         point \in {"link", "feed"} => linker[l].channel \in Channels,
         point = "row" => linker[l].path \in {"poll", "legacy"},
         point = "drop" => linker[l].dirty \in Address
  PROVE  LinkersTyped'
<1>. DEFINE k == [linker[l] EXCEPT !.pc = point]
<1>1. linker[l] \in Linker /\ LinkerNamed(linker[l])
  BY DEF LinkersTyped, LinkersNamed
<1>2. k \in Linker /\ LinkerNamed(k)
  BY <1>1 DEF Linker, LinkerNamed
<1>3. linker' = [linker EXCEPT ![l] = k]
  BY DEF Goes
<1>. HIDE DEF k
<1>. QED BY <1>2, <1>3, LinkerStored

\* The steps of a linker.
LEMMA StepLinkers ==
  ASSUME ChannelsTyped, NEW l \in Linkers,
         \/ UpsertChannel(l) \/ LinkChannelItem(l) \/ LinkItemFeed(l) \/ LinkPolledFeed(l)
         \/ DropDirtyRow(l) \/ LinkerFails(l) \/ EvictLinker(l)
  PROVE  LinkersTyped'
<1>0. LinkersTyped /\ linker[l] \in Linker /\ LinkerNamed(linker[l])
  BY DEF ChannelsTyped, LinkersTyped, LinkersNamed
<1>1. CASE UpsertChannel(l)
  <2>1. linker[l].pc = "upsert" /\ Goes(l, "link") /\ linker[l].channel \in Channels
    BY <1>0, <1>1 DEF UpsertChannel, LinkerNamed
  <2>. QED BY <1>0, <2>1, LinkerGoes
<1>2. CASE LinkChannelItem(l)
  <2>1. linker[l].pc = "link" /\ linker[l].channel \in Channels
    BY <1>0, <1>2 DEF LinkChannelItem, LinkerNamed
  <2>2. \/ Goes(l, "row") /\ linker[l].path = "poll"
        \/ Goes(l, "feed")
    BY <1>2 DEF LinkChannelItem
  <2>. QED BY <1>0, <2>1, <2>2, LinkerGoes
<1>3. CASE LinkItemFeed(l)
  <2>1. linker[l].pc = "feed"
    BY <1>3 DEF LinkItemFeed
  <2>2. \/ Rests(l)
        \/ Goes(l, "row") /\ linker[l].brought # NoAddress
        \/ Goes(l, "drop") /\ linker[l].dirty # NoAddress
    BY <1>3 DEF LinkItemFeed, Moves, Onward
  <2>3. linker[l].path \in {"poll", "legacy"} \/ linker[l].brought = NoAddress
    BY <1>0, <2>1 DEF LinkerNamed, Linker
  <2>4. linker[l].dirty \in Address \cup {NoAddress}
    BY <1>0 DEF Linker
  <2>. QED BY <1>0, <2>1, <2>2, <2>3, <2>4, LinkerGoes, LinkerRests
<1>4. CASE LinkPolledFeed(l) \/ DropDirtyRow(l)
  BY <1>0, <1>4, LinkerRests DEF LinkPolledFeed, DropDirtyRow
<1>5. CASE LinkerFails(l)
  <2>1. \/ Rests(l)
        \/ Goes(l, "row") /\ linker[l].path = "legacy"
    BY <1>5 DEF LinkerFails, Moves
  <2>. QED BY <1>0, <1>5, <2>1, LinkerGoes, LinkerRests DEF LinkerFails
<1>6. CASE EvictLinker(l)
  <2>1. CASE linker[l].path = "walk"
    <3>1. linker' = [k \in Linkers |-> IF linker[k].path = "walk" THEN AtRest ELSE linker[k]]
      BY <1>6, <2>1 DEF EvictLinker
    <3>2. linker' \in [Linkers -> Linker]
      BY <1>0, <3>1, AtRestTyped DEF LinkersTyped
    <3>3. ASSUME NEW m \in Linkers PROVE LinkerNamed(linker[m])'
      <4>1. linker'[m] = AtRest \/ linker'[m] = linker[m]
        BY <3>1
      <4>. QED BY <1>0, <4>1, AtRestTyped DEF LinkersTyped, LinkersNamed, LinkerNamed
    <3>. QED BY <3>2, <3>3 DEF LinkersTyped, LinkersNamed
  <2>2. CASE linker[l].path # "walk"
    BY <1>0, <1>6, <2>2, LinkerRests DEF EvictLinker
  <2>. QED BY <2>1, <2>2
<1>. QED BY <1>1, <1>2, <1>3, <1>4, <1>5, <1>6

\* The operations that start one.
LEMMA StartLinkers ==
  ASSUME ChannelsTyped, NEW l \in Linkers, NEW v \in Videos,
         \/ \E hinted \in BOOLEAN : AddByHand(l, v, hinted) \/ FinishRun(l, v, hinted)
         \/ \E s \in Subs : PollLinked(l, s, v) \/ PollLegacy(l, s, v)
         \/ \E asked \in {"a", "b", "auto"} : BackfillItem(l, v, asked)
  PROVE  /\ LinkersTyped'
         /\ paths' \in 0..MaxPaths
<1>0. LinkersTyped /\ linker[l] \in Linker /\ LinkerNamed(linker[l]) /\ RowsTyped
  BY DEF ChannelsTyped, LinkersTyped, LinkersNamed
<1>00. ASSUME NEW k, StartLinker(l, k) PROVE paths' \in 0..MaxPaths
  BY <1>0, <1>00, ItemChannelsAssumption DEF StartLinker, RowsTyped
<1>1. ASSUME NEW hinted \in BOOLEAN, AddByHand(l, v, hinted) \/ FinishRun(l, v, hinted)
      PROVE  LinkersTyped' /\ paths' \in 0..MaxPaths
  <2>1. StartLinker(l, Attaching("attach", v)) \/ StartLinker(l, AtRest)
    BY <1>1 DEF AddByHand, FinishRun
  <2>2. Attaching("attach", v) \in Linker /\ LinkerNamed(Attaching("attach", v))
    BY AttachingTyped
  <2>. QED BY <1>0, <1>00, <2>1, <2>2, AtRestTyped, LinkerStored DEF StartLinker
<1>2. ASSUME NEW s \in Subs, PollLinked(l, s, v) PROVE LinkersTyped' /\ paths' \in 0..MaxPaths
  <2>. DEFINE k == [AtRest EXCEPT !.pc = "link", !.path = "poll", !.video = v,
                             !.channel = subscribed[s].channel,
                             !.brought = Canon(subscribed[s].channel)]
  <2>1. StartLinker(l, k) /\ subscribed[s].channel = Owner[v]
    BY <1>2 DEF PollLinked
  <2>2. Owner[v] \in Channels /\ Canon(Owner[v]) \in Address
    BY AddressesTyped
  <2>3. k \in Linker /\ LinkerNamed(k)
    BY <2>1, <2>2 DEF AtRest, Linker, LinkerNamed
  <2>. HIDE DEF k
  <2>. QED BY <1>0, <1>00, <2>1, <2>3, LinkerStored DEF StartLinker
<1>3. ASSUME NEW s \in Subs, PollLegacy(l, s, v) PROVE LinkersTyped' /\ paths' \in 0..MaxPaths
  <2>. DEFINE k == [AtRest EXCEPT !.pc = "row", !.path = "legacy", !.video = v,
                                !.brought = subscribed[s].feed]
              m == [Attaching("legacy", v) EXCEPT !.brought = subscribed[s].feed]
  <2>1. StartLinker(l, k) \/ StartLinker(l, m)
    BY <1>3 DEF PollLegacy
  <2>2. subscribed[s].feed \in Address
    BY <1>0 DEF RowsTyped
  <2>3. k \in Linker /\ LinkerNamed(k)
    BY <2>2 DEF AtRest, Linker, LinkerNamed
  <2>4. m \in Linker /\ LinkerNamed(m)
    BY <2>2, AttachingTyped
  <2>. HIDE DEF k, m
  <2>. QED BY <1>0, <1>00, <2>1, <2>3, <2>4, LinkerStored DEF StartLinker
<1>4. ASSUME NEW asked \in {"a", "b", "auto"}, BackfillItem(l, v, asked)
      PROVE  LinkersTyped' /\ paths' \in 0..MaxPaths
  <2>1. paths' \in 0..MaxPaths
    BY <1>0, <1>4 DEF BackfillItem, RowsTyped
  <2>2. \/ UNCHANGED linker
        \/ \E r \in Address \cup {NoAddress} : Repair(l, v, r)
    <3>1. Telling(v) \subseteq Address
      BY <1>0 DEF Telling, RowsTyped
    <3>. QED BY <1>4, <3>1 DEF BackfillItem, Skip
  <2>3. ASSUME NEW r \in Address \cup {NoAddress}, Repair(l, v, r) PROVE LinkersTyped'
    <3>. DEFINE k == [Attaching("walk", v) EXCEPT !.dirty = r]
    <3>1. k \in Linker /\ LinkerNamed(k)
      BY AttachingTyped
    <3>2. linker' = [linker EXCEPT ![l] = k]
      BY <2>3 DEF Repair
    <3>. HIDE DEF k
    <3>. QED BY <1>0, <3>1, <3>2, LinkerStored
  <2>4. UNCHANGED linker => LinkersTyped'
    BY <1>0 DEF LinkersTyped, LinkersNamed, LinkerNamed
  <2>. QED BY <2>1, <2>2, <2>3, <2>4
<1>. QED BY <1>1, <1>2, <1>3, <1>4

LEMMA InitChannelsTyped ==
  ASSUME ChannelsInit PROVE ChannelsTyped
<1>1. RowsTyped
  <2>1. feedRows \in [Videos -> SUBSET Address]
    BY AddressesTyped DEF ChannelsInit
  <2>2. subscribed \in [Subs -> [channel: Channels \cup {NoOwner}, feed: Address]]
    BY AddressesTyped DEF ChannelsInit
  <2>3. videoState \in [Videos -> {"none", "queued", "done", "excluded"}]
    BY DEF ChannelsInit
  <2>. QED BY <2>1, <2>2, <2>3, ItemChannelsAssumption DEF ChannelsInit, RowsTyped
<1>2. LinkersTyped
  BY AtRestTyped DEF ChannelsInit, LinkersTyped, LinkersNamed
<1>. QED BY <1>1, <1>2 DEF ChannelsTyped

LEMMA StepChannelsTyped ==
  ASSUME ChannelsTyped, [ChannelsNext]_channelVars PROVE ChannelsTyped'
<1>0. RowsTyped /\ LinkersTyped
  BY DEF ChannelsTyped
<1>1. ASSUME NEW l \in Linkers, NEW v \in Videos,
             \/ \E hinted \in BOOLEAN : AddByHand(l, v, hinted) \/ FinishRun(l, v, hinted)
             \/ \E s \in Subs : PollLinked(l, s, v) \/ PollLegacy(l, s, v)
             \/ \E asked \in {"a", "b", "auto"} : BackfillItem(l, v, asked)
      PROVE  ChannelsTyped'
  <2>1. LinkersTyped' /\ paths' \in 0..MaxPaths
    BY <1>1, StartLinkers
  <2>2. videoState' \in [Videos -> {"none", "queued", "done", "excluded"}]
    BY <1>0, <1>1 DEF AddByHand, FinishRun, PollLinked, PollLegacy, BackfillItem, Created, RowsTyped
  <2>3. UNCHANGED <<feedRows, linkedTo, channelRows, subscribed, inherited, breaks>>
    BY <1>1 DEF AddByHand, FinishRun, PollLinked, PollLegacy, BackfillItem
  <2>. QED BY <1>0, <2>1, <2>2, <2>3 DEF ChannelsTyped, RowsTyped
<1>2. ASSUME NEW l \in Linkers,
             \/ UpsertChannel(l) \/ LinkChannelItem(l) \/ LinkItemFeed(l) \/ LinkPolledFeed(l)
             \/ DropDirtyRow(l) \/ LinkerFails(l) \/ EvictLinker(l)
      PROVE  ChannelsTyped'
  <2>1. LinkersTyped'
    BY <1>2, StepLinkers
  <2>2. linker[l] \in Linker /\ LinkerNamed(linker[l])
    BY <1>0 DEF LinkersTyped, LinkersNamed
  <2>3. CASE UpsertChannel(l) \/ LinkChannelItem(l)
    <3>1. linker[l].channel \in Channels
      BY <2>2, <2>3 DEF UpsertChannel, LinkChannelItem, LinkerNamed
    <3>. QED BY <1>0, <2>1, <2>3, <3>1 DEF UpsertChannel, LinkChannelItem, ChannelsTyped, RowsTyped
  <2>4. CASE LinkItemFeed(l)
    <3>1. Canon(linker[l].channel) \in Address
      BY <2>2, <2>4, AddressesTyped DEF LinkItemFeed, LinkerNamed
    <3>. QED BY <1>0, <2>1, <2>4, <3>1 DEF LinkItemFeed, ChannelsTyped, RowsTyped
  <2>5. CASE LinkPolledFeed(l)
    <3>1. linker[l].brought \in Address
      BY <2>2, <2>5 DEF LinkPolledFeed, LinkerNamed
    <3>. QED BY <1>0, <2>1, <2>5, <3>1 DEF LinkPolledFeed, ChannelsTyped, RowsTyped
  <2>6. CASE DropDirtyRow(l)
    BY <1>0, <2>1, <2>6 DEF DropDirtyRow, ChannelsTyped, RowsTyped
  <2>7. CASE LinkerFails(l) \/ EvictLinker(l)
    <3>1. breaks' \in 0..MaxBreaks
      BY <1>0, <2>7, ItemChannelsAssumption DEF LinkerFails, EvictLinker, RowsTyped
    <3>. QED BY <1>0, <2>1, <2>7, <3>1 DEF LinkerFails, EvictLinker, ChannelsTyped, RowsTyped
  <2>. QED BY <1>2, <2>3, <2>4, <2>5, <2>6, <2>7
<1>3. ASSUME UNCHANGED linker PROVE LinkersTyped'
  BY <1>0, <1>3 DEF LinkersTyped, LinkersNamed, LinkerNamed
<1>4. ASSUME NEW v \in Videos, Exclude(v) \/ BackfillLinks(v) PROVE ChannelsTyped'
  <2>1. CASE Exclude(v)
    BY <1>0, <1>3, <2>1 DEF Exclude, ChannelsTyped, RowsTyped
  <2>2. CASE BackfillLinks(v)
    <3>1. PICK r \in feedRows[v] : linkedTo' = [linkedTo EXCEPT ![v] = @ \cup ChannelsOf(r)]
      BY <2>2 DEF BackfillLinks
    <3>2. ChannelsOf(r) \subseteq Channels
      BY <1>0 DEF ChannelsOf, RowsTyped
    <3>. QED BY <1>0, <1>3, <2>2, <3>1, <3>2 DEF BackfillLinks, ChannelsTyped, RowsTyped
  <2>. QED BY <1>4, <2>1, <2>2
<1>5. ASSUME NEW s \in Subs, Heal(s) \/ Migrate(s) PROVE ChannelsTyped'
  <2>1. subscribed[s].feed \in Address /\ subscribed[s].feed.of \in Channels
    BY <1>0 DEF RowsTyped, Address
  <2>2. CASE Heal(s)
    <3>1. Canon(subscribed[s].feed.of) \in Address
      BY <2>1, AddressesTyped
    <3>3. subscribed' \in [Subs -> [channel: Channels \cup {NoOwner}, feed: Address]]
      BY <1>0, <3>1, <2>2 DEF Heal, RowsTyped
    <3>. QED BY <1>0, <1>3, <2>2, <3>3 DEF Heal, ChannelsTyped, RowsTyped
  <2>3. CASE Migrate(s)
    <3>1. subscribed' \in [Subs -> [channel: Channels \cup {NoOwner}, feed: Address]]
      BY <1>0, <2>1, <2>3 DEF Migrate, RowsTyped
    <3>2. linkedTo' \in [Videos -> SUBSET Channels] /\ channelRows' \subseteq Channels
      BY <1>0, <2>1, <2>3 DEF Migrate, RowsTyped
    <3>. QED BY <1>0, <1>3, <2>3, <3>1, <3>2 DEF Migrate, ChannelsTyped, RowsTyped
  <2>. QED BY <1>5, <2>2, <2>3
<1>6. ASSUME StartWalk \/ StartBatch \/ EndBatch PROVE ChannelsTyped'
  BY <1>0, <1>3, <1>6, ItemChannelsAssumption DEF StartWalk, StartBatch, EndBatch, ChannelsTyped, RowsTyped
<1>7. ASSUME UNCHANGED channelVars PROVE ChannelsTyped'
  BY <1>0, <1>3, <1>7 DEF channelVars, ChannelsTyped, RowsTyped
<1>. QED BY <1>1, <1>2, <1>4, <1>5, <1>6, <1>7 DEF ChannelsNext

-----------------------------------------------------------------------------
(* An item keeps what says whose it is *)

\* Past its link, the item of a linker has a channel, but for the legacy follow's
\* that only brings its address.
LinkedFirst ==
  \A l \in Linkers :
    \/ linker[l].pc \in {"feed", "drop"}
    \/ linker[l].pc = "row" /\ linker[l].path # "legacy"
    => linkedTo[linker[l].video] # {}

AttributionInv == ChannelsTyped /\ LinkedFirst /\ AttributionKept

\* No step takes a channel from an item.
LEMMA ChannelsStay ==
  ASSUME ChannelsTyped, [ChannelsNext]_channelVars
  PROVE  \A v \in Videos : linkedTo[v] \subseteq linkedTo'[v]
<1>0. linkedTo \in [Videos -> SUBSET Channels]
  BY DEF ChannelsTyped, RowsTyped
<1>1. ASSUME NEW l \in Linkers, LinkChannelItem(l)
      PROVE  \A v \in Videos : linkedTo[v] \subseteq linkedTo'[v]
  BY <1>0, <1>1 DEF LinkChannelItem
<1>2. ASSUME NEW s \in Subs, Migrate(s)
      PROVE  \A v \in Videos : linkedTo[v] \subseteq linkedTo'[v]
  BY <1>0, <1>2 DEF Migrate
<1>3. ASSUME NEW w \in Videos, BackfillLinks(w)
      PROVE  \A v \in Videos : linkedTo[v] \subseteq linkedTo'[v]
  BY <1>0, <1>3 DEF BackfillLinks
<1>4. ASSUME UNCHANGED linkedTo
      PROVE  \A v \in Videos : linkedTo[v] \subseteq linkedTo'[v]
  BY <1>4
<1>. QED BY <1>1, <1>2, <1>3, <1>4
     DEF ChannelsNext, channelVars, AddByHand, FinishRun, PollLinked, PollLegacy, BackfillItem,
         UpsertChannel, LinkItemFeed, LinkPolledFeed, DropDirtyRow, LinkerFails, EvictLinker,
         Exclude, Heal, StartWalk, StartBatch, EndBatch

\* A linker that a step moves past its link was there, or is linking its item.
LEMMA PastTheLink ==
  ASSUME ChannelsTyped, LinkedFirst, [ChannelsNext]_channelVars, NEW l \in Linkers,
         \/ linker'[l].pc \in {"feed", "drop"}
         \/ linker'[l].pc = "row" /\ linker'[l].path # "legacy"
  PROVE  linkedTo'[linker'[l].video] # {}
<1>0. /\ RowsTyped /\ linker \in [Linkers -> Linker]
      /\ \A k \in Linkers : LinkerNamed(linker[k])
  BY DEF ChannelsTyped, LinkersTyped, LinkersNamed
<1>. DEFINE Same == /\ linker'[l].video = linker[l].video
                    /\ \/ linker[l].pc \in {"feed", "drop"}
                       \/ linker[l].pc = "row" /\ linker[l].path # "legacy"
<1>1. ASSUME Same PROVE linkedTo'[linker'[l].video] # {}
  <2>1. linkedTo[linker[l].video] # {} /\ linker[l].video \in Videos
    BY <1>0, <1>1 DEF LinkedFirst, LinkerNamed
  <2>. QED BY <1>1, <2>1, ChannelsStay
<1>2. ASSUME linker'[l] = linker[l] PROVE Same
  BY <1>2
<1>3. ASSUME NEW m \in Linkers,
             \/ UpsertChannel(m) \/ LinkChannelItem(m) \/ LinkItemFeed(m) \/ LinkPolledFeed(m)
             \/ DropDirtyRow(m) \/ LinkerFails(m) \/ EvictLinker(m)
      PROVE  linkedTo'[linker'[l].video] # {}
  <2>1. CASE m # l
    <3>1. linker'[l] = linker[l] \/ linker'[l] = AtRest
      BY <1>0, <1>3, <2>1
      DEF UpsertChannel, LinkChannelItem, LinkItemFeed, LinkPolledFeed, DropDirtyRow, LinkerFails,
          EvictLinker, Moves, Goes, Rests
    <3>. QED BY <1>1, <1>2, <3>1 DEF AtRest
  <2>2. CASE m = l /\ LinkChannelItem(l)
    <3>1. linker[l].video \in Videos /\ linker'[l].video = linker[l].video
      BY <1>0, <2>2 DEF LinkChannelItem, Goes, LinkerNamed
    <3>. QED BY <1>0, <2>2, <3>1 DEF LinkChannelItem, RowsTyped
  <2>3. CASE m = l /\ LinkItemFeed(l)
    <3>1. linker[l].pc = "feed" /\ (Rests(l) \/ \E point : Goes(l, point))
      BY <2>3 DEF LinkItemFeed, Moves
    <3>2. CASE Rests(l)
      BY <1>0, <3>2 DEF Rests, AtRest
    <3>3. CASE \E point : Goes(l, point)
      <4>1. linker'[l].video = linker[l].video
        BY <1>0, <3>3 DEF Goes
      <4>. QED BY <1>1, <3>1, <4>1
    <3>. QED BY <3>1, <3>2, <3>3
  <2>4. CASE m = l /\ LinkerFails(l)
    <3>1. Rests(l) \/ (Goes(l, "row") /\ linker[l].path = "legacy")
      BY <2>4 DEF LinkerFails, Moves
    <3>2. CASE Rests(l)
      BY <1>0, <3>2 DEF Rests, AtRest
    <3>3. CASE Goes(l, "row") /\ linker[l].path = "legacy"
      BY <1>0, <3>3 DEF Goes, Linker
    <3>. QED BY <3>1, <3>2, <3>3
  <2>5. CASE m = l /\ UpsertChannel(l)
    BY <1>0, <2>5 DEF UpsertChannel, Goes
  <2>6. CASE m = l /\ (LinkPolledFeed(l) \/ DropDirtyRow(l) \/ EvictLinker(l))
    <3>1. linker'[l] = AtRest
      BY <1>0, <2>6 DEF LinkPolledFeed, DropDirtyRow, EvictLinker, Rests
    <3>. QED BY <3>1 DEF AtRest
  <2>. QED BY <1>3, <2>1, <2>2, <2>3, <2>4, <2>5, <2>6
<1>4. ASSUME NEW m \in Linkers, NEW k, linker' = [linker EXCEPT ![m] = k],
             \/ k.pc \in {"idle", "upsert", "link"}
             \/ k.path = "legacy" /\ k.pc = "row"
      PROVE  linkedTo'[linker'[l].video] # {}
  <2>1. linker'[l] = linker[l] \/ linker'[l] = k
    BY <1>0, <1>4
  <2>. QED BY <1>1, <1>2, <1>4, <2>1
<1>5. ASSUME NEW m \in Linkers, NEW v \in Videos,
             \/ \E hinted \in BOOLEAN : AddByHand(m, v, hinted) \/ FinishRun(m, v, hinted)
             \/ \E s \in Subs : PollLinked(m, s, v) \/ PollLegacy(m, s, v)
             \/ \E asked \in {"a", "b", "auto"} : BackfillItem(m, v, asked)
      PROVE  linkedTo'[linker'[l].video] # {}
  <2>. DEFINE Early(k) == k.pc \in {"idle", "upsert", "link"} \/ (k.path = "legacy" /\ k.pc = "row")
  <2>1. \A k : StartLinker(m, k) /\ Early(k) => linkedTo'[linker'[l].video] # {}
    BY <1>4 DEF StartLinker
  <2>2. ASSUME NEW hinted \in BOOLEAN, AddByHand(m, v, hinted) \/ FinishRun(m, v, hinted)
        PROVE  linkedTo'[linker'[l].video] # {}
    <3>1. StartLinker(m, Attaching("attach", v)) \/ StartLinker(m, AtRest)
      BY <2>2 DEF AddByHand, FinishRun
    <3>2. Early(Attaching("attach", v)) /\ Early(AtRest)
      BY DEF Attaching, AtRest
    <3>. QED BY <2>1, <3>1, <3>2
  <2>3. ASSUME NEW s \in Subs, PollLinked(m, s, v) PROVE linkedTo'[linker'[l].video] # {}
    <3>. DEFINE k == [AtRest EXCEPT !.pc = "link", !.path = "poll", !.video = v,
                               !.channel = subscribed[s].channel,
                               !.brought = Canon(subscribed[s].channel)]
    <3>1. StartLinker(m, k)
      BY <2>3 DEF PollLinked
    <3>2. k.pc = "link"
      BY DEF AtRest
    <3>. HIDE DEF k
    <3>. QED BY <2>1, <3>1, <3>2
  <2>4. ASSUME NEW s \in Subs, PollLegacy(m, s, v) PROVE linkedTo'[linker'[l].video] # {}
    <3>. DEFINE k == [AtRest EXCEPT !.pc = "row", !.path = "legacy", !.video = v,
                               !.brought = subscribed[s].feed]
                n == [Attaching("legacy", v) EXCEPT !.brought = subscribed[s].feed]
    <3>1. StartLinker(m, k) \/ StartLinker(m, n)
      BY <2>4 DEF PollLegacy
    <3>2. Early(k) /\ Early(n)
      BY DEF Attaching, AtRest
    <3>. HIDE DEF k, n
    <3>. QED BY <2>1, <3>1, <3>2
  <2>5. ASSUME NEW asked \in {"a", "b", "auto"}, BackfillItem(m, v, asked)
        PROVE  linkedTo'[linker'[l].video] # {}
    <3>1. UNCHANGED linker \/ \E r : Repair(m, v, r)
      BY <2>5 DEF BackfillItem, Skip
    <3>2. ASSUME NEW r, Repair(m, v, r) PROVE linkedTo'[linker'[l].video] # {}
      <4>. DEFINE k == [Attaching("walk", v) EXCEPT !.dirty = r]
      <4>1. linker' = [linker EXCEPT ![m] = k]
        BY <3>2 DEF Repair
      <4>2. k.pc = "upsert"
        BY DEF Attaching, AtRest
      <4>. HIDE DEF k
      <4>. QED BY <1>4, <4>1, <4>2
    <3>. QED BY <1>1, <1>2, <3>1, <3>2
  <2>. QED BY <1>5, <2>2, <2>3, <2>4, <2>5
<1>. QED BY <1>1, <1>2, <1>3, <1>5
     DEF ChannelsNext, channelVars, Exclude, BackfillLinks, Heal, Migrate, StartWalk, StartBatch, EndBatch

LEMMA StepAttribution ==
  ASSUME AttributionInv, [ChannelsNext]_channelVars PROVE AttributionInv'
<1>0. /\ ChannelsTyped /\ LinkedFirst /\ FeedMeansChannel /\ OwnerNotLost
      /\ RowsTyped /\ \A l \in Linkers : linker[l] \in Linker /\ LinkerNamed(linker[l])
  BY DEF AttributionInv, AttributionKept, ChannelsTyped, LinkersTyped, LinkersNamed
<1>1. ChannelsTyped'
  BY <1>0, StepChannelsTyped
<1>2. LinkedFirst'
  BY <1>0, PastTheLink DEF LinkedFirst
<1>3. \A v \in Videos : linkedTo[v] # {} => linkedTo'[v] # {}
  BY <1>0, ChannelsStay
\* What a step adds to the rows of an item, and what it takes away.
<1>4. ASSUME NEW v \in Videos
      PROVE  \/ linkedTo'[v] # {}
             \/ \E new \in SUBSET Address :
                  feedRows'[v] = feedRows[v] \cup new /\ inherited'[v] = inherited[v] \cup new
  <2>. DEFINE Good == \/ linkedTo'[v] # {}
                      \/ \E new \in SUBSET Address :
                           feedRows'[v] = feedRows[v] \cup new /\ inherited'[v] = inherited[v] \cup new
  <2>1. ASSUME UNCHANGED <<feedRows, inherited>> PROVE Good
    <3>1. feedRows'[v] = feedRows[v] \cup {} /\ inherited'[v] = inherited[v] \cup {} /\ {} \in SUBSET Address
      BY <2>1
    <3>. QED BY <3>1
  <2>2. ASSUME NEW l \in Linkers, LinkItemFeed(l) PROVE Good
    <3>1. CASE linker[l].video = v
      BY <1>0, <1>3, <2>2, <3>1 DEF LinkItemFeed, LinkedFirst
    <3>2. CASE linker[l].video # v
      <4>1. feedRows'[v] = feedRows[v] \cup {} /\ inherited'[v] = inherited[v] \cup {} /\ {} \in SUBSET Address
        BY <1>0, <2>2, <3>2 DEF LinkItemFeed, RowsTyped
      <4>. QED BY <4>1
    <3>. QED BY <3>1, <3>2
  <2>3. ASSUME NEW l \in Linkers, DropDirtyRow(l) PROVE Good
    <3>1. CASE linker[l].video = v
      BY <1>0, <1>3, <2>3, <3>1 DEF DropDirtyRow, LinkedFirst
    <3>2. CASE linker[l].video # v
      <4>1. feedRows'[v] = feedRows[v] \cup {} /\ inherited'[v] = inherited[v] \cup {} /\ {} \in SUBSET Address
        BY <1>0, <2>3, <3>2 DEF DropDirtyRow, RowsTyped
      <4>. QED BY <4>1
    <3>. QED BY <3>1, <3>2
  <2>4. ASSUME NEW l \in Linkers, LinkPolledFeed(l) PROVE Good
    <3>1. CASE linker[l].video = v /\ linker[l].path # "legacy"
      BY <1>0, <1>3, <2>4, <3>1 DEF LinkPolledFeed, LinkedFirst
    <3>2. CASE linker[l].video = v /\ linker[l].path = "legacy"
      <4>1. linker[l].brought \in Address
        BY <1>0, <2>4 DEF LinkPolledFeed, LinkerNamed
      <4>2. /\ feedRows'[v] = feedRows[v] \cup {linker[l].brought}
            /\ inherited'[v] = inherited[v] \cup {linker[l].brought}
        BY <1>0, <2>4, <3>2 DEF LinkPolledFeed, RowsTyped
      <4>. QED BY <4>1, <4>2
    <3>3. CASE linker[l].video # v
      <4>1. feedRows'[v] = feedRows[v] \cup {} /\ inherited'[v] = inherited[v] \cup {} /\ {} \in SUBSET Address
        BY <1>0, <2>4, <3>3 DEF LinkPolledFeed, RowsTyped
      <4>. QED BY <4>1
    <3>. QED BY <3>1, <3>2, <3>3
  <2>. HIDE DEF Good
  <2>5. Good
    BY <2>1, <2>2, <2>3, <2>4
    DEF ChannelsNext, channelVars, AddByHand, FinishRun, PollLinked, PollLegacy, BackfillItem,
        UpsertChannel, LinkChannelItem, LinkerFails, EvictLinker,
        Exclude, BackfillLinks, Heal, Migrate, StartWalk, StartBatch, EndBatch
  <2>. QED BY <2>5 DEF Good
<1>5. FeedMeansChannel'
  <2>1. SUFFICES ASSUME NEW v \in Videos, feedRows'[v] \ inherited'[v] # {}, linkedTo'[v] = {}
                 PROVE  FALSE
    BY DEF FeedMeansChannel
  <2>2. linkedTo[v] = {}
    BY <1>3, <2>1
  <2>. QED BY <1>0, <1>4, <2>1, <2>2 DEF FeedMeansChannel
<1>6. OwnerNotLost'
  <2>1. SUFFICES ASSUME NEW v \in Videos, NEW r \in inherited'[v], RowTells(v, r), linkedTo'[v] = {}
                 PROVE  \E t \in feedRows'[v] : RowTells(v, t)
    BY DEF OwnerNotLost, Telling, RowTells
  <2>2. linkedTo[v] = {}
    BY <1>3, <2>1
  <2>3. PICK new \in SUBSET Address :
          feedRows'[v] = feedRows[v] \cup new /\ inherited'[v] = inherited[v] \cup new
    BY <1>4, <2>1
  <2>4. CASE r \in new
    BY <2>1, <2>3, <2>4
  <2>5. CASE r \in inherited[v]
    <3>1. Telling(v) # {}
      BY <1>0, <2>1, <2>2, <2>5 DEF OwnerNotLost
    <3>. QED BY <2>3, <3>1 DEF Telling
  <2>. QED BY <2>1, <2>3, <2>4, <2>5
<1>. QED BY <1>1, <1>2, <1>5, <1>6 DEF AttributionInv, AttributionKept

LEMMA InitAttribution ==
  ASSUME ChannelsInit PROVE AttributionInv
<1>1. LinkedFirst
  BY DEF ChannelsInit, LinkedFirst, AtRest
<1>2. FeedMeansChannel
  BY DEF ChannelsInit, FeedMeansChannel
<1>3. OwnerNotLost
  BY DEF ChannelsInit, OwnerNotLost, Telling
<1>. QED BY <1>1, <1>2, <1>3, InitChannelsTyped DEF AttributionInv, AttributionKept

\* "An item can never end up with a feed row but no channel" (itemChannel.ts:5), for the
\* rows that neither the time before nor a legacy follow has left, and no item
\* loses the row that says whose it is before it has its channel: for any
\* number of items, channels, follows, linkers and evictions.
THEOREM AttributionAlwaysKept == ChannelsSpec => []AttributionKept
<1>1. AttributionInv => AttributionKept
  BY DEF AttributionInv
<1>. QED BY <1>1, InitAttribution, StepAttribution, PTL DEF ChannelsSpec

-----------------------------------------------------------------------------
(* The walk finds every item without a channel *)

\* The items that the walk has to find: those from its beginning that have no channel.
Orphans == walk.present \cap Unchanneled

\* They are reported up to the cursor; up to the end of the batch that runs they
\* are reported, in the batch, or under repair.
BeingRepaired == {v \in Videos : \E l \in Linkers : linker[l].path = "walk" /\ linker[l].video = v}
Accounted == walk.skipped \cup walk.left \cup BeingRepaired

WalkKept ==
  /\ walk \in Walk /\ \A v \in walk.present : Exists(v)
  /\ \A v \in Orphans : v <= walk.after => v \in walk.skipped
  /\ walk.pc = "batch" =>
       \A v \in Orphans : v <= walk.last \/ walk.short => v \in Accounted
  /\ WalkFindsAll

WalkInv == ChannelsTyped /\ LinkedFirst /\ WalkKept

\* No item comes to be one of those that the walk has to find.
LEMMA OrphansOnlyLeave ==
  ASSUME WalkInv, [ChannelsNext]_channelVars
  PROVE  \A v \in Videos : Exists(v) => Exists(v)' /\ (v \in Unchanneled' => v \in Unchanneled)
<1>0. videoState \in [Videos -> {"none", "queued", "done", "excluded"}]
  BY DEF WalkInv, ChannelsTyped, RowsTyped
<1>1. \A v \in Videos : linkedTo'[v] = {} => linkedTo[v] = {}
  BY ChannelsStay DEF WalkInv
<1>2. \A v \in Videos : videoState[v] # "none" =>
        videoState'[v] # "none" /\ (videoState[v] = "excluded" => videoState'[v] = "excluded")
  <2>. DEFINE Good == \A v \in Videos : videoState[v] # "none" =>
        videoState'[v] # "none" /\ (videoState[v] = "excluded" => videoState'[v] = "excluded")
  <2>1. ASSUME NEW v \in Videos, Created(v) PROVE Good
    BY <1>0, <2>1 DEF Created, Exists
  <2>2. ASSUME NEW l \in Linkers, NEW v \in Videos, NEW hinted \in BOOLEAN, FinishRun(l, v, hinted)
        PROVE  Good
    BY <1>0, <2>2 DEF FinishRun
  <2>3. ASSUME NEW v \in Videos, Exclude(v) PROVE Good
    BY <1>0, <2>3 DEF Exclude
  <2>4. ASSUME UNCHANGED videoState PROVE Good
    BY <2>4
  <2>. HIDE DEF Good
  <2>5. Good
    BY <2>1, <2>2, <2>3, <2>4
    DEF ChannelsNext, channelVars, AddByHand, PollLinked, PollLegacy, BackfillItem,
        UpsertChannel, LinkChannelItem, LinkItemFeed, LinkPolledFeed, DropDirtyRow, LinkerFails,
        EvictLinker, BackfillLinks, Heal, Migrate, StartWalk, StartBatch, EndBatch
  <2>. QED BY <2>5 DEF Good
<1>. QED BY <1>1, <1>2 DEF Exists, Unchanneled

\* A step that leaves the walk alone, but for items it reports, and those that are
\* accounted for are so still.
LEMMA WalkUntouched ==
  ASSUME WalkInv, [ChannelsNext]_channelVars,
         walk' \in Walk, walk'.pc = walk.pc, walk'.after = walk.after, walk'.last = walk.last,
         walk'.short = walk.short, walk'.present = walk.present,
         walk.skipped \subseteq walk'.skipped,
         \A v \in Orphans' : v \in Accounted => v \in Accounted'
  PROVE  WalkKept'
<1>1. walk.present \subseteq Videos /\ \A v \in walk.present : Exists(v)
  BY DEF WalkInv, WalkKept, Walk
<1>2. \A v \in walk.present : Exists(v)'
  BY <1>1, OrphansOnlyLeave
<1>3. Orphans' \subseteq Orphans
  <2>1. ASSUME NEW v \in Orphans' PROVE v \in Orphans
    <3>1. v \in walk.present /\ v \in Unchanneled'
      BY <2>1 DEF Orphans
    <3>2. v \in Unchanneled
      BY <1>1, <3>1, OrphansOnlyLeave
    <3>. QED BY <3>1, <3>2 DEF Orphans
  <2>. QED BY <2>1
<1>4. /\ \A v \in Orphans : v <= walk.after => v \in walk.skipped
      /\ walk.pc = "batch" => \A v \in Orphans : v <= walk.last \/ walk.short => v \in Accounted
      /\ walk.pc = "ended" => Orphans \subseteq walk.skipped
  BY DEF WalkInv, WalkKept, WalkFindsAll, Orphans
<1>5. \A v \in Orphans' : v <= walk'.after => v \in walk'.skipped
  BY <1>3, <1>4
<1>6. walk'.pc = "batch" => \A v \in Orphans' : v <= walk'.last \/ walk'.short => v \in Accounted'
  BY <1>3, <1>4
<1>7. walk'.pc = "ended" => Orphans' \subseteq walk'.skipped
  BY <1>3, <1>4
<1>8. (\A v \in walk.present : Exists(v))'
  BY <1>2 DEF Exists
<1>. QED BY <1>5, <1>6, <1>7, <1>8 DEF WalkKept, WalkFindsAll, Orphans

\* A batch is the first items after the cursor, and all of them if it is short.
LEMMA BatchIsFirst ==
  ASSUME ChannelsTyped, NEW after \in Nat
  PROVE  /\ Candidates(after) \subseteq Unchanneled
         /\ LastOf(Candidates(after), after) \in Nat
         /\ \A v \in Unchanneled : v > after /\ v <= LastOf(Candidates(after), after)
                                     => v \in Candidates(after)
         /\ Cardinality(Candidates(after)) < BatchLimit
              => \A v \in Unchanneled : v > after => v \in Candidates(after)
<1>. DEFINE beyond == {v \in Unchanneled : v > after}
            batch == {v \in beyond : Cardinality({w \in beyond : w < v}) < BatchLimit}
            ends == batch \cup {after}
<1>1. Candidates(after) = batch
  BY DEF Candidates
<1>2. beyond \in SUBSET Nat /\ IsFiniteSet(beyond) /\ BatchLimit \in Nat
  <2>1. beyond \subseteq Videos /\ Videos \subseteq Nat /\ IsFiniteSet(Videos) /\ BatchLimit \in Nat
    BY ItemChannelsAssumption DEF Unchanneled
  <2>. HIDE DEF beyond
  <2>. QED BY <2>1, FS_Subset
<1>3. /\ \A v \in batch : \A w \in beyond : w <= v => w \in batch
      /\ Cardinality(batch) < BatchLimit => batch = beyond
  <2>. HIDE DEF beyond
  <2>. QED BY <1>2, FirstOnes
<1>4. batch \subseteq beyond
  OBVIOUS
<1>5. ends \in SUBSET Nat /\ ends # {} /\ IsFiniteSet(ends)
  <2>1. IsFiniteSet(batch)
    <3>. HIDE DEF beyond
    <3>. QED BY <1>2, <1>4, FS_Subset
  <2>2. IsFiniteSet(ends)
    <3>. HIDE DEF batch
    <3>. QED BY <2>1, FS_AddElement
  <2>. QED BY <1>2, <1>4, <2>2
<1>6. \E n \in ends : \A v \in ends : v <= n
  <2>. HIDE DEF ends
  <2>. QED BY <1>5, HighestOf
<1>7. /\ LastOf(batch, after) \in ends
      /\ \A v \in batch : v <= LastOf(batch, after)
  <2>. HIDE DEF batch
  <2>1. \E n \in batch \cup {after} : \A v \in batch : v <= n
    BY <1>6
  <2>. QED BY <2>1 DEF LastOf
<1>8. \A v \in beyond : v <= LastOf(batch, after) => v \in batch
  <2>1. SUFFICES ASSUME NEW v \in beyond, v <= LastOf(batch, after) PROVE v \in batch
    OBVIOUS
  <2>2. v > after /\ v \in Nat
    BY <1>2
  <2>3. LastOf(batch, after) # after
    BY <2>1, <2>2
  <2>4. LastOf(batch, after) \in batch
    <3>. HIDE DEF batch
    <3>. QED BY <1>7, <2>3
  <2>. HIDE DEF batch, beyond
  <2>. QED BY <1>3, <2>1, <2>4
<1>9. LastOf(batch, after) \in Nat
  <2>. HIDE DEF ends
  <2>. QED BY <1>5, <1>7
<1>10. \A v \in Unchanneled : v > after => v \in beyond
  OBVIOUS
<1>11. beyond \subseteq Unchanneled
  OBVIOUS
<1>. HIDE DEF beyond, batch, ends
<1>. QED BY <1>1, <1>3, <1>4, <1>8, <1>9, <1>10, <1>11

\* A repair goes on, is reported, or has linked its item; unless its request is evicted.
LEMMA RepairsKept ==
  ASSUME WalkInv, [ChannelsNext]_channelVars, NEW l \in Linkers, linker[l].path = "walk"
  PROVE  \/ linker'[l].path = "walk" /\ linker'[l].video = linker[l].video
         \/ linkedTo'[linker[l].video] # {}
         \/ LinkerFails(l)
         \/ \E m \in Linkers : EvictLinker(m) /\ linker[m].path = "walk"
<1>0. /\ ChannelsTyped /\ LinkedFirst /\ linker \in [Linkers -> Linker]
      /\ \A k \in Linkers : LinkerNamed(linker[k])
  BY DEF WalkInv, ChannelsTyped, LinkersTyped, LinkersNamed
<1>1. linker[l].pc # "idle" /\ linker[l].video \in Videos
  BY <1>0 DEF LinkerNamed
<1>. DEFINE Stays == linker'[l].path = "walk" /\ linker'[l].video = linker[l].video
<1>2. ASSUME NEW m \in Linkers, NEW k, m # l, linker' = [linker EXCEPT ![m] = k] PROVE Stays
  BY <1>0, <1>2
<1>3. ASSUME NEW m \in Linkers, NEW v \in Videos,
             \/ \E hinted \in BOOLEAN : AddByHand(m, v, hinted) \/ FinishRun(m, v, hinted)
             \/ \E s \in Subs : PollLinked(m, s, v) \/ PollLegacy(m, s, v)
             \/ \E asked \in {"a", "b", "auto"} : BackfillItem(m, v, asked)
      PROVE  Stays
  <2>1. \/ UNCHANGED linker
        \/ linker[m].pc = "idle" /\ \E k : linker' = [linker EXCEPT ![m] = k]
    BY <1>3 DEF AddByHand, FinishRun, PollLinked, PollLegacy, BackfillItem, StartLinker, Repair, Skip
  <2>. QED BY <1>1, <1>2, <2>1
<1>4. ASSUME NEW point, Goes(l, point) PROVE Stays
  BY <1>0, <1>4 DEF Goes
<1>5. ASSUME UpsertChannel(l) \/ LinkChannelItem(l) PROVE Stays
  BY <1>4, <1>5 DEF UpsertChannel, LinkChannelItem
<1>6. ASSUME LinkItemFeed(l) \/ DropDirtyRow(l) PROVE linkedTo'[linker[l].video] # {}
  BY <1>0, <1>1, <1>6, ChannelsStay DEF LinkItemFeed, DropDirtyRow, LinkedFirst
<1>7. ASSUME LinkPolledFeed(l) PROVE FALSE
  BY <1>0, <1>7 DEF LinkPolledFeed, LinkerNamed
<1>8. ASSUME NEW m \in Linkers, m # l,
             \/ UpsertChannel(m) \/ LinkChannelItem(m) \/ LinkItemFeed(m) \/ LinkPolledFeed(m)
             \/ DropDirtyRow(m) \/ LinkerFails(m)
      PROVE  Stays
  <2>1. Rests(m) \/ \E point : Goes(m, point)
    BY <1>8 DEF UpsertChannel, LinkChannelItem, LinkItemFeed, LinkPolledFeed, DropDirtyRow,
                LinkerFails, Moves
  <2>. QED BY <1>2, <1>8, <2>1 DEF Rests, Goes
<1>9. ASSUME NEW m \in Linkers, EvictLinker(m), linker[m].path # "walk" PROVE Stays
  <2>1. m # l /\ Rests(m)
    BY <1>9 DEF EvictLinker
  <2>. QED BY <1>2, <2>1 DEF Rests
<1>10. ASSUME UNCHANGED linker PROVE Stays
  BY <1>10
<1>. HIDE DEF Stays
<1>11. Stays \/ linkedTo'[linker[l].video] # {} \/ LinkerFails(l)
       \/ \E m \in Linkers : EvictLinker(m) /\ linker[m].path = "walk"
  BY <1>3, <1>5, <1>6, <1>7, <1>8, <1>9, <1>10
  DEF ChannelsNext, channelVars, Exclude, BackfillLinks, Heal, Migrate, StartWalk, StartBatch, EndBatch
<1>. QED BY <1>11 DEF Stays

LEMMA StepWalk ==
  ASSUME WalkInv, [ChannelsNext]_channelVars PROVE WalkKept'
<1>0. /\ ChannelsTyped /\ linker \in [Linkers -> Linker] /\ walk \in Walk
      /\ \A l \in Linkers : LinkerNamed(linker[l])
      /\ Videos \subseteq Nat \ {0}
      /\ \A v \in walk.present : Exists(v)
      /\ \A v \in Orphans : v <= walk.after => v \in walk.skipped
      /\ walk.pc = "batch" => \A v \in Orphans : v <= walk.last \/ walk.short => v \in Accounted
  BY ItemChannelsAssumption DEF WalkInv, WalkKept, ChannelsTyped, LinkersTyped, LinkersNamed
<1>1. \A v \in Orphans' : v \in Videos /\ linkedTo'[v] = {}
  BY DEF Orphans, Unchanneled
<1>2. walk.present \subseteq Videos /\ \A v \in walk.present : Exists(v)'
  BY <1>0, OrphansOnlyLeave DEF Walk
<1>3. ASSUME walk'.present = walk.present PROVE Orphans' \subseteq Orphans
  <2>1. SUFFICES ASSUME NEW v \in Orphans' PROVE v \in Orphans
    OBVIOUS
  <2>2. v \in walk.present /\ v \in Unchanneled'
    BY <1>3 DEF Orphans
  <2>3. v \in Unchanneled
    BY <1>0, <1>2, <2>2, OrphansOnlyLeave
  <2>. QED BY <2>2, <2>3 DEF Orphans
<1>4. CASE \E m \in Linkers : EvictLinker(m) /\ linker[m].path = "walk"
  <2>1. walk' = [walk EXCEPT !.pc = "between", !.left = {}, !.last = 0, !.short = FALSE]
    BY <1>4 DEF EvictLinker
  <2>2. /\ walk' \in Walk /\ walk'.pc = "between" /\ walk'.after = walk.after
        /\ walk'.skipped = walk.skipped /\ walk'.present = walk.present
    BY <1>0, <2>1 DEF Walk
  <2>3. (\A v \in walk.present : Exists(v))'
    BY <1>2, <2>2 DEF Exists
  <2>. QED BY <1>0, <1>3, <2>2, <2>3 DEF WalkKept, WalkFindsAll
<1>. DEFINE NoEviction == ~\E m \in Linkers : EvictLinker(m) /\ linker[m].path = "walk"
\* Unless it is evicted, what is under repair stays so, or is reported.
<1>5. ASSUME NoEviction, walk.skipped \subseteq walk'.skipped, NEW v \in Orphans', v \in BeingRepaired
      PROVE  v \in (BeingRepaired \cup walk.skipped)'
  <2>1. PICK l \in Linkers : linker[l].path = "walk" /\ linker[l].video = v
    BY <1>5 DEF BeingRepaired
  <2>2. CASE linker'[l].path = "walk" /\ linker'[l].video = v
    BY <1>1, <2>2 DEF BeingRepaired
  <2>3. CASE LinkerFails(l)
    <3>1. walk'.skipped = walk.skipped \cup {v}
      BY <1>0, <2>1, <2>3 DEF LinkerFails, Walk
    <3>. QED BY <3>1
  <2>. QED BY <1>1, <1>5, <2>1, <2>2, <2>3, RepairsKept
<1>6. CASE NoEviction /\ UNCHANGED walk
  <2>1. ASSUME NEW v \in Orphans', v \in Accounted PROVE v \in Accounted'
    BY <1>5, <1>6, <2>1 DEF Accounted
  <2>. QED BY <1>0, <1>6, <2>1, WalkUntouched
<1>7. ASSUME NoEviction, NEW l \in Linkers, LinkerFails(l) PROVE WalkKept'
  <2>1. CASE linker[l].path # "walk"
    BY <1>6, <1>7, <2>1 DEF LinkerFails
  <2>2. CASE linker[l].path = "walk"
    <3>1. walk' = [walk EXCEPT !.skipped = @ \cup {linker[l].video}]
      BY <1>7, <2>2 DEF LinkerFails
    <3>2. linker[l].video \in Videos
      BY <1>0, <1>7 DEF LinkerFails, LinkerNamed
    <3>3. /\ walk' \in Walk /\ walk'.pc = walk.pc /\ walk'.after = walk.after /\ walk'.last = walk.last
          /\ walk'.short = walk.short /\ walk'.present = walk.present /\ walk'.left = walk.left
          /\ walk.skipped \subseteq walk'.skipped
      BY <1>0, <3>1, <3>2 DEF Walk
    <3>4. ASSUME NEW v \in Orphans', v \in Accounted PROVE v \in Accounted'
      BY <1>5, <1>7, <3>3, <3>4 DEF Accounted
    <3>. QED BY <3>3, <3>4, WalkUntouched
  <2>. QED BY <2>1, <2>2
<1>8. ASSUME NoEviction, NEW l \in Linkers, NEW w \in Videos, NEW asked \in {"a", "b", "auto"},
             BackfillItem(l, w, asked)
      PROVE  WalkKept'
  <2>1. \/ Skip(w)
        \/ \E r : Repair(l, w, r)
    BY <1>8 DEF BackfillItem
  <2>2. /\ walk' \in Walk /\ walk'.pc = walk.pc /\ walk'.after = walk.after /\ walk'.last = walk.last
        /\ walk'.short = walk.short /\ walk'.present = walk.present /\ walk'.left = walk.left \ {w}
        /\ walk.skipped \subseteq walk'.skipped
    <3>1. \/ walk' = [walk EXCEPT !.left = @ \ {w}, !.skipped = @ \cup {w}]
          \/ walk' = [walk EXCEPT !.left = @ \ {w}]
      BY <2>1 DEF Skip, Repair
    <3>2. CASE walk' = [walk EXCEPT !.left = @ \ {w}, !.skipped = @ \cup {w}]
      BY <1>0, <3>2 DEF Walk
    <3>3. CASE walk' = [walk EXCEPT !.left = @ \ {w}]
      BY <1>0, <3>3 DEF Walk
    <3>. QED BY <3>1, <3>2, <3>3
  <2>3. w \in walk'.skipped \/ w \in BeingRepaired'
    <3>1. CASE Skip(w)
      BY <1>0, <3>1 DEF Skip, Walk
    <3>2. ASSUME NEW r, Repair(l, w, r) PROVE w \in BeingRepaired'
      <4>1. linker'[l] = [Attaching("walk", w) EXCEPT !.dirty = r]
        BY <1>0, <3>2 DEF Repair
      <4>2. linker'[l].path = "walk" /\ linker'[l].video = w
        BY <4>1 DEF Attaching, AtRest
      <4>. QED BY <4>2 DEF BeingRepaired
    <3>. QED BY <2>1, <3>1, <3>2
  <2>4. ASSUME NEW v \in Orphans', v \in Accounted PROVE v \in Accounted'
    BY <1>5, <1>8, <2>2, <2>3, <2>4 DEF Accounted
  <2>. QED BY <2>2, <2>4, WalkUntouched
<1>9. CASE StartWalk
  <2>1. /\ walk'.present = {v \in Videos : Exists(v)} /\ walk'.after = 0 /\ walk'.pc = "between"
        /\ walk' \in Walk
    BY <1>9 DEF StartWalk, NoWalk, Walk
  <2>2. \A v \in Videos : ~(v <= 0)
    BY <1>0
  <2>3. (\A v \in walk.present : Exists(v))'
    BY <1>9, <2>1 DEF StartWalk, Exists
  <2>. QED BY <1>1, <2>1, <2>2, <2>3 DEF WalkKept, WalkFindsAll
<1>10. CASE StartBatch
  <2>. DEFINE batch == Candidates(walk.after)
              last == LastOf(batch, walk.after)
              short == Cardinality(batch) < BatchLimit
  <2>1. walk.after \in Nat
    BY <1>0 DEF Walk
  <2>2. /\ batch \subseteq Unchanneled /\ last \in Nat
        /\ \A v \in Unchanneled : v > walk.after /\ v <= last => v \in batch
        /\ Cardinality(batch) < BatchLimit => \A v \in Unchanneled : v > walk.after => v \in batch
    BY <1>0, <2>1, BatchIsFirst
  <2>3. walk' = [walk EXCEPT !.pc = "batch", !.left = batch, !.last = last,
                          !.short = short]
    BY <1>10 DEF StartBatch
  <2>. HIDE DEF batch, last
  <2>4. batch \subseteq Videos
    BY <2>2 DEF Unchanneled
  <2>5. /\ walk' \in Walk /\ walk'.pc = "batch" /\ walk'.left = batch /\ walk'.last = last
        /\ walk'.short = short /\ walk'.after = walk.after
        /\ walk'.skipped = walk.skipped /\ walk'.present = walk.present
    <3>1. short \in BOOLEAN
      OBVIOUS
    <3>. HIDE DEF short
    <3>. QED BY <1>0, <2>2, <2>3, <2>4, <3>1 DEF Walk
  <2>6. Orphans' \subseteq Orphans
    BY <1>3, <2>5
  <2>7. ASSUME NEW v \in Orphans', v <= walk'.last \/ walk'.short PROVE v \in Accounted'
    <3>1. v \in Orphans /\ v \in Unchanneled /\ v \in Nat
      BY <1>0, <1>1, <2>6 DEF Orphans
    <3>2. CASE v <= walk.after
      BY <1>0, <2>5, <3>1, <3>2 DEF Accounted
    <3>3. CASE v > walk.after
      BY <2>2, <2>5, <2>7, <3>1, <3>3 DEF Accounted
    <3>. QED BY <2>1, <3>1, <3>2, <3>3
  <2>8. (\A v \in walk.present : Exists(v))'
    BY <1>2, <2>5 DEF Exists
  <2>9. \A v \in Orphans' : v <= walk'.after => v \in walk'.skipped
    BY <1>0, <2>5, <2>6
  <2>. QED BY <2>5, <2>7, <2>8, <2>9 DEF WalkKept, WalkFindsAll
<1>11. CASE EndBatch
  <2>1. /\ walk.pc = "batch" /\ walk.left = {} /\ BeingRepaired = {}
        /\ walk' = BatchAnswer(walk.short)
    BY <1>11 DEF EndBatch, BeingRepaired
  <2>2. /\ walk' \in Walk /\ walk'.after = walk.last
        /\ walk'.pc = (IF walk.short THEN "ended" ELSE "between")
        /\ walk'.skipped = walk.skipped /\ walk'.present = walk.present
    BY <1>0, <2>1 DEF BatchAnswer, Walk
  <2>3. Orphans' \subseteq Orphans
    BY <1>3, <2>2
  <2>4. \A v \in Orphans' : v <= walk.last \/ walk.short => v \in walk.skipped
    BY <1>0, <2>1, <2>3 DEF Accounted
  <2>5. (\A v \in walk.present : Exists(v))'
    BY <1>2, <2>2 DEF Exists
  <2>6. \A v \in Orphans' : v <= walk'.after => v \in walk'.skipped
    BY <2>2, <2>4
  <2>7. walk'.pc = "ended" => Orphans' \subseteq walk'.skipped
    BY <2>2, <2>4
  <2>. QED BY <2>2, <2>5, <2>6, <2>7 DEF WalkKept, WalkFindsAll, Orphans
<1>12. ASSUME NoEviction, NEW l \in Linkers, EvictLinker(l) PROVE UNCHANGED walk
  BY <1>12 DEF EvictLinker
<1>. HIDE DEF NoEviction
<1>13. CASE NoEviction
  BY <1>6, <1>7, <1>8, <1>9, <1>10, <1>11, <1>12, <1>13
  DEF ChannelsNext, channelVars, AddByHand, FinishRun, PollLinked, PollLegacy,
      UpsertChannel, LinkChannelItem, LinkItemFeed, LinkPolledFeed, DropDirtyRow, Exclude,
      BackfillLinks, Heal, Migrate
<1>. QED BY <1>4, <1>13 DEF NoEviction

LEMMA InitWalk ==
  ASSUME ChannelsInit PROVE WalkInv
<1>1. LinkedFirst
  BY DEF ChannelsInit, LinkedFirst, AtRest
<1>2. WalkKept
  BY DEF ChannelsInit, WalkKept, WalkFindsAll, NoWalk, Walk, Orphans
<1>. QED BY <1>1, <1>2, InitChannelsTyped DEF WalkInv

LEMMA WalkInvStays == WalkInv /\ [ChannelsNext]_channelVars => WalkInv'
<1>. SUFFICES ASSUME WalkInv, [ChannelsNext]_channelVars PROVE WalkInv'
  OBVIOUS
<1>1. ChannelsTyped' /\ WalkKept'
  BY StepChannelsTyped, StepWalk DEF WalkInv
<1>2. LinkedFirst'
  BY PastTheLink DEF WalkInv, LinkedFirst
<1>. QED BY <1>1, <1>2 DEF WalkInv

\* The admin's walk over the items without a channel misses none: what it has not
\* linked when it says it is through it has reported, however large its batches
\* are, however often one is evicted, and whatever is added, linked or excluded
\* meanwhile (POST /backfill-item-channels).
THEOREM WalkAlwaysFindsAll == ChannelsSpec => []WalkFindsAll
<1>1. WalkInv => WalkFindsAll
  BY DEF WalkInv, WalkKept
<1>. QED BY <1>1, WalkInvStays, InitWalk, PTL DEF ChannelsSpec

\* Every reachable state of the channels of items is well typed: a linker that is past a
\* statement names the item and the channel it goes on with, and the walk names items.
THEOREM ChannelsTypeCorrect == ChannelsSpec => []ChannelsTypeOK
<1>1. WalkInv => ChannelsTypeOK
  BY DEF WalkInv, WalkKept, ChannelsTyped, RowsTyped, LinkersTyped, ChannelsTypeOK
<1>. QED BY <1>1, WalkInvStays, InitWalk, PTL DEF ChannelsSpec

-----------------------------------------------------------------------------
(* Follows and polls are well typed *)

\* A message names its follow, and a poll that imports has something to import.
JobNamed(j) ==
  /\ j.pc # "free" => j.follow \in Follows
  /\ j.pc = "import" => j.batch # {}
JobsNamed == \A s \in Slots : JobNamed(job[s])
PollsTyped == TypeOK /\ JobsNamed

LEMMA LowestAndHighest ==
  ASSUME NEW S \in SUBSET Entries, S # {}
  PROVE  /\ Min(S) \in S /\ \A e \in S : Min(S) <= e
         /\ Max(S) \in S /\ \A e \in S : e <= Max(S)
<1>1. S \in SUBSET Nat /\ IsFiniteSet(S)
  BY FollowAssumption, FS_Subset
<1>2. Min(S) \in S /\ \A e \in S : Min(S) <= e
  BY <1>1, LowestOf DEF Min
<1>3. \E x \in S : \A y \in S : x >= y
  <2>1. PICK x \in S : \A y \in S : y <= x
    BY <1>1, HighestOf
  <2>. QED BY <1>1, <2>1
<1>4. Max(S) \in S /\ \A e \in S : Max(S) >= e
  BY <1>3 DEF Max
<1>5. ASSUME NEW e \in S PROVE e <= Max(S)
  <2>1. e \in Nat /\ Max(S) \in Nat /\ Max(S) >= e
    BY <1>1, <1>4
  <2>. QED BY <2>1
<1>. QED BY <1>2, <1>4, <1>5

LEMMA FreeTyped == Free \in Job /\ JobNamed(Free) /\ Unborn \in Follow
BY DEF Free, Job, Cursor, JobNamed, Unborn, Follow, Phase

\* Jobs that others have overtaken or made stale, and jobs one of which is sent.
LEMMA MarkedTyped ==
  ASSUME NEW jobs \in [Slots -> Job], \A s \in Slots : JobNamed(jobs[s]), NEW f \in Follows
  PROVE  /\ Stamped(jobs, f) \in [Slots -> Job] /\ \A s \in Slots : JobNamed(Stamped(jobs, f)[s])
         /\ Overtaken(jobs, f) \in [Slots -> Job] /\ \A s \in Slots : JobNamed(Overtaken(jobs, f)[s])
<1>1. ASSUME NEW s \in Slots
      PROVE  /\ [jobs[s] EXCEPT !.stale = @ \/ Asked(jobs[s], f)] \in Job
             /\ JobNamed([jobs[s] EXCEPT !.stale = @ \/ Asked(jobs[s], f)])
             /\ [jobs[s] EXCEPT !.overtaken = @ \/ Asked(jobs[s], f)] \in Job
             /\ JobNamed([jobs[s] EXCEPT !.overtaken = @ \/ Asked(jobs[s], f)])
  <2>1. (jobs[s].stale \/ Asked(jobs[s], f)) \in BOOLEAN /\ (jobs[s].overtaken \/ Asked(jobs[s], f)) \in BOOLEAN
    OBVIOUS
  <2>. QED BY <2>1 DEF Job, JobNamed
<1>. QED BY <1>1 DEF Stamped, Overtaken

LEMMA StoredTyped ==
  ASSUME NEW jobs \in [Slots -> Job], \A s \in Slots : JobNamed(jobs[s]),
         NEW t, NEW j \in Job, JobNamed(j)
  PROVE  /\ [jobs EXCEPT ![t] = j] \in [Slots -> Job]
         /\ \A s \in Slots : JobNamed([jobs EXCEPT ![t] = j][s])
<1>1. ASSUME NEW s \in Slots PROVE JobNamed([jobs EXCEPT ![t] = j][s])
  <2>1. [jobs EXCEPT ![t] = j][s] \in {j, jobs[s]}
    OBVIOUS
  <2>. QED BY <2>1
<1>. QED BY <1>1

LEMMA SentTyped ==
  ASSUME NEW jobs \in [Slots -> Job], \A s \in Slots : JobNamed(jobs[s]),
         NEW f \in Follows, NEW force \in BOOLEAN
  PROVE  /\ Sent(jobs, f, force) \in [Slots -> Job]
         /\ \A s \in Slots : JobNamed(Sent(jobs, f, force)[s])
<1>. DEFINE j == [Free EXCEPT !.pc = "waiting", !.follow = f, !.force = force]
<1>1. j \in Job /\ JobNamed(j)
  BY DEF Free, Job, Cursor, JobNamed
<1>. HIDE DEF j
<1>2. Sent(jobs, f, force) = [jobs EXCEPT ![Min(FreeSlots)] = j]
  BY DEF Sent, j
<1>. QED BY <1>1, <1>2, StoredTyped

\* The batches of both kinds of feed.
LEMMA BatchesTyped ==
  ASSUME feed \in SUBSET Entries, feed # {}, NEW c, NEW unknown
  PROVE  /\ DatedBatch(c, unknown).entries \in SUBSET feed
         /\ DatedBatch(c, unknown).next \in Cursor
         /\ UndatedBatch(c, unknown).entries \in SUBSET feed
         /\ UndatedBatch(c, unknown).next \in Cursor
<1>1. Fresh(c) \in SUBSET feed /\ Max(feed) \in Entries
  BY LowestAndHighest DEF Fresh
<1>2. DatedBatch(c, unknown).entries \in SUBSET feed /\ UndatedBatch(c, unknown).entries \in SUBSET feed
  BY <1>1 DEF DatedBatch, UndatedBatch, Oldest, Newest
<1>3. UndatedBatch(c, unknown).next \in Cursor
  BY <1>1 DEF UndatedBatch, Cursor
<1>4. DatedBatch(c, unknown).next \in Cursor
  <2>. DEFINE wanted == {e \in Fresh(c) \ Old : e \notin Short \/ e \in unknown}
              taken == Oldest(MaxNew, wanted)
  <2>1. taken \subseteq wanted /\ wanted \subseteq Entries
    BY <1>1 DEF Oldest
  <2>2. wanted # taken => taken # {}
    <3>1. SUFFICES ASSUME taken = {}, wanted # {} PROVE FALSE
      OBVIOUS
    <3>2. wanted \in SUBSET Nat /\ IsFiniteSet(wanted) /\ MaxNew \in Nat /\ 0 < MaxNew
      <4>1. Entries \subseteq Nat /\ IsFiniteSet(Entries) /\ MaxNew \in Nat /\ 0 < MaxNew
        BY FollowAssumption
      <4>. HIDE DEF wanted
      <4>. QED BY <2>1, <4>1, FS_Subset
    <3>. HIDE DEF wanted
    <3>. QED BY <3>1, <3>2, FirstOnes, FS_EmptySet DEF Oldest
  <2>3. taken # {} => Max(taken) \in Entries
    <3>. HIDE DEF wanted, taken
    <3>. QED BY <2>1, LowestAndHighest
  <2>4. DatedBatch(c, unknown).next = IF wanted = taken THEN Max(feed) ELSE Max(taken)
    BY DEF DatedBatch
  <2>. HIDE DEF wanted, taken
  <2>. QED BY <1>1, <2>2, <2>3, <2>4 DEF Cursor
<1>. QED BY <1>2, <1>3, <1>4

FollowsTyped ==
  /\ follow \in [Follows -> Follow]
  /\ \A f \in Follows : Live(f) \/ follow[f] = [Unborn EXCEPT !.state = follow[f].state]

\* A live follow is written, or one is born or goes.
LEMMA FollowStored ==
  ASSUME FollowsTyped, NEW f \in Follows, NEW r \in Follow,
         r.state = "live" \/ r = [Unborn EXCEPT !.state = r.state],
         follow' = [follow EXCEPT ![f] = r]
  PROVE  FollowsTyped'
<1>1. follow' \in [Follows -> Follow]
  BY DEF FollowsTyped
<1>2. ASSUME NEW g \in Follows
      PROVE  follow'[g].state = "live" \/ follow'[g] = [Unborn EXCEPT !.state = follow'[g].state]
  <2>1. CASE g = f
    BY <2>1 DEF FollowsTyped
  <2>2. CASE g # f
    BY <2>2 DEF FollowsTyped, Live
  <2>. QED BY <2>1, <2>2
<1>. QED BY <1>1, <1>2 DEF FollowsTyped, Live

LEMMA CheckedTyped ==
  ASSUME FollowsTyped, NEW f \in Follows, follow' = Checked(f) PROVE FollowsTyped'
<1>1. CASE Live(f)
  <2>. DEFINE r == [follow[f] EXCEPT !.phase = "recent"]
  <2>1. follow' = [follow EXCEPT ![f] = r]
    BY <1>1 DEF Checked
  <2>2. r \in Follow /\ r.state = "live"
    BY <1>1 DEF FollowsTyped, Follow, Phase, Live
  <2>. HIDE DEF r
  <2>. QED BY <2>1, <2>2, FollowStored
<1>2. CASE ~Live(f)
  BY <1>2 DEF Checked, FollowsTyped, Live
<1>. QED BY <1>1, <1>2

\* The steps of the cron and the requests.
LEMMA StepFollows ==
  ASSUME PollsTyped, NEW f \in Follows,
         CronQueue(f) \/ Subscribe(f) \/ Ask(f) \/ Unfollow(f) \/ Age(f) \/ ExpireLease(f)
  PROVE  PollsTyped'
<1>0. /\ FollowsTyped /\ job \in [Slots -> Job] /\ (\A s \in Slots : JobNamed(job[s]))
      /\ feed \subseteq Entries /\ dated \in BOOLEAN /\ imported \in [Follows -> SUBSET Entries]
      /\ pass \subseteq Follows /\ faults \in 0 .. MaxFaults /\ requests \in 0 .. MaxRequests
      /\ follow[f] \in Follow
  BY DEF PollsTyped, TypeOK, FollowsTyped, JobsNamed
<1>1. ASSUME FollowsTyped', job' \in [Slots -> Job] /\ (\A s \in Slots : JobNamed(job'[s])),
             pass' \subseteq pass,
             UNCHANGED faults \/ Fault, UNCHANGED requests \/ Request,
             UNCHANGED <<feed, dated, imported>>
      PROVE  PollsTyped'
  <2>1. faults' \in 0 .. MaxFaults /\ requests' \in 0 .. MaxRequests
    BY <1>0, <1>1, FollowAssumption DEF Fault, Request
  <2>. QED BY <1>0, <1>1, <2>1 DEF PollsTyped, TypeOK, FollowsTyped, JobsNamed, Live, JobNamed
<1>2. CASE CronQueue(f)
  <2>1. FollowsTyped'
    <3>1. CASE Live(f)
      <4>. DEFINE r == [follow[f] EXCEPT !.lease = "live"]
      <4>1. follow' = [follow EXCEPT ![f] = r]
        BY <1>2, <3>1 DEF CronQueue
      <4>2. r \in Follow /\ r.state = "live"
        BY <1>0, <3>1 DEF Follow, Live
      <4>. HIDE DEF r
      <4>. QED BY <1>0, <4>1, <4>2, FollowStored
    <3>2. CASE ~Live(f)
      BY <1>0, <1>2, <3>2 DEF CronQueue, FollowsTyped, Live
    <3>. QED BY <3>1, <3>2
  <2>2. PICK older \in [Slots -> Job] : /\ \A s \in Slots : JobNamed(older[s])
                                        /\ job' = Sent(older, f, FALSE) \/ job' = older
    BY <1>0, <1>2, MarkedTyped DEF CronQueue
  <2>3. job' \in [Slots -> Job] /\ \A s \in Slots : JobNamed(job'[s])
    BY <2>2, SentTyped
  <2>. QED BY <1>1, <1>2, <2>1, <2>3 DEF CronQueue, NoFault
<1>3. CASE Subscribe(f)
  <2>. DEFINE r == [Unborn EXCEPT !.state = "live"]
  <2>1. FollowsTyped'
    <3>1. follow' = [follow EXCEPT ![f] = r]
      BY <1>3 DEF Subscribe
    <3>2. r \in Follow /\ r.state = "live"
      BY FreeTyped DEF Unborn, Follow
    <3>. HIDE DEF r
    <3>. QED BY <1>0, <3>1, <3>2, FollowStored
  <2>2. job' \in [Slots -> Job] /\ \A s \in Slots : JobNamed(job'[s])
    BY <1>0, <1>3, SentTyped DEF Subscribe
  <2>. QED BY <1>1, <1>3, <2>1, <2>2 DEF Subscribe, NoFault
<1>4. CASE Ask(f)
  <2>1. FollowsTyped'
    <3>1. follow' = Checked(f) \/ UNCHANGED follow
      BY <1>4 DEF Ask
    <3>2. UNCHANGED follow => FollowsTyped'
      BY <1>0 DEF FollowsTyped, Live
    <3>. QED BY <1>0, <3>1, <3>2, CheckedTyped
  <2>2. job' \in [Slots -> Job] /\ \A s \in Slots : JobNamed(job'[s])
    <3>1. PICK jobs \in [Slots -> Job] : /\ \A s \in Slots : JobNamed(jobs[s])
                                         /\ job' = Sent(jobs, f, TRUE) \/ job' = jobs
      <4>1. Stamped(job, f) \in [Slots -> Job] /\ \A s \in Slots : JobNamed(Stamped(job, f)[s])
        BY <1>0, MarkedTyped
      <4>2. \/ job' = Sent(Stamped(job, f), f, TRUE) \/ job' = Stamped(job, f)
            \/ job' = Sent(job, f, TRUE)
        BY <1>4 DEF Ask
      <4>. QED BY <1>0, <4>1, <4>2
    <3>. QED BY <3>1, SentTyped
  <2>. QED BY <1>1, <1>4, <2>1, <2>2 DEF Ask, NoFault
<1>5. CASE Unfollow(f)
  <2>. DEFINE r == [Unborn EXCEPT !.state = "gone"]
  <2>1. FollowsTyped'
    <3>1. follow' = [follow EXCEPT ![f] = r]
      BY <1>5 DEF Unfollow
    <3>2. r \in Follow /\ r = [Unborn EXCEPT !.state = r.state]
      BY FreeTyped DEF Unborn, Follow
    <3>. HIDE DEF r
    <3>. QED BY <1>0, <3>1, <3>2, FollowStored
  <2>. QED BY <1>0, <1>1, <1>5, <2>1 DEF Unfollow
<1>6. CASE Age(f)
  <2>. DEFINE r == [follow[f] EXCEPT !.phase = IF @ = "recent" THEN "checked" ELSE "due"]
  <2>1. follow' = [follow EXCEPT ![f] = r]
    BY <1>6 DEF Age
  <2>2. r \in Follow /\ r.state = "live"
    BY <1>0, <1>6 DEF Age, Live, Follow, Phase
  <2>3. FollowsTyped'
    <3>. HIDE DEF r
    <3>. QED BY <1>0, <2>1, <2>2, FollowStored
  <2>. QED BY <1>0, <1>1, <1>6, <2>3 DEF Age
<1>7. CASE ExpireLease(f)
  <2>. DEFINE r == [follow[f] EXCEPT !.lease = "expired"]
  <2>1. follow' = [follow EXCEPT ![f] = r]
    BY <1>7 DEF ExpireLease
  <2>2. r \in Follow /\ r.state = "live"
    BY <1>0, <1>7 DEF ExpireLease, Live, FollowsTyped, Unborn, Follow
  <2>3. FollowsTyped'
    <3>. HIDE DEF r
    <3>. QED BY <1>0, <2>1, <2>2, FollowStored
  <2>. QED BY <1>0, <1>1, <1>7, <2>3 DEF ExpireLease
<1>. QED BY <1>2, <1>3, <1>4, <1>5, <1>6, <1>7

\* The steps of a poll.
LEMMA StepPoll ==
  ASSUME PollsTyped, NEW s \in Slots, Poll(s) \/ RecordFails(s) \/ Evict(s)
  PROVE  PollsTyped'
<1>. DEFINE f == job[s].follow
            Jobs(jobs) == jobs \in [Slots -> Job] /\ \A t \in Slots : JobNamed(jobs[t])
<1>0. /\ FollowsTyped /\ Jobs(job)
      /\ feed \subseteq Entries /\ dated \in BOOLEAN /\ imported \in [Follows -> SUBSET Entries]
      /\ pass \subseteq Follows /\ faults \in 0 .. MaxFaults /\ requests \in 0 .. MaxRequests
      /\ job[s] \in Job /\ JobNamed(job[s])
  BY DEF PollsTyped, TypeOK, FollowsTyped, JobsNamed
<1>00. f \in Follows /\ follow[f] \in Follow
  <2>1. job[s].pc # "free"
    BY DEF Poll, Deliver, Clear, NoFeed, Select, Import, ImportFails, Record, RecordFails, Evict, At
  <2>. QED BY <1>0, <2>1 DEF JobNamed, FollowsTyped
<1>1. ASSUME FollowsTyped', Jobs(job'), imported' \in [Follows -> SUBSET Entries],
             UNCHANGED faults \/ Fault, UNCHANGED <<feed, dated, pass, requests>>
      PROVE  PollsTyped'
  <2>1. faults' \in 0 .. MaxFaults
    BY <1>0, <1>1, FollowAssumption DEF Fault
  <2>. QED BY <1>0, <1>1, <2>1 DEF PollsTyped, TypeOK, FollowsTyped, JobsNamed, Live, JobNamed
<1>2. UNCHANGED follow => FollowsTyped'
  BY <1>0 DEF FollowsTyped, Live
<1>3. UNCHANGED imported => imported' \in [Follows -> SUBSET Entries]
  BY <1>0
\* One job is stored, in the jobs as they were or as they are after a check.
<1>4. ASSUME NEW j \in Job, JobNamed(j),
             job' = [job EXCEPT ![s] = j] \/ job' = [Stamped(job, f) EXCEPT ![s] = j]
      PROVE  Jobs(job')
  <2>1. Jobs(Stamped(job, f))
    BY <1>0, <1>00, MarkedTyped
  <2>2. ASSUME NEW jobs, Jobs(jobs) PROVE Jobs([jobs EXCEPT ![s] = j])
    BY <1>4, <2>2, StoredTyped
  <2>. HIDE DEF Jobs, f
  <2>3. Jobs([job EXCEPT ![s] = j]) /\ Jobs([Stamped(job, f) EXCEPT ![s] = j])
    BY <1>0, <2>1, <2>2
  <2>. QED BY <1>4, <2>3
<1>5. CASE Deliver(s)
  <2>. DEFINE j == [job[s] EXCEPT !.pc = "clear", !.cursor = follow[f].cursor,
                                  !.recent = follow[f].phase = "recent"]
  <2>1. job' = [job EXCEPT ![s] = j] \/ job' = [job EXCEPT ![s] = Free]
    BY <1>0, <1>5 DEF Deliver
  <2>2. j \in Job /\ JobNamed(j)
    BY <1>0, <1>00 DEF Follow, Job, JobNamed
  <2>3. Jobs(job')
    <3>. HIDE DEF j, Jobs
    <3>. QED BY <1>4, <2>1, <2>2, FreeTyped
  <2>. HIDE DEF Jobs
  <2>. QED BY <1>1, <1>2, <1>3, <1>5, <2>3 DEF Deliver
<1>6. CASE Clear(s)
  <2>. DEFINE j == [job[s] EXCEPT !.pc = "fetch", !.recent = FALSE]
              r == [follow[f] EXCEPT !.lease = "none"]
  <2>1. job' = [job EXCEPT ![s] = j] \/ job' = [job EXCEPT ![s] = Free]
    BY <1>0, <1>6 DEF Clear
  <2>2. j \in Job /\ JobNamed(j)
    BY <1>0, <1>00 DEF Job, JobNamed
  <2>3. Jobs(job')
    <3>. HIDE DEF j, Jobs
    <3>. QED BY <1>4, <2>1, <2>2, FreeTyped
  <2>4. FollowsTyped'
    <3>1. CASE Live(f)
      <4>1. follow' = [follow EXCEPT ![f] = r]
        BY <1>6, <3>1 DEF Clear
      <4>2. r \in Follow /\ r.state = "live"
        BY <1>00, <3>1 DEF Follow, Live
      <4>. HIDE DEF r
      <4>. QED BY <1>0, <1>00, <4>1, <4>2, FollowStored
    <3>2. CASE ~Live(f)
      BY <1>2, <1>6, <3>2 DEF Clear
    <3>. QED BY <3>1, <3>2
  <2>. HIDE DEF Jobs
  <2>. QED BY <1>1, <1>3, <1>6, <2>3, <2>4 DEF Clear
<1>7. CASE NoFeed(s) \/ RecordFails(s)
  <2>1. job' = [job EXCEPT ![s] = Free] \/ job' = [Stamped(job, f) EXCEPT ![s] = Free]
    BY <1>7 DEF NoFeed, RecordFails
  <2>2. Jobs(job')
    <3>. HIDE DEF Jobs
    <3>. QED BY <1>4, <2>1, FreeTyped
  <2>3. UNCHANGED follow \/ follow' = Checked(f)
    BY <1>7 DEF NoFeed, RecordFails
  <2>4. FollowsTyped'
    BY <1>0, <1>00, <1>2, <2>3, CheckedTyped
  <2>. HIDE DEF Jobs
  <2>. QED BY <1>1, <1>3, <1>7, <2>2, <2>4 DEF NoFeed, RecordFails, NoFault
<1>8. CASE Select(s)
  <2>0. PICK unknown \in SUBSET Fresh(job[s].cursor) :
          \E batch \in {DatedBatch(job[s].cursor, unknown), UndatedBatch(job[s].cursor, unknown)} :
            job' = [job EXCEPT ![s].pc = IF batch.entries = {} THEN "record" ELSE "import",
                               ![s].batch = batch.entries, ![s].next = batch.next,
                               ![s].cursor = 0,
                               ![s].reached = IF batch.entries = {} THEN 0 ELSE job[s].cursor]
    BY <1>8 DEF Select
  <2>1. PICK batch \in {DatedBatch(job[s].cursor, unknown), UndatedBatch(job[s].cursor, unknown)} :
            job' = [job EXCEPT ![s].pc = IF batch.entries = {} THEN "record" ELSE "import",
                               ![s].batch = batch.entries, ![s].next = batch.next,
                               ![s].cursor = 0,
                               ![s].reached = IF batch.entries = {} THEN 0 ELSE job[s].cursor]
    BY <2>0
  <2>2. batch.entries \in SUBSET Entries /\ batch.next \in Cursor
    BY <1>0, <1>8, <2>1, BatchesTyped DEF Select
  <2>. DEFINE j == [job[s] EXCEPT !.pc = IF batch.entries = {} THEN "record" ELSE "import",
                                  !.batch = batch.entries, !.next = batch.next, !.cursor = 0,
                                  !.reached = IF batch.entries = {} THEN 0 ELSE job[s].cursor]
  <2>3. job' = [job EXCEPT ![s] = j]
    BY <1>0, <2>1
  <2>4. j \in Job /\ JobNamed(j)
    BY <1>0, <1>00, <2>2 DEF Job, JobNamed, Cursor
  <2>5. Jobs(job')
    <3>. HIDE DEF j, Jobs
    <3>. QED BY <1>4, <2>3, <2>4
  <2>. HIDE DEF Jobs
  <2>. QED BY <1>1, <1>2, <1>3, <1>8, <2>5 DEF Select
<1>9. CASE Import(s)
  <2>. DEFINE e == Min(job[s].batch)
              j == [job[s] EXCEPT !.batch = @ \ {e},
                                  !.reached = IF job[s].batch = {e} THEN 0 ELSE e,
                                  !.pc = IF job[s].batch = {e} THEN "record" ELSE "import"]
  <2>1. job[s].batch \in SUBSET Entries /\ job[s].batch # {}
    BY <1>0, <1>9 DEF Import, At, JobNamed, Job
  <2>2. e \in job[s].batch
    BY <2>1, LowestAndHighest
  <2>3. job' = [job EXCEPT ![s] = j]
    BY <1>0, <1>9 DEF Import
  <2>4. j \in Job /\ JobNamed(j)
    <3>. DEFINE left == job[s].batch \ {e}
                reached == IF job[s].batch = {e} THEN 0 ELSE e
                point == IF job[s].batch = {e} THEN "record" ELSE "import"
    <3>1. left \in SUBSET Entries /\ reached \in Cursor /\ point \in {"record", "import"}
      <4>. HIDE DEF e
      <4>. QED BY <2>1, <2>2 DEF Cursor
    <3>2. point = "import" => left # {}
      <4>. HIDE DEF e
      <4>. QED BY <2>2
    <3>3. j = [job[s] EXCEPT !.batch = left, !.reached = reached, !.pc = point]
      <4>. HIDE DEF e
      <4>. QED BY <1>0 DEF Job
    <3>. HIDE DEF e, left, reached, point, j
    <3>4. j \in Job
      BY <1>0, <3>1, <3>3 DEF Job
    <3>5. j.follow = f /\ j.pc = point /\ j.batch = left
      BY <1>0, <3>3 DEF Job
    <3>. QED BY <1>00, <3>1, <3>2, <3>4, <3>5 DEF JobNamed
  <2>5. Jobs(job')
    <3>. HIDE DEF j, Jobs
    <3>. QED BY <1>4, <2>3, <2>4
  <2>6. imported' \in [Follows -> SUBSET Entries]
    BY <1>0, <1>00, <1>9, <2>1, <2>2 DEF Import
  <2>. HIDE DEF Jobs, e, j
  <2>. QED BY <1>1, <1>2, <1>9, <2>5, <2>6 DEF Import
<1>10. CASE ImportFails(s)
  <2>. DEFINE j == [job[s] EXCEPT !.pc = "record", !.next = job[s].reached, !.batch = {}, !.reached = 0]
  <2>1. job' = [job EXCEPT ![s] = j]
    BY <1>0, <1>10 DEF ImportFails
  <2>2. j \in Job /\ JobNamed(j)
    BY <1>0, <1>00 DEF Job, JobNamed, Cursor
  <2>3. Jobs(job')
    <3>. HIDE DEF j, Jobs
    <3>. QED BY <1>4, <2>1, <2>2
  <2>. HIDE DEF Jobs
  <2>. QED BY <1>1, <1>2, <1>3, <1>10, <2>3 DEF ImportFails, NoFault
<1>11. CASE Record(s)
  <2>1. job' = [Stamped(job, f) EXCEPT ![s] = Free]
    BY <1>11 DEF Record
  <2>2. Jobs(job')
    <3>. HIDE DEF Jobs
    <3>. QED BY <1>4, <2>1, FreeTyped
  <2>3. FollowsTyped'
    <3>1. CASE Live(f)
      <4>. DEFINE r == [follow[f] EXCEPT !.phase = "recent",
                                         !.cursor = IF job[s].next = 0 THEN @ ELSE job[s].next]
      <4>1. follow' = [follow EXCEPT ![f] = r]
        <5>1. Checked(f) = [follow EXCEPT ![f] = [follow[f] EXCEPT !.phase = "recent"]]
          BY <3>1 DEF Checked
        <5>2. follow' = [Checked(f) EXCEPT ![f] = [Checked(f)[f] EXCEPT !.cursor =
                            IF job[s].next = 0 THEN Checked(f)[f].cursor ELSE job[s].next]]
          BY <1>11, <3>1 DEF Record
        <5>3. Checked(f)[f] = [follow[f] EXCEPT !.phase = "recent"]
          BY <1>0, <1>00, <5>1 DEF FollowsTyped
        <5>4. Checked(f)[f].cursor = follow[f].cursor
          BY <1>00, <5>3 DEF Follow
        <5>. QED BY <1>0, <1>00, <5>1, <5>2, <5>3, <5>4 DEF FollowsTyped
      <4>2. r \in Follow /\ r.state = "live"
        BY <1>0, <1>00, <3>1 DEF Follow, Live, Job, Phase
      <4>. HIDE DEF r
      <4>. QED BY <1>0, <1>00, <4>1, <4>2, FollowStored
    <3>2. CASE ~Live(f)
      BY <1>2, <1>11, <3>2 DEF Record
    <3>. QED BY <3>1, <3>2
  <2>. HIDE DEF Jobs
  <2>. QED BY <1>1, <1>3, <1>11, <2>2, <2>3 DEF Record
<1>12. CASE Evict(s)
  <2>. DEFINE j == [Free EXCEPT !.pc = "waiting", !.follow = job[s].follow,
                                !.force = job[s].force, !.stale = job[s].stale,
                                !.overtaken = job[s].overtaken]
  <2>1. job' = [job EXCEPT ![s] = Free] \/ job' = [job EXCEPT ![s] = j]
    BY <1>12 DEF Evict
  <2>2. j \in Job /\ JobNamed(j)
    BY <1>0, <1>00 DEF Free, Job, JobNamed, Cursor
  <2>3. Jobs(job')
    <3>. HIDE DEF j, Jobs
    <3>. QED BY <1>4, <2>1, <2>2, FreeTyped
  <2>. HIDE DEF Jobs
  <2>. QED BY <1>1, <1>2, <1>3, <1>12, <2>3 DEF Evict
<1>. QED BY <1>5, <1>6, <1>7, <1>8, <1>9, <1>10, <1>11, <1>12 DEF Poll

LEMMA StepPollsTyped ==
  ASSUME PollsTyped, [Next]_vars PROVE PollsTyped'
<1>1. CASE CronSelect
  BY <1>1 DEF CronSelect, PollsTyped, TypeOK, JobsNamed, JobNamed, Live
<1>2. ASSUME NEW e \in Entries, Publish(e) PROVE PollsTyped'
  BY <1>2 DEF Publish, PollsTyped, TypeOK, JobsNamed, JobNamed, Live
<1>3. CASE UNCHANGED vars
  BY <1>3 DEF vars, PollsTyped, TypeOK, JobsNamed, JobNamed, Live
<1>. QED BY <1>1, <1>2, <1>3, StepFollows, StepPoll DEF Next

LEMMA InitPollsTyped ==
  ASSUME Init PROVE PollsTyped
<1>1. follow \in [Follows -> Follow]
  BY FreeTyped DEF Init, Unborn, Follow
<1>2. \A f \in Follows : Live(f) \/ follow[f] = [Unborn EXCEPT !.state = follow[f].state]
  <2>1. SUFFICES ASSUME NEW f \in Follows, ~Live(f)
                 PROVE  follow[f] = [Unborn EXCEPT !.state = follow[f].state]
    OBVIOUS
  <2>2. follow[f] = Unborn
    BY <2>1 DEF Init, Live, Unborn
  <2>. QED BY <2>2 DEF Unborn
<1>3. faults \in 0 .. MaxFaults /\ requests \in 0 .. MaxRequests
  BY FollowAssumption DEF Init
<1>4. job \in [Slots -> Job] /\ JobsNamed
  BY FreeTyped DEF Init, JobsNamed
<1>. QED BY <1>1, <1>2, <1>3, <1>4 DEF Init, PollsTyped, TypeOK

\* Every reachable state of the polls of a feed is well typed, a row that is gone
\* is not written again, and a poll that imports has something to import.
THEOREM PollingTypeCorrect == Spec => []TypeOK
<1>1. PollsTyped => TypeOK
  BY DEF PollsTyped
<1>. QED BY <1>1, InitPollsTyped, StepPollsTyped, PTL DEF Spec

-----------------------------------------------------------------------------
(* The cursor passes nothing *)

\* Of what a follow wants, everything up to c is in the library.
Covered(got, c) == \A e \in Wanted : e <= c => e \in got

\* What a poll has read, or has still to import or to record, covers what is wanted.
WorkCovered(j, got) ==
  /\ j.pc \in {"clear", "fetch"} => Covered(got, j.cursor)
  /\ j.pc = "import" => /\ Covered(got, j.reached) /\ Covered(got \cup j.batch, j.next)
                        /\ \A e \in j.batch : e <= j.next
  /\ j.pc = "record" => Covered(got, j.next)

FeedOrdered == \A e \in feed : \A d \in Entries : d <= e => d \in feed
CursorsCovered == \A f \in Follows : Covered(imported[f], follow[f].cursor)
JobsCovered == \A s \in Slots : job[s].pc # "free" => WorkCovered(job[s], imported[job[s].follow])

CursorInv ==
  /\ PollsTyped /\ FeedOrdered
  /\ dated => CursorsCovered /\ JobsCovered

SameWork(j, k) ==
  /\ k.pc = j.pc /\ k.follow = j.follow /\ k.cursor = j.cursor
  /\ k.batch = j.batch /\ k.next = j.next /\ k.reached = j.reached

LEMMA CoveredKept ==
  ASSUME NEW got, NEW more, got \subseteq more
  PROVE  /\ \A c : Covered(got, c) => Covered(more, c)
         /\ \A j, k : SameWork(j, k) /\ WorkCovered(j, got) => WorkCovered(k, more)
<1>1. \A c : Covered(got, c) => Covered(more, c)
  BY DEF Covered
<1>2. \A b, c : Covered(got \cup b, c) => Covered(more \cup b, c)
  BY DEF Covered
<1>. QED BY <1>1, <1>2 DEF SameWork, WorkCovered

\* Works stay covered in a step that changes only marks of jobs, frees or sends them,
\* and those for which it is shown.
LEMMA WorksStored ==
  ASSUME CursorInv, dated,
         \A f \in Follows : imported[f] \subseteq imported'[f],
         \A t \in Slots : \/ SameWork(job[t], job'[t])
                          \/ job'[t].pc \in {"free", "waiting"}
                          \/ WorkCovered(job'[t], imported'[job'[t].follow])
  PROVE  JobsCovered'
<1>1. ASSUME NEW t \in Slots, job'[t].pc # "free"
      PROVE  WorkCovered(job'[t], imported'[job'[t].follow])
  <2>1. CASE SameWork(job[t], job'[t])
    <3>1. job[t].pc # "free" /\ job'[t].follow = job[t].follow
      BY <1>1, <2>1 DEF SameWork
    <3>2. job[t].follow \in Follows
      BY <3>1 DEF CursorInv, PollsTyped, JobsNamed, JobNamed
    <3>3. WorkCovered(job[t], imported[job[t].follow])
      BY <3>1 DEF CursorInv, JobsCovered
    <3>. QED BY <2>1, <3>1, <3>2, <3>3, CoveredKept
  <2>2. CASE job'[t].pc = "waiting"
    BY <2>2 DEF WorkCovered
  <2>. QED BY <1>1, <2>1, <2>2
<1>2. \A t \in Slots : job'[t].pc # "free" => WorkCovered(job'[t], imported'[job'[t].follow])
  BY <1>1
<1>. QED BY <1>2 DEF JobsCovered, WorkCovered, Covered

\* Marks, and messages sent, change no work.
LEMMA MarksKeepWork ==
  ASSUME NEW jobs \in [Slots -> Job], NEW f, NEW t \in Slots
  PROVE  /\ SameWork(jobs[t], Stamped(jobs, f)[t]) /\ SameWork(jobs[t], Overtaken(jobs, f)[t])
         /\ \A force : \/ SameWork(jobs[t], Sent(jobs, f, force)[t])
                       \/ Sent(jobs, f, force)[t].pc = "waiting"
<1>1. jobs[t] \in Job
  OBVIOUS
<1>2. SameWork(jobs[t], Stamped(jobs, f)[t]) /\ SameWork(jobs[t], Overtaken(jobs, f)[t])
  BY <1>1 DEF Stamped, Overtaken, SameWork, Job
<1>3. ASSUME NEW force
      PROVE  \/ SameWork(jobs[t], Sent(jobs, f, force)[t])
             \/ Sent(jobs, f, force)[t].pc = "waiting"
  <2>. DEFINE j == [Free EXCEPT !.pc = "waiting", !.follow = f, !.force = force]
  <2>1. j.pc = "waiting"
    BY DEF Free
  <2>2. Sent(jobs, f, force) = [jobs EXCEPT ![Min(FreeSlots)] = j]
    BY DEF Sent
  <2>. HIDE DEF j
  <2>3. Sent(jobs, f, force)[t] \in {j, jobs[t]}
    BY <2>2
  <2>. QED BY <2>1, <2>3 DEF SameWork
<1>. QED BY <1>2, <1>3

LEMMA SameWorkChains ==
  ASSUME NEW i, NEW j, NEW k, SameWork(i, j), SameWork(j, k) PROVE SameWork(i, k)
BY DEF SameWork

\* Where the cursor of a follow starts, and where it is left alone.
LEMMA CursorsStored ==
  ASSUME CursorInv, dated,
         \A f \in Follows : imported[f] \subseteq imported'[f],
         \A f \in Follows : \/ follow'[f].cursor \in {0, follow[f].cursor}
                            \/ Covered(imported'[f], follow'[f].cursor)
  PROVE  CursorsCovered'
<1>1. ASSUME NEW f \in Follows PROVE Covered(imported'[f], follow'[f].cursor)
  <2>1. Covered(imported[f], follow[f].cursor)
    BY DEF CursorInv, CursorsCovered
  <2>2. Covered(imported'[f], 0)
    BY FollowAssumption DEF Covered, Wanted
  <2>. QED BY <2>1, <2>2, CoveredKept
<1>. QED BY <1>1 DEF CursorsCovered, Covered

LEMMA FollowsKeepCursors ==
  ASSUME CursorInv, dated, NEW f \in Follows,
         CronQueue(f) \/ Subscribe(f) \/ Ask(f) \/ Unfollow(f) \/ Age(f) \/ ExpireLease(f)
  PROVE  CursorsCovered' /\ JobsCovered'
<1>0. job \in [Slots -> Job] /\ follow \in [Follows -> Follow] /\ UNCHANGED imported
  BY DEF CursorInv, PollsTyped, TypeOK, CronQueue, Subscribe, Ask, Unfollow, Age, ExpireLease
<1>1. \A g \in Follows : follow'[g].cursor \in {0, follow[g].cursor}
  <2>1. SUFFICES ASSUME NEW g \in Follows PROVE follow'[g].cursor \in {0, follow[g].cursor}
    OBVIOUS
  <2>2. follow[g] \in Follow
    BY <1>0
  <2>3. CASE CronQueue(f)
    BY <1>0, <2>2, <2>3 DEF CronQueue, Follow
  <2>4. CASE Subscribe(f)
    BY <1>0, <2>2, <2>4 DEF Subscribe, Unborn
  <2>5. CASE Ask(f)
    <3>1. follow' = Checked(f) \/ UNCHANGED follow
      BY <2>5 DEF Ask
    <3>. QED BY <1>0, <2>2, <3>1 DEF Checked, Follow
  <2>6. CASE Unfollow(f)
    BY <1>0, <2>2, <2>6 DEF Unfollow, Unborn
  <2>7. CASE Age(f)
    BY <1>0, <2>2, <2>7 DEF Age, Follow
  <2>8. CASE ExpireLease(f)
    BY <1>0, <2>2, <2>8 DEF ExpireLease, Follow
  <2>. QED BY <2>3, <2>4, <2>5, <2>6, <2>7, <2>8
<1>2. \A t \in Slots : SameWork(job[t], job'[t]) \/ job'[t].pc = "waiting"
  <2>1. SUFFICES ASSUME NEW t \in Slots PROVE SameWork(job[t], job'[t]) \/ job'[t].pc = "waiting"
    OBVIOUS
  <2>2. PICK jobs \in [Slots -> Job] : /\ SameWork(job[t], jobs[t])
                                       /\ \/ job' = jobs
                                          \/ \E force : job' = Sent(jobs, f, force)
    <3>1. /\ Stamped(job, f) \in [Slots -> Job] /\ Overtaken(job, f) \in [Slots -> Job]
          /\ SameWork(job[t], job[t])
      BY <1>0, MarkedTyped DEF CursorInv, PollsTyped, JobsNamed, SameWork
    <3>2. SameWork(job[t], Stamped(job, f)[t]) /\ SameWork(job[t], Overtaken(job, f)[t])
      BY <1>0, MarksKeepWork
    <3>3. \E jobs \in {job, Stamped(job, f), Overtaken(job, f)} :
            job' = jobs \/ \E force : job' = Sent(jobs, f, force)
      BY DEF CronQueue, Subscribe, Ask, Unfollow, Age, ExpireLease
    <3>. QED BY <1>0, <3>1, <3>2, <3>3
  <2>3. ASSUME NEW force, job' = Sent(jobs, f, force)
        PROVE  SameWork(job[t], job'[t]) \/ job'[t].pc = "waiting"
    BY <2>2, <2>3, MarksKeepWork, SameWorkChains
  <2>. QED BY <2>2, <2>3
<1>3. CursorsCovered'
  BY <1>0, <1>1, CursorsStored
<1>4. JobsCovered'
  BY <1>0, <1>2, WorksStored
<1>. QED BY <1>3, <1>4

\* A batch covers everything wanted up to where its cursor goes.
LEMMA BatchCovers ==
  ASSUME feed \in SUBSET Entries, feed # {}, FeedOrdered, NEW c, NEW unknown, NEW got,
         c \in Cursor, Covered(got, c)
  PROVE  LET batch == DatedBatch(c, unknown) IN
         /\ Covered(got \cup batch.entries, batch.next)
         /\ \A e \in batch.entries : e <= batch.next
<1>. DEFINE wanted == {e \in Fresh(c) \ Old : e \notin Short \/ e \in unknown}
            taken == Oldest(MaxNew, wanted)
            next == IF wanted = taken THEN Max(feed) ELSE Max(taken)
<1>0. DatedBatch(c, unknown).entries = taken /\ DatedBatch(c, unknown).next = next
  BY DEF DatedBatch
<1>1. wanted \subseteq feed /\ taken \subseteq wanted
  BY DEF Fresh, Oldest
<1>2. /\ Entries \subseteq Nat /\ IsFiniteSet(Entries) /\ MaxNew \in Nat /\ 0 < MaxNew
      /\ Cursor \subseteq Nat
  BY FollowAssumption DEF Cursor
<1>3. wanted \in SUBSET Nat /\ IsFiniteSet(wanted)
  <2>. HIDE DEF wanted
  <2>. QED BY <1>1, <1>2, FS_Subset
<1>4. /\ \A v \in taken : \A w \in wanted : w <= v => w \in taken
      /\ Cardinality(taken) < MaxNew => taken = wanted
  <2>. HIDE DEF wanted
  <2>. QED BY <1>2, <1>3, FirstOnes DEF Oldest
<1>5. wanted # taken => taken # {}
  <2>. HIDE DEF wanted, taken
  <2>. QED BY <1>2, <1>4, FS_EmptySet
<1>6. Max(feed) \in feed /\ \A e \in feed : e <= Max(feed)
  BY LowestAndHighest
<1>7. wanted # taken => Max(taken) \in taken /\ \A e \in taken : e <= Max(taken)
  <2>. HIDE DEF wanted, taken
  <2>. QED BY <1>1, <1>5, LowestAndHighest
<1>8. next \in feed /\ \A e \in taken : e <= next
  <2>. HIDE DEF wanted, taken
  <2>. QED BY <1>1, <1>6, <1>7
<1>9. ASSUME NEW e \in Wanted, e <= next PROVE e \in got \cup taken
  <2>1. e \in Entries /\ e \notin Short /\ e \notin Old
    BY <1>9 DEF Wanted
  <2>2. e \in feed
    <3>. HIDE DEF next
    <3>. QED BY <1>8, <1>9, <2>1 DEF FeedOrdered
  <2>3. CASE e <= c
    BY <1>9, <2>3 DEF Covered
  <2>4. CASE e > c
    <3>1. e \in wanted
      BY <2>1, <2>2, <2>4 DEF Fresh
    <3>2. wanted = taken \/ e <= Max(taken)
      BY <1>9
    <3>. HIDE DEF wanted, taken
    <3>. QED BY <1>4, <1>7, <3>1, <3>2
  <2>. QED BY <1>2, <2>1, <2>3, <2>4
<1>. HIDE DEF taken, next
<1>. QED BY <1>0, <1>8, <1>9 DEF Covered

LEMMA PollsKeepCursors ==
  ASSUME CursorInv, dated, NEW s \in Slots, Poll(s) \/ RecordFails(s) \/ Evict(s)
  PROVE  CursorsCovered' /\ JobsCovered'
<1>. DEFINE f == job[s].follow
<1>0. /\ job \in [Slots -> Job] /\ follow \in [Follows -> Follow]
      /\ imported \in [Follows -> SUBSET Entries] /\ feed \in SUBSET Entries
      /\ job[s] \in Job /\ JobNamed(job[s])
      /\ CursorsCovered /\ JobsCovered /\ FeedOrdered
  BY DEF CursorInv, PollsTyped, TypeOK, JobsNamed
<1>00. job[s].pc # "free" /\ f \in Follows /\ WorkCovered(job[s], imported[f])
  <2>1. job[s].pc # "free"
    BY DEF Poll, Deliver, Clear, NoFeed, Select, Import, ImportFails, Record, RecordFails, Evict, At
  <2>. QED BY <1>0, <2>1 DEF JobNamed, JobsCovered
\* The follows and what they imported stay, and one job is stored, whose work is covered.
<1>1. ASSUME NEW j, j.pc \in {"free", "waiting"} \/ WorkCovered(j, imported[j.follow]),
             job' = [job EXCEPT ![s] = j] \/ job' = [Stamped(job, f) EXCEPT ![s] = j],
             UNCHANGED imported
      PROVE  JobsCovered'
  <2>1. ASSUME NEW t \in Slots
        PROVE  \/ SameWork(job[t], job'[t])
               \/ job'[t].pc \in {"free", "waiting"}
               \/ WorkCovered(job'[t], imported'[job'[t].follow])
    <3>1. CASE t = s
      <4>1. job'[t] = j
        <5>1. Stamped(job, f) \in [Slots -> Job]
          BY <1>0, <1>00, MarkedTyped DEF CursorInv, PollsTyped, JobsNamed
        <5>. QED BY <1>0, <1>1, <3>1, <5>1
      <4>. QED BY <1>1, <4>1
    <3>2. CASE t # s
      <4>1. job'[t] \in {job[t], Stamped(job, f)[t]}
        BY <1>0, <1>1, <3>2 DEF Stamped
      <4>. QED BY <1>0, <4>1, MarksKeepWork DEF SameWork
    <3>. QED BY <3>1, <3>2
  <2>. QED BY <1>1, <2>1, WorksStored
<1>2. ASSUME UNCHANGED imported, \A g \in Follows : follow'[g].cursor = follow[g].cursor
      PROVE  CursorsCovered'
  BY <1>0, <1>2, CursorsStored
<1>3. ASSUME follow' = Checked(f), UNCHANGED imported PROVE CursorsCovered'
  BY <1>0, <1>00, <1>2, <1>3 DEF Checked, Follow
<1>4. CASE Deliver(s)
  <2>. DEFINE j == [job[s] EXCEPT !.pc = "clear", !.cursor = follow[f].cursor,
                                  !.recent = follow[f].phase = "recent"]
  <2>1. job' = [job EXCEPT ![s] = j] \/ job' = [job EXCEPT ![s] = Free]
    BY <1>0, <1>4 DEF Deliver
  <2>2. j.pc = "clear" /\ j.cursor = follow[f].cursor /\ j.follow = f /\ Free.pc = "free"
    BY <1>0 DEF Job, Free
  <2>3. WorkCovered(j, imported[j.follow])
    <3>. HIDE DEF j
    <3>. QED BY <1>0, <1>00, <2>2 DEF WorkCovered, CursorsCovered
  <2>4. JobsCovered'
    <3>. HIDE DEF j
    <3>. QED BY <1>1, <1>4, <2>1, <2>2, <2>3 DEF Deliver
  <2>. QED BY <1>2, <1>4, <2>4 DEF Deliver
<1>5. CASE Clear(s)
  <2>. DEFINE j == [job[s] EXCEPT !.pc = "fetch", !.recent = FALSE]
  <2>1. job' = [job EXCEPT ![s] = j] \/ job' = [job EXCEPT ![s] = Free]
    BY <1>0, <1>5 DEF Clear
  <2>2. j.pc = "fetch" /\ j.cursor = job[s].cursor /\ j.follow = f /\ Free.pc = "free"
    BY <1>0 DEF Job, Free
  <2>3. WorkCovered(j, imported[j.follow])
    <3>. HIDE DEF j
    <3>. QED BY <1>00, <1>5, <2>2 DEF WorkCovered, Clear, At
  <2>4. JobsCovered'
    <3>. HIDE DEF j
    <3>. QED BY <1>1, <1>5, <2>1, <2>2, <2>3 DEF Clear
  <2>5. \A g \in Follows : follow'[g].cursor = follow[g].cursor
    BY <1>0, <1>5 DEF Clear, Follow
  <2>. QED BY <1>2, <1>5, <2>4, <2>5 DEF Clear
<1>6. CASE NoFeed(s) \/ RecordFails(s)
  <2>1. job' = [job EXCEPT ![s] = Free] \/ job' = [Stamped(job, f) EXCEPT ![s] = Free]
    BY <1>6 DEF NoFeed, RecordFails
  <2>2. Free.pc = "free" /\ UNCHANGED imported
    BY <1>6 DEF Free, NoFeed, RecordFails
  <2>3. follow' = Checked(f) \/ UNCHANGED follow
    BY <1>6 DEF NoFeed, RecordFails
  <2>. QED BY <1>1, <1>2, <1>3, <2>1, <2>2, <2>3
<1>7. CASE Select(s)
  <2>1. PICK unknown \in SUBSET Fresh(job[s].cursor) :
          LET batch == DatedBatch(job[s].cursor, unknown)
          IN job' = [job EXCEPT ![s].pc = IF batch.entries = {} THEN "record" ELSE "import",
                                ![s].batch = batch.entries, ![s].next = batch.next,
                                ![s].cursor = 0,
                                ![s].reached = IF batch.entries = {} THEN 0 ELSE job[s].cursor]
    BY <1>7 DEF Select
  <2>. DEFINE batch == DatedBatch(job[s].cursor, unknown)
              j == [job[s] EXCEPT !.pc = IF batch.entries = {} THEN "record" ELSE "import",
                                  !.batch = batch.entries, !.next = batch.next, !.cursor = 0,
                                  !.reached = IF batch.entries = {} THEN 0 ELSE job[s].cursor]
  <2>2. Covered(imported[f], job[s].cursor) /\ job[s].cursor \in Cursor
    BY <1>0, <1>00, <1>7 DEF WorkCovered, Select, At, Job
  <2>3. /\ Covered(imported[f] \cup batch.entries, batch.next)
        /\ \A e \in batch.entries : e <= batch.next
    BY <1>0, <1>7, <2>2, BatchCovers DEF Select
  <2>. HIDE DEF batch
  <2>4. job' = [job EXCEPT ![s] = j]
    BY <1>0, <2>1 DEF batch
  <2>5. /\ j.follow = f /\ j.batch = batch.entries /\ j.next = batch.next
        /\ \/ batch.entries = {} /\ j.pc = "record"
           \/ j.pc = "import" /\ j.reached = job[s].cursor
    BY <1>0 DEF Job
  <2>6. WorkCovered(j, imported[j.follow])
    <3>. HIDE DEF j
    <3>1. CASE batch.entries = {} /\ j.pc = "record"
      <4>1. imported[f] \cup batch.entries = imported[f]
        BY <3>1
      <4>. QED BY <2>3, <2>5, <3>1, <4>1 DEF WorkCovered
    <3>2. CASE j.pc = "import" /\ j.reached = job[s].cursor
      BY <2>2, <2>3, <2>5, <3>2 DEF WorkCovered
    <3>. QED BY <2>5, <3>1, <3>2
  <2>7. JobsCovered'
    <3>. HIDE DEF j
    <3>. QED BY <1>1, <1>7, <2>4, <2>6 DEF Select
  <2>. QED BY <1>2, <1>7, <2>7 DEF Select
<1>8. CASE ImportFails(s)
  <2>. DEFINE j == [job[s] EXCEPT !.pc = "record", !.next = job[s].reached, !.batch = {}, !.reached = 0]
  <2>1. job' = [job EXCEPT ![s] = j]
    BY <1>0, <1>8 DEF ImportFails
  <2>2. j.pc = "record" /\ j.next = job[s].reached /\ j.follow = f
    BY <1>0 DEF Job
  <2>3. WorkCovered(j, imported[j.follow])
    <3>. HIDE DEF j
    <3>. QED BY <1>00, <1>8, <2>2 DEF WorkCovered, ImportFails, At
  <2>4. JobsCovered'
    <3>. HIDE DEF j
    <3>. QED BY <1>1, <1>8, <2>1, <2>3 DEF ImportFails
  <2>. QED BY <1>2, <1>8, <2>4 DEF ImportFails
<1>9. CASE Record(s)
  <2>1. job' = [Stamped(job, f) EXCEPT ![s] = Free] /\ Free.pc = "free" /\ UNCHANGED imported
    BY <1>9 DEF Record, Free
  <2>2. JobsCovered'
    BY <1>1, <2>1
  <2>3. Covered(imported[f], job[s].next)
    BY <1>00, <1>9 DEF WorkCovered, Record, At
  <2>4. \A g \in Follows : \/ follow'[g].cursor = follow[g].cursor
                           \/ g = f /\ follow'[g].cursor = job[s].next
    BY <1>0, <1>00, <1>9 DEF Record, Checked, Follow
  <2>5. CursorsCovered'
    BY <2>1, <2>3, <2>4, CursorsStored
  <2>. QED BY <2>2, <2>5
<1>10. CASE Evict(s)
  <2>. DEFINE j == [Free EXCEPT !.pc = "waiting", !.follow = job[s].follow,
                                !.force = job[s].force, !.stale = job[s].stale,
                                !.overtaken = job[s].overtaken]
  <2>1. job' = [job EXCEPT ![s] = Free] \/ job' = [job EXCEPT ![s] = j]
    BY <1>10 DEF Evict
  <2>2. j.pc = "waiting" /\ Free.pc = "free"
    BY DEF Free
  <2>3. JobsCovered'
    <3>. HIDE DEF j
    <3>. QED BY <1>1, <1>10, <2>1, <2>2 DEF Evict
  <2>. QED BY <1>2, <1>10, <2>3 DEF Evict
<1>11. CASE Import(s)
  <2>. DEFINE e == Min(job[s].batch)
              j == [job[s] EXCEPT !.batch = @ \ {e},
                                  !.reached = IF job[s].batch = {e} THEN 0 ELSE e,
                                  !.pc = IF job[s].batch = {e} THEN "record" ELSE "import"]
  <2>1. job[s].pc = "import" /\ job[s].batch \in SUBSET Entries /\ job[s].batch # {}
    BY <1>0, <1>11 DEF Import, At, JobNamed, Job
  <2>2. e \in job[s].batch /\ \A b \in job[s].batch : e <= b
    BY <2>1, LowestAndHighest
  <2>3. job' = [job EXCEPT ![s] = j] /\ imported' = [imported EXCEPT ![f] = @ \cup {e}]
        /\ UNCHANGED follow
    BY <1>0, <1>11 DEF Import
  <2>4. /\ j.follow = f /\ j.batch = job[s].batch \ {e} /\ j.next = job[s].next
        /\ \/ j.pc = "record" /\ job[s].batch = {e}
           \/ j.pc = "import" /\ j.reached = e
    <3>. HIDE DEF e
    <3>. QED BY <1>0 DEF Job
  <2>5. /\ Covered(imported[f] \cup job[s].batch, job[s].next)
        /\ \A b \in job[s].batch : b <= job[s].next
    BY <1>00, <2>1 DEF WorkCovered
  <2>6. imported'[f] = imported[f] \cup {e} /\ \A g \in Follows : imported[g] \subseteq imported'[g]
    <3>. HIDE DEF e
    <3>. QED BY <1>0, <1>00, <2>3
  <2>. HIDE DEF e, j
  <2>7. Covered(imported'[f] \cup j.batch, j.next)
    <3>1. imported'[f] \cup j.batch = imported[f] \cup job[s].batch
      BY <2>2, <2>4, <2>6
    <3>. QED BY <2>4, <2>5, <3>1
  <2>8. Covered(imported'[f], e)
    <3>1. ASSUME NEW w \in Wanted, w <= e PROVE w \in imported'[f]
      <4>1. w \in Nat /\ e \in Nat /\ job[s].next \in Nat /\ \A b \in job[s].batch : b \in Nat
        <5>1. Entries \subseteq Nat /\ Wanted \subseteq Entries
          BY FollowAssumption DEF Wanted
        <5>2. job[s].next \in Cursor
          BY <1>0 DEF Job
        <5>3. job[s].next \in Nat
          <6>1. Cursor \subseteq Nat
            BY <5>1 DEF Cursor
          <6>. QED BY <5>2, <6>1
        <5>4. \A b \in job[s].batch : b \in Nat
          BY <2>1, <5>1
        <5>. QED BY <2>2, <3>1, <5>1, <5>3, <5>4
      <4>2. w <= job[s].next
        BY <2>2, <2>5, <3>1, <4>1
      <4>3. w \in imported[f] \cup job[s].batch
        BY <2>5, <4>2 DEF Covered
      <4>4. w \in job[s].batch => w = e
        BY <2>2, <3>1, <4>1
      <4>. QED BY <2>6, <4>3, <4>4
    <3>. QED BY <3>1 DEF Covered
  <2>9. WorkCovered(j, imported'[f])
    <3>1. CASE j.pc = "record" /\ job[s].batch = {e}
      <4>1. imported'[f] \cup j.batch = imported'[f]
        BY <2>4, <3>1
      <4>. QED BY <2>7, <3>1, <4>1 DEF WorkCovered
    <3>2. CASE j.pc = "import" /\ j.reached = e
      BY <2>4, <2>5, <2>7, <2>8, <3>2 DEF WorkCovered
    <3>. QED BY <2>4, <3>1, <3>2
  <2>10. JobsCovered'
    <3>1. ASSUME NEW t \in Slots
          PROVE  SameWork(job[t], job'[t]) \/ WorkCovered(job'[t], imported'[job'[t].follow])
      <4>1. CASE t = s
        BY <1>0, <2>3, <2>4, <2>9, <4>1
      <4>2. CASE t # s
        BY <1>0, <2>3, <4>2 DEF SameWork
      <4>. QED BY <4>1, <4>2
    <3>. QED BY <2>6, <3>1, WorksStored
  <2>11. CursorsCovered'
    BY <2>3, <2>6, CursorsStored
  <2>. QED BY <2>10, <2>11
<1>. QED BY <1>4, <1>5, <1>6, <1>7, <1>8, <1>9, <1>10, <1>11 DEF Poll

\* A dated feed's cursor never passes an entry that was not imported
\* (selectPollBatch, enqueueSubscriptionBatch), for any number of follows, entries
\* and messages, however polls of one follow overlap and whatever fails or is
\* delivered again.
THEOREM CursorAlwaysPassesNothing == Spec => []CursorPassesNothing
<1>1. Init => CursorInv
  <2>1. SUFFICES ASSUME Init PROVE CursorInv
    OBVIOUS
  <2>2. FeedOrdered
    <3>1. ASSUME NEW e \in feed, NEW d \in Entries, d <= e PROVE d \in feed
      <4>1. PICK top \in Entries : feed = {x \in Entries : x <= top}
        BY <2>1, <3>1 DEF Init
      <4>2. d \in Nat /\ e \in Nat /\ top \in Nat /\ e <= top
        BY <3>1, <4>1, FollowAssumption
      <4>. QED BY <3>1, <4>1, <4>2
    <3>. QED BY <3>1 DEF FeedOrdered
  <2>3. CursorsCovered
    BY <2>1, FollowAssumption DEF Init, CursorsCovered, Covered, Wanted, Unborn
  <2>4. JobsCovered
    BY <2>1 DEF Init, JobsCovered, Free
  <2>. QED BY <2>1, <2>2, <2>3, <2>4, InitPollsTyped DEF CursorInv
<1>2. CursorInv /\ [Next]_vars => CursorInv'
  <2>1. SUFFICES ASSUME CursorInv, [Next]_vars PROVE CursorInv'
    OBVIOUS
  <2>2. PollsTyped'
    BY <2>1, StepPollsTyped DEF CursorInv
  <2>3. FeedOrdered'
    <3>1. ASSUME NEW n \in Entries, Publish(n) PROVE FeedOrdered'
      <4>1. ASSUME NEW e \in feed', NEW d \in Entries, d <= e PROVE d \in feed'
        <5>1. feed' = feed \cup {n} /\ \A x \in Entries : x < n => x \in feed
          BY <3>1 DEF Publish
        <5>2. d \in Nat /\ n \in Nat
          BY FollowAssumption
        <5>3. CASE e \in feed
          BY <2>1, <4>1, <5>1, <5>3 DEF CursorInv, FeedOrdered
        <5>4. CASE e = n
          BY <4>1, <5>1, <5>2, <5>4
        <5>. QED BY <5>1, <5>3, <5>4
      <4>. QED BY <4>1 DEF FeedOrdered
    <3>2. UNCHANGED feed => FeedOrdered'
      BY <2>1 DEF CursorInv, FeedOrdered
    <3>. QED BY <2>1, <3>1, <3>2
         DEF Next, vars, Poll, CronSelect, CronQueue, Subscribe, Ask, Unfollow, Age, ExpireLease,
             Deliver, Clear, NoFeed, Select, Import, ImportFails, Record, RecordFails, Evict
  <2>4. UNCHANGED dated
    BY <2>1
    DEF Next, vars, Poll, CronSelect, CronQueue, Subscribe, Ask, Unfollow, Age, ExpireLease, Publish,
        Deliver, Clear, NoFeed, Select, Import, ImportFails, Record, RecordFails, Evict
  <2>5. ASSUME dated PROVE CursorsCovered' /\ JobsCovered'
    <3>1. ASSUME UNCHANGED <<follow, imported, job>> PROVE CursorsCovered' /\ JobsCovered'
      BY <2>1, <2>5, <3>1 DEF CursorInv, CursorsCovered, JobsCovered, Covered, WorkCovered
    <3>. QED BY <2>1, <2>5, <3>1, FollowsKeepCursors, PollsKeepCursors
         DEF Next, vars, CronSelect, Publish
  <2>. QED BY <2>2, <2>3, <2>4, <2>5 DEF CursorInv
<1>3. CursorInv => CursorPassesNothing
  BY DEF CursorInv, CursorPassesNothing, CursorsCovered, Covered
<1>. QED BY <1>1, <1>2, <1>3, PTL DEF Spec

-----------------------------------------------------------------------------
(* The research briefs *)

\* Nothing is planned but for assignments that were added and items that were
\* finished, and a pass inserts what it has planned.
Studied == {i \in Studies : study[i] # "unfinished"}
Added == {a \in Assignments : assignment[a] # "unborn"}
PassPlanned(k) ==
  /\ k.items \subseteq Studied /\ k.plan \subseteq Added \X Studied
  /\ k.pc \in {"look", "insert"} => k.plan # {}
  /\ k.pc = "insert" => k.pair \in k.plan
ResearchInv ==
  /\ ResearchTypeOK /\ BriefsGrounded
  /\ \A p \in Passes : PassPlanned(researching[p])

LEMMA FirstOfPlan ==
  ASSUME NEW plan \in SUBSET Pair, plan # {}
  PROVE  FirstOf(plan) \in plan
<1>. DEFINE items == {m[2] : m \in plan}
<1>0. \A m \in plan : m \in Assignments \X Studies /\ m[1] \in Nat /\ m[2] \in Nat
  BY ResearchAssumption DEF Pair
<1>1. items \subseteq Studies /\ items \in SUBSET Nat /\ items # {} /\ IsFiniteSet(items)
  <2>1. items \subseteq Studies /\ items # {}
    BY <1>0
  <2>. QED BY <2>1, ResearchAssumption, FS_Subset
<1>2. PICK i \in items : \A j \in items : j <= i
  BY <1>1, HighestOf
<1>. DEFINE those == {a \in Assignments : <<a, i>> \in plan}
<1>3. those \in SUBSET Nat /\ those # {}
  <2>1. PICK m \in plan : m[2] = i
    BY <1>2
  <2>2. m = <<m[1], i>> /\ m[1] \in those
    BY <1>0, <2>1
  <2>. QED BY <2>2, ResearchAssumption
<1>4. PICK a \in those : \A b \in those : a <= b
  BY <1>3, LowestOf
<1>5. \A n \in plan : i > n[2] \/ (i = n[2] /\ a <= n[1])
  <2>1. ASSUME NEW n \in plan, ~(i > n[2]) PROVE i = n[2] /\ a <= n[1]
    <3>1. n[2] \in items /\ n[2] <= i /\ i \in Nat /\ n[2] \in Nat
      BY <1>0, <1>1, <1>2
    <3>2. n[2] = i /\ n = <<n[1], i>> /\ n[1] \in those
      BY <1>0, <2>1, <3>1
    <3>. QED BY <1>4, <3>2
  <2>. QED BY <2>1
<1>6. <<a, i>> \in plan
  BY <1>4
<1>7. \E m \in plan : \A n \in plan : m[2] > n[2] \/ (m[2] = n[2] /\ m[1] <= n[1])
  BY <1>5, <1>6
<1>. QED BY <1>7 DEF FirstOf

LEMMA RestingPlanned == Resting \in Pass /\ PassPlanned(Resting)
BY DEF Resting, Pass, PassPlanned

\* A pass that starts has the items of the last days.
LEMMA StartsPlanned ==
  ASSUME NEW some \in SUBSET Readers
  PROVE  /\ [Resting EXCEPT !.pc = "readers", !.readers = some, !.items = Recent] \in Pass
         /\ PassPlanned([Resting EXCEPT !.pc = "readers", !.readers = some, !.items = Recent])
<1>1. Recent \subseteq Studied
  BY DEF Recent, Studied
<1>2. Studied \subseteq Studies
  BY DEF Studied
<1>. QED BY <1>1, <1>2 DEF Resting, Pass, PassPlanned

LEMMA WithPlanned ==
  ASSUME ResearchInv, NEW p \in Passes, NEW plan \in SUBSET (Added \X Studied)
  PROVE  With(p, plan) \in Pass /\ PassPlanned(With(p, plan))
<1>1. researching[p] \in Pass /\ PassPlanned(researching[p])
  BY DEF ResearchInv, ResearchTypeOK
<1>2. Added \X Studied \subseteq Pair
  BY DEF Added, Studied, Pair
<1>. QED BY <1>1, <1>2 DEF With, Pass, PassPlanned

LEMMA PassesPlanned ==
  ASSUME ResearchInv, NEW p \in Passes, NEW k \in Pass, PassPlanned(k), Set(p, k),
         UNCHANGED <<assignment, study>>
  PROVE  /\ researching' \in [Passes -> Pass]
         /\ \A q \in Passes : PassPlanned(researching[q])'
<1>1. researching \in [Passes -> Pass] /\ \A q \in Passes : PassPlanned(researching[q])
  BY DEF ResearchInv, ResearchTypeOK
<1>2. researching' = [researching EXCEPT ![p] = k]
  BY DEF Set
<1>3. \A q \in Passes : researching'[q] = IF q = p THEN k ELSE researching[q]
  BY <1>1, <1>2
<1>4. Studied' = Studied /\ Added' = Added
  BY DEF Studied, Added
<1>5. \A q \in Passes : PassPlanned(researching[q])'
  BY <1>1, <1>3, <1>4 DEF PassPlanned
<1>. QED BY <1>1, <1>2, <1>5

\* What a request or an item does leaves plans what they are.
LEMMA PlansStay ==
  ASSUME ResearchInv, UNCHANGED researching, Added \subseteq Added', Studied \subseteq Studied'
  PROVE  \A q \in Passes : PassPlanned(researching[q])'
BY DEF ResearchInv, PassPlanned

LEMMA ResearchStep == ResearchInv /\ [ResearchNext]_researchVars => ResearchInv'
<1>. SUFFICES ASSUME ResearchInv, [ResearchNext]_researchVars PROVE ResearchInv'
  OBVIOUS
<1>0. /\ assignment \in [Assignments -> {"unborn", "enabled", "disabled", "gone"}]
      /\ study \in [Studies -> {"unfinished", "recent", "old", "gone"}]
      /\ briefs \subseteq Pair /\ researching \in [Passes -> Pass]
      /\ disturbances \in 0..MaxDisturbances /\ MaxDisturbances \in Nat
      /\ BriefsGrounded
      /\ \A p \in Passes : PassPlanned(researching[p]) /\ researching[p] \in Pass
  BY ResearchAssumption DEF ResearchInv, ResearchTypeOK
<1>1. ASSUME Disturb PROVE disturbances' \in 0..MaxDisturbances
  BY <1>0, <1>1 DEF Disturb
<1>2. ASSUME NEW p \in Passes, NEW k \in Pass, PassPlanned(k), Set(p, k),
             UNCHANGED <<assignment, study, briefs>>, disturbances' \in 0..MaxDisturbances
      PROVE  ResearchInv'
  BY <1>0, <1>2, PassesPlanned DEF ResearchInv, ResearchTypeOK, BriefsGrounded
<1>3. ASSUME NEW p \in Passes, StartTick(p) PROVE ResearchInv'
  <2>1. {ReaderOf[a] : a \in Active} \in SUBSET Readers
    BY ResearchAssumption DEF Active
  <2>2. Set(p, [Resting EXCEPT !.pc = "readers", !.readers = {ReaderOf[a] : a \in Active},
                               !.items = Recent])
    BY <1>3 DEF StartTick
  <2>. QED BY <1>0, <1>2, <1>3, <2>1, <2>2, StartsPlanned DEF StartTick
<1>4. ASSUME NEW p \in Passes, NEW w \in Readers, StartRun(p, w) PROVE ResearchInv'
  <2>1. Set(p, [Resting EXCEPT !.pc = "readers", !.readers = {w}, !.items = Recent])
    BY <1>4 DEF StartRun
  <2>. QED BY <1>1, <1>2, <1>4, <2>1, StartsPlanned DEF StartRun
<1>5. ASSUME NEW p \in Passes, NextReader(p) PROVE ResearchInv'
  <2>1. UNCHANGED <<assignment, study, briefs, disturbances>>
    BY <1>5 DEF NextReader
  <2>2. CASE Set(p, Resting)
    BY <1>0, <1>2, <2>1, <2>2, RestingPlanned
  <2>3. ASSUME NEW w \in Readers,
               Set(p, [With(p, Assigned(w) \X researching[p].items)
                         EXCEPT !.readers = researching[p].readers \ {w}])
        PROVE  ResearchInv'
    <3>. DEFINE k == With(p, Assigned(w) \X researching[p].items)
    <3>1. Assigned(w) \subseteq Added /\ researching[p].items \subseteq Studied
      BY <1>0 DEF Assigned, Active, Added, PassPlanned
    <3>2. k \in Pass /\ PassPlanned(k)
      BY <3>1, WithPlanned
    <3>3. researching[p].readers \ {w} \in SUBSET Readers
      BY <1>0 DEF Pass
    <3>. HIDE DEF k
    <3>4. [k EXCEPT !.readers = researching[p].readers \ {w}] \in Pass
      BY <3>2, <3>3 DEF Pass
    <3>5. PassPlanned([k EXCEPT !.readers = researching[p].readers \ {w}])
      BY <3>2, <3>3 DEF Pass, PassPlanned
    <3>6. Set(p, [k EXCEPT !.readers = researching[p].readers \ {w}])
      BY <2>3 DEF k
    <3>. QED BY <1>0, <1>2, <2>1, <3>4, <3>5, <3>6
  <2>4. Set(p, Resting) \/ \E w \in Readers :
             Set(p, [With(p, Assigned(w) \X researching[p].items)
                       EXCEPT !.readers = researching[p].readers \ {w}])
    <3>1. researching[p].readers \subseteq Readers
      BY <1>0 DEF Pass
    <3>2. \A w : With(p, Assigned(w) \X researching[p].items).readers = researching[p].readers
      BY <1>0 DEF With, Pass
    <3>. QED BY <1>5, <3>1, <3>2 DEF NextReader
  <2>. QED BY <2>2, <2>3, <2>4
<1>6. ASSUME NEW p \in Passes, LookForBrief(p) PROVE ResearchInv'
  <2>. DEFINE m == FirstOf(researching[p].plan)
  <2>1. researching[p].plan \subseteq Added \X Studied /\ researching[p].plan # {}
    BY <1>0, <1>6 DEF LookForBrief, AtPoint, PassPlanned
  <2>2. Added \X Studied \subseteq Pair
    BY DEF Added, Studied, Pair
  <2>3. m \in researching[p].plan
    BY <2>1, <2>2, FirstOfPlan
  <2>4. UNCHANGED <<assignment, study, briefs, disturbances>>
    BY <1>6 DEF LookForBrief
  <2>5. Set(p, IF HasBrief(m[1], m[2]) THEN With(p, researching[p].plan \ {m})
               ELSE [researching[p] EXCEPT !.pc = "insert", !.pair = m])
    BY <1>6 DEF LookForBrief
  <2>. HIDE DEF m
  <2>6. With(p, researching[p].plan \ {m}) \in Pass /\ PassPlanned(With(p, researching[p].plan \ {m}))
    BY <2>1, WithPlanned
  <2>7. /\ [researching[p] EXCEPT !.pc = "insert", !.pair = m] \in Pass
        /\ PassPlanned([researching[p] EXCEPT !.pc = "insert", !.pair = m])
    BY <1>0, <2>1, <2>2, <2>3 DEF Pass, PassPlanned
  <2>. QED BY <1>0, <1>2, <2>4, <2>5, <2>6, <2>7
<1>7. ASSUME NEW p \in Passes, InsertBrief(p) PROVE ResearchInv'
  <2>. DEFINE m == researching[p].pair
  <2>1. m \in Added \X Studied /\ researching[p].plan \subseteq Added \X Studied
    BY <1>0, <1>7 DEF InsertBrief, AtPoint, PassPlanned
  <2>2. UNCHANGED <<assignment, study, disturbances>>
    BY <1>7 DEF InsertBrief
  <2>3. CASE Insertable(m)
    <3>1. briefs' = briefs \cup {m} /\ Set(p, With(p, researching[p].plan \ {m}))
      BY <1>7, <2>3 DEF InsertBrief
    <3>2. researching' \in [Passes -> Pass] /\ \A q \in Passes : PassPlanned(researching[q])'
      BY <2>1, <2>2, <3>1, WithPlanned, PassesPlanned
    <3>3. briefs' \subseteq Pair
      BY <1>0, <2>1, <3>1 DEF Added, Studied, Pair
    <3>4. study[m[2]] \in {"recent", "old"} /\ assignment[m[1]] \in {"enabled", "disabled"}
      BY <1>0, <2>1, <2>3 DEF Insertable, Studied
    <3>5. BriefsGrounded'
      BY <1>0, <2>2, <3>1, <3>4 DEF BriefsGrounded
    <3>. QED BY <1>0, <2>2, <3>2, <3>3, <3>5 DEF ResearchInv, ResearchTypeOK
  <2>4. CASE ~Insertable(m)
    <3>1. Set(p, Resting) /\ UNCHANGED briefs
      BY <1>7, <2>4 DEF InsertBrief
    <3>. QED BY <1>0, <1>2, <2>2, <3>1, RestingPlanned
  <2>. QED BY <2>3, <2>4
<1>8. ASSUME NEW p \in Passes, EvictPass(p) PROVE ResearchInv'
  BY <1>1, <1>2, <1>8, RestingPlanned DEF EvictPass
<1>9. ASSUME NEW a \in Assignments, AddAssignment(a) \/ DeleteAssignment(a) \/ SwitchAgent(a)
      PROVE  ResearchInv'
  <2>1. /\ assignment' \in [Assignments -> {"unborn", "enabled", "disabled", "gone"}]
        /\ UNCHANGED <<study, researching>> /\ briefs' \subseteq briefs
        /\ disturbances' \in 0..MaxDisturbances
    BY <1>0, <1>1, <1>9 DEF AddAssignment, DeleteAssignment, SwitchAgent
  <2>2. Added \subseteq Added' /\ Studied' = Studied
    BY <1>0, <1>9, <2>1 DEF Added, Studied, AddAssignment, DeleteAssignment, SwitchAgent
  <2>3. BriefsGrounded'
    BY <1>0, <1>9, <2>1 DEF BriefsGrounded, AddAssignment, DeleteAssignment, SwitchAgent, Pair
  <2>4. \A q \in Passes : PassPlanned(researching[q])'
    BY <2>1, <2>2, PlansStay
  <2>. QED BY <1>0, <2>1, <2>3, <2>4 DEF ResearchInv, ResearchTypeOK
<1>10. ASSUME NEW i \in Studies, FinishStudy(i) \/ StudyAges(i) \/ RemoveStudy(i)
       PROVE  ResearchInv'
  <2>1. /\ study' \in [Studies -> {"unfinished", "recent", "old", "gone"}]
        /\ UNCHANGED <<assignment, researching>> /\ briefs' \subseteq briefs
        /\ disturbances' \in 0..MaxDisturbances
    BY <1>0, <1>1, <1>10 DEF FinishStudy, StudyAges, RemoveStudy
  <2>2. Studied \subseteq Studied' /\ Added' = Added
    BY <1>0, <1>10, <2>1 DEF Added, Studied, FinishStudy, StudyAges, RemoveStudy
  <2>3. BriefsGrounded'
    BY <1>0, <1>10, <2>1 DEF BriefsGrounded, FinishStudy, StudyAges, RemoveStudy, Pair
  <2>4. \A q \in Passes : PassPlanned(researching[q])'
    BY <2>1, <2>2, PlansStay
  <2>. QED BY <1>0, <2>1, <2>3, <2>4 DEF ResearchInv, ResearchTypeOK
<1>11. CASE UNCHANGED researchVars
  BY <1>0, <1>11 DEF researchVars, ResearchInv, ResearchTypeOK, BriefsGrounded, PassPlanned,
                     Studied, Added
<1>. QED BY <1>3, <1>4, <1>5, <1>6, <1>7, <1>8, <1>9, <1>10, <1>11 DEF ResearchNext, PassStep

LEMMA InitResearch == ResearchInit => ResearchInv
BY RestingPlanned, ResearchAssumption
   DEF ResearchInit, ResearchInv, ResearchTypeOK, BriefsGrounded, Studied, Added

\* Every reachable state of the research passes is well typed.
THEOREM ResearchTypeCorrect == ResearchSpec => []ResearchTypeOK
<1>1. ResearchInv => ResearchTypeOK
  BY DEF ResearchInv
<1>. QED BY <1>1, InitResearch, ResearchStep, PTL DEF ResearchSpec

\* However passes overlap, are evicted or work on plans made long ago, a brief is of an
\* assignment that its user has not deleted and of an item that has been finished and is there.
THEOREM BriefsAlwaysGrounded == ResearchSpec => []BriefsGrounded
<1>1. ResearchInv => BriefsGrounded
  BY DEF ResearchInv
<1>. QED BY <1>1, InitResearch, ResearchStep, PTL DEF ResearchSpec
=============================================================================
