------------------------------ MODULE GraphBuild ------------------------------
(***************************************************************************)
(* The build of the knowledge graph and of the related articles:             *)
(* cf/worker/src/pipeline/graph_build.ts.  A message starts it, nightly or   *)
(* because a user asked (then with force).  It reads the embedded summary    *)
(* chunks, stops if the cached graph has their fingerprint, empties three    *)
(* tables, fills them row by row, and writes the cache last.  Nothing keeps  *)
(* two builds apart, and nothing makes one atomic: an eviction leaves the    *)
(* tables as they are, and the message comes back.                           *)
(*                                                                         *)
(* Which chunks are linked and how they are grouped are functions of the     *)
(* chunks read, so a row is the build it is of and its number.               *)
(***************************************************************************)
EXTENDS Naturals, FiniteSets, FiniteSetsExt

CONSTANTS
  Builders,      \* messages of kind graph_build that exist at a time
  ChunkIds,      \* ids of summary chunks
  MaxBuilds,     \* bound: builds that start
  MaxDeliveries, \* deliveries of a message, then the dead-letter queue has it
  MaxEvictions,  \* bound
  MaxChanges     \* bound: changes of the chunks

ASSUME GraphAssumption ==
  /\ ChunkIds \subseteq Nat \ {0} /\ IsFiniteSet(ChunkIds)
  /\ MaxBuilds \in Nat /\ MaxDeliveries \in Nat \ {0} /\ MaxEvictions \in Nat
  /\ MaxChanges \in Nat

VARIABLES
  chunk,     \* the state of each chunk
  table,     \* the rows of the three tables: how often each is there
  cache,     \* graph_cache: the build and the chunks it is of
  builder,
  begun,     \* history: the builder whose message alone has written the tables since
             \* it began to empty them, until the cache is written
  mixed,     \* history: builds overlapped, or one was given up, since the tables were
             \* last those of the cache
  builds, evictions, changes

graphVars == <<chunk, table, cache, builder, begun, mixed, builds, evictions, changes>>

-----------------------------------------------------------------------------
Tables == {"graph_paragraph", "graph_link", "item_recommendation"}
RowNumbers == {1, 2}
BuildIds == 1..MaxBuilds

Embedded == {i \in ChunkIds : chunk[i] = "embedded"}

\* graphFingerprint: the number of chunks, the newest and the oldest.
Fingerprint(set) ==
  IF set = {} THEN <<0, 0, 0>> ELSE <<Cardinality(set), Max(set), Min(set)>>

NoGraph == [build |-> 0, of |-> {}]
CacheIsFresh(set) == cache.build # 0 /\ Fingerprint(cache.of) = Fingerprint(set)

BuilderState ==
  [pc: {"idle", "waiting", "read", "clear", "fill", "cache"}, force: BOOLEAN,
   deliveries: 0..MaxDeliveries, of: SUBSET ChunkIds, build: 0..MaxBuilds,
   left: SUBSET Tables, rows: SUBSET RowNumbers]
IdleBuilder == [pc |-> "idle", force |-> FALSE, deliveries |-> 0, of |-> {},
                build |-> 0, left |-> {}, rows |-> {}]

\* The tables are emptied and filled in the order paragraphs, links,
\* recommendations.
Slice(left) ==
  IF "graph_paragraph" \in left THEN "graph_paragraph"
  ELSE IF "graph_link" \in left THEN "graph_link" ELSE "item_recommendation"

Gone == {i \in ChunkIds : chunk[i] = "gone"}

\* The cache that b found old was written by another build since, or is of a later one.
Overtaken(b) ==
  /\ ~builder[b].force
  /\ cache.build > builder[b].build \/ CacheIsFresh(builder[b].of)

\* b writes the tables, alone since it began to empty them or not.
Touch(b) == begun' = begun \cap {b} /\ mixed' = (b \notin begun)
\* b leaves the tables unfinished.
GiveUp(b) == begun' = begun \ {b} /\ mixed' = (mixed \/ b \in begun)

NoRows == [r \in BuildIds \X RowNumbers |-> 0]

-----------------------------------------------------------------------------
\* POST /graph/rebuild, with force, or the cron of 04:00.
SendBuild(b, force) ==
  /\ builder[b].pc = "idle" /\ builds < MaxBuilds
  /\ builder' = [builder EXCEPT ![b] = [IdleBuilder EXCEPT !.pc = "waiting", !.force = force]]
  /\ UNCHANGED <<chunk, table, cache, begun, mixed, builds, evictions, changes>>

\* loadSummaryChunkRows; pruning drops embeddings below those it has read.
ReadChunks(b) ==
  /\ builder[b].pc = "waiting" /\ builds < MaxBuilds
  /\ builds' = builds + 1
  /\ builder' = [builder EXCEPT ![b].pc = "read", ![b].deliveries = @ + 1,
                                ![b].of = Embedded, ![b].build = builds']
  /\ UNCHANGED <<chunk, table, cache, begun, mixed, evictions, changes>>

\* Mutated form of CheckCache: the cache is written before the tables are filled.
CacheFirst(b) ==
  /\ builder[b].pc = "read"
  /\ LET stop == ~builder[b].force /\ CacheIsFresh(builder[b].of)
     IN /\ cache' = IF stop THEN cache
                    ELSE [build |-> builder[b].build, of |-> builder[b].of]
        /\ builder' = [builder EXCEPT ![b] =
             IF stop THEN IdleBuilder ELSE [@ EXCEPT !.pc = "clear", !.left = Tables]]
        /\ IF stop /\ Gone # {} THEN GiveUp(b) ELSE UNCHANGED <<begun, mixed>>
  /\ UNCHANGED <<chunk, table, builds, evictions, changes>>

\* Without force, nothing is done when the cached graph has the fingerprint.
CheckCache(b) ==
  /\ builder[b].pc = "read"
  /\ LET stop == ~builder[b].force /\ CacheIsFresh(builder[b].of)
     IN /\ builder' = [builder EXCEPT ![b] =
             IF stop THEN IdleBuilder ELSE [@ EXCEPT !.pc = "clear", !.left = Tables]]
        /\ IF stop /\ Gone # {} THEN GiveUp(b) ELSE UNCHANGED <<begun, mixed>>
  /\ UNCHANGED <<chunk, table, cache, builds, evictions, changes>>

\* One DELETE for each table; without chunks there are no rows to insert.
ClearTable(b) ==
  /\ builder[b].pc = "clear"
  /\ LET t == Slice(builder[b].left)
         left == builder[b].left \ {t}
     IN /\ table' = [table EXCEPT ![t] = NoRows]
        /\ builder' = [builder EXCEPT
             ![b].left = IF left # {} THEN left
                         ELSE IF builder[b].of = {} THEN {} ELSE Tables,
             ![b].rows = IF left = {} THEN RowNumbers ELSE {},
             ![b].pc = IF left # {} THEN "clear"
                       ELSE IF builder[b].of = {} THEN "cache" ELSE "fill"]
  /\ IF builder[b].left = Tables
     THEN /\ begun' = IF Overtaken(b) THEN {} ELSE {b}
          /\ mixed' = Overtaken(b)
     ELSE Touch(b)
  /\ UNCHANGED <<chunk, cache, builds, evictions, changes>>

\* One INSERT for each row; the tables take a row that they have.
FillRow(b) ==
  /\ builder[b].pc = "fill"
  /\ LET t == Slice(builder[b].left)
         n == Min(builder[b].rows)
         last == builder[b].rows = {n}
     IN /\ table' = [table EXCEPT ![t][<<builder[b].build, n>>] = @ + 1]
        /\ builder' = [builder EXCEPT
             ![b].rows = IF last THEN RowNumbers ELSE @ \ {n},
             ![b].left = IF last THEN @ \ {t} ELSE @,
             ![b].pc = IF last /\ builder[b].left = {t} THEN "cache" ELSE "fill"]
  /\ Touch(b)
  /\ UNCHANGED <<chunk, cache, builds, evictions, changes>>

WriteCache(b) ==
  /\ builder[b].pc = "cache"
  /\ cache' = [build |-> builder[b].build, of |-> builder[b].of]
  /\ builder' = [builder EXCEPT ![b] = IdleBuilder]
  /\ begun' = {} /\ mixed' = (b \notin begun)
  /\ UNCHANGED <<chunk, table, builds, evictions, changes>>

\* The message of b as the queue delivers it again.
Returned(b) == [IdleBuilder EXCEPT !.pc = "waiting", !.force = builder[b].force,
                                   !.deliveries = builder[b].deliveries]

\* The invocation ends, by an error or an eviction; the message comes back
\* unless that was its last delivery.
EvictBuilder(b) ==
  /\ builder[b].pc \in {"read", "clear", "fill", "cache"}
  /\ evictions < MaxEvictions /\ evictions' = evictions + 1
  /\ builder' = [builder EXCEPT ![b] =
       IF @.deliveries = MaxDeliveries THEN IdleBuilder
       ELSE Returned(b)]
  /\ IF builder[b].deliveries = MaxDeliveries THEN GiveUp(b) ELSE UNCHANGED <<begun, mixed>>
  /\ UNCHANGED <<chunk, table, cache, builds, changes>>

\* indexChunks and embedChunks of the item pipeline, and the deletion of an item:
\* a chunk is added with an id above all others, embedded some time later, and
\* deleted.
ChangeChunk(i) ==
  /\ changes < MaxChanges /\ changes' = changes + 1
  /\ \/ /\ \A j \in ChunkIds : j >= i => chunk[j] = "unborn"
        /\ chunk' = [chunk EXCEPT ![i] = "bare"]
     \/ chunk[i] = "bare" /\ chunk' = [chunk EXCEPT ![i] = "embedded"]
     \/ chunk[i] \in {"bare", "embedded"} /\ chunk' = [chunk EXCEPT ![i] = "gone"]
  /\ UNCHANGED <<table, cache, builder, begun, mixed, builds, evictions>>

-----------------------------------------------------------------------------
GraphInit ==
  /\ chunk = [i \in ChunkIds |-> "unborn"]
  /\ table = [t \in Tables |-> NoRows]
  /\ cache = NoGraph
  /\ builder = [b \in Builders |-> IdleBuilder]
  /\ begun = {} /\ mixed = FALSE
  /\ builds = 0 /\ evictions = 0 /\ changes = 0

GraphNext ==
  \/ \E b \in Builders :
       \/ \E force \in BOOLEAN : SendBuild(b, force)
       \/ ReadChunks(b) \/ CheckCache(b) \/ ClearTable(b) \/ FillRow(b)
       \/ WriteCache(b) \/ EvictBuilder(b)
  \/ \E i \in ChunkIds : ChangeChunk(i)

GraphSpec == GraphInit /\ [][GraphNext]_graphVars

-----------------------------------------------------------------------------
GraphTypeOK ==
  /\ chunk \in [ChunkIds -> {"unborn", "bare", "embedded", "gone"}]
  /\ table \in [Tables -> [BuildIds \X RowNumbers -> Nat]]
  /\ cache \in [build: 0..MaxBuilds, of: SUBSET ChunkIds]
  /\ builder \in [Builders -> BuilderState]
  /\ begun \in SUBSET Builders /\ mixed \in BOOLEAN
  /\ builds \in 0..MaxBuilds /\ evictions \in 0..MaxEvictions /\ changes \in 0..MaxChanges

\* When no build is under way or to come, and the next nightly one would find
\* the cache fresh and stop, the tables hold each row of the cached build once
\* and no other: an evicted build is never taken for a finished one.  Builds that
\* overlap and a build that is given up half way, at the last delivery or because the
\* chunks it was to add are gone, are excepted until a build has run on its own.
WholeWhenFresh ==
  /\ \A b \in Builders : builder[b].pc = "idle"
  /\ CacheIsFresh(Embedded) /\ ~mixed
  => \A t \in Tables : table[t] =
       [r \in BuildIds \X RowNumbers |->
          IF r[1] = cache.build /\ cache.of # {} THEN 1 ELSE 0]
=============================================================================
