---------------------------- MODULE LibraryProofs ----------------------------
(***************************************************************************)
(* Theorems about parts that MCLibrary composes: the libraries of users     *)
(* (LibraryIngest), for every number of users, addresses, operations and runs; *)
(* the instances of the pipeline container (ContainerRuns), for every number of *)
(* items, jobs, generations, retries and evictions, and what a reader's      *)
(* edits do to the pages (PageCache).                                      *)
(***************************************************************************)
EXTENDS LibraryIngest, ContainerRuns, PageCache, FiniteSetTheorems, TLAPS


-----------------------------------------------------------------------------
(* The libraries are well typed *)

\* An operation under way names its item, and its user while it adds.
OpNamed(v) ==
  /\ v.pc # "idle" => v.url \in Urls
  /\ v.pc \in {"insert", "save"} => v.user \in Users
IngestTyped == IngestTypeOK /\ \A o \in Operations : OpNamed(op[o])

LEMMA CountsTyped ==
  ASSUME NEW u \in Urls
  PROVE  Cardinality(Owners(u)) \in Nat /\ Cardinality(Fans(u)) \in Nat
<1>1. Owners(u) \subseteq Users /\ Fans(u) \subseteq Users /\ IsFiniteSet(Users)
  BY IngestAssumption DEF Owners, Fans
<1>. QED BY <1>1, FS_Subset, FS_CardinalityType

LEMMA IdleOpTyped == IdleOp \in Op /\ OpNamed(IdleOp)
BY DEF IdleOp, Op, OpNamed, ItemStatuses

LEMMA StaleTyped ==
  ASSUME NEW v \in Op, OpNamed(v)
  PROVE  [v EXCEPT !.stale = TRUE] \in Op /\ OpNamed([v EXCEPT !.stale = TRUE])
BY DEF Op, OpNamed

LEMMA ProceedTyped ==
  ASSUME IngestTyped, NEW o \in Operations, NEW v \in Op, OpNamed(v), NEW u,
         Proceed(o, v) \/ Outdating(o, v, u)
  PROVE  op' \in [Operations -> Op] /\ \A p \in Operations : OpNamed(op'[p])
<1>0. op \in [Operations -> Op] /\ \A p \in Operations : OpNamed(op[p])
  BY DEF IngestTyped, IngestTypeOK
<1>1. \A p \in Operations : /\ [op[p] EXCEPT !.stale = TRUE] \in Op
                            /\ OpNamed([op[p] EXCEPT !.stale = TRUE])
  BY <1>0, StaleTyped
<1>2. CASE Proceed(o, v)
  BY <1>0, <1>2 DEF Proceed
<1>3. CASE Outdating(o, v, u)
  BY <1>0, <1>1, <1>3 DEF Outdating
<1>. QED BY <1>2, <1>3

LEMMA OutdatedTyped ==
  ASSUME IngestTyped, NEW us, Outdated(us)
  PROVE  op' \in [Operations -> Op] /\ \A p \in Operations : OpNamed(op'[p])
<1>0. op \in [Operations -> Op] /\ \A p \in Operations : OpNamed(op[p])
  BY DEF IngestTyped, IngestTypeOK
<1>1. \A p \in Operations : /\ [op[p] EXCEPT !.stale = TRUE] \in Op
                            /\ OpNamed([op[p] EXCEPT !.stale = TRUE])
  BY <1>0, StaleTyped
<1>. QED BY <1>0, <1>1 DEF Outdated

\* A step of an operation under way.
LEMMA OperationTyped ==
  ASSUME IngestTyped, NEW o \in Operations, OperationStep(o)
  PROVE  IngestTyped'
<1>. USE DEF IngestTyped
<1>0. /\ item \in [Urls -> ItemStatuses]
      /\ library \in [Users \X Urls -> {"none", "waiting", "done"}]
      /\ requests \in [Urls -> Nat] /\ interests \in [Urls -> Nat]
      /\ \A p \in Operations : op[p] \in Op /\ OpNamed(op[p])
      /\ \A p \in Operations : op[p].pc # "idle" => op[p].url \in Urls
  BY DEF IngestTypeOK, OpNamed
<1>1. CASE InsertItem(o)
  <2>. DEFINE u == op[o].url
  <2>1. u \in Urls
    BY <1>0, <1>1 DEF InsertItem, On
  <2>2. item' \in [Urls -> ItemStatuses]
    BY <1>0, <1>1 DEF InsertItem, ItemStatuses
  <2>. DEFINE s == item'[u]
            v == [op[o] EXCEPT !.pc = "save", !.status = s, !.stale = FALSE]
  <2>3. s \in ItemStatuses
    BY <2>1, <2>2
  <2>. HIDE DEF s
  <2>4. v \in Op /\ OpNamed(v)
    BY <1>0, <1>1, <2>3 DEF Op, OpNamed, InsertItem, On
  <2>6. Proceed(o, v)
    BY <1>1 DEF InsertItem, s
  <2>. HIDE DEF v
  <2>5. op' \in [Operations -> Op] /\ \A p \in Operations : OpNamed(op'[p])
    BY <2>4, <2>6, ProceedTyped
  <2>. QED BY <1>1, <2>1, <2>2, <2>5 DEF InsertItem, IngestTypeOK, demandVars, historyVars
<1>2. CASE SaveItem(o)
  <2>1. /\ [op[o] EXCEPT !.pc = "count"] \in Op /\ OpNamed([op[o] EXCEPT !.pc = "count"])
        /\ op[o].url \in Urls /\ op[o].user \in Users
    BY <1>0, <1>2 DEF Op, OpNamed, SaveItem, On
  <2>2. op' \in [Operations -> Op] /\ \A p \in Operations : OpNamed(op'[p])
    BY <1>2, <2>1, IdleOpTyped, ProceedTyped DEF SaveItem
  <2>3. library' \in [Users \X Urls -> {"none", "waiting", "done"}]
    BY <1>0, <1>2, <2>1 DEF SaveItem
  <2>. QED BY <1>2, <2>1, <2>2, <2>3 DEF SaveItem, IngestTypeOK
<1>3. CASE Count(o)
  <2>. DEFINE u == op[o].url
  <2>1. u \in Urls
    BY <1>0, <1>3 DEF Count, On
  <2>. DEFINE m == Cardinality(Owners(u))
            n == Cardinality(Fans(u))
            v == [op[o] EXCEPT !.pc = "score", !.stale = FALSE, !.requests = m, !.interests = n]
  <2>2. m \in Nat /\ n \in Nat
    BY <2>1, CountsTyped
  <2>4. Proceed(o, v)
    BY <1>3 DEF Count
  <2>. HIDE DEF m, n
  <2>5. v \in Op /\ OpNamed(v)
    BY <1>0, <2>1, <2>2 DEF Op, OpNamed
  <2>. HIDE DEF v
  <2>3. op' \in [Operations -> Op] /\ \A p \in Operations : OpNamed(op'[p])
    BY <2>4, <2>5, ProceedTyped
  <2>. QED BY <1>3, <2>3 DEF Count, IngestTypeOK, rowVars, demandVars, historyVars
<1>4. CASE Score(o)
  <2>1. /\ [op[o] EXCEPT !.pc = "nudge"] \in Op /\ OpNamed([op[o] EXCEPT !.pc = "nudge"])
        /\ op[o].url \in Urls /\ op[o].requests \in Nat /\ op[o].interests \in Nat
    BY <1>0, <1>4 DEF Op, OpNamed, Score, On
  <2>2. op' \in [Operations -> Op] /\ \A p \in Operations : OpNamed(op'[p])
    BY <1>4, <2>1, IdleOpTyped, ProceedTyped DEF Score
  <2>. QED BY <1>0, <1>4, <2>1, <2>2 DEF Score, IngestTypeOK, rowVars
<1>5. CASE Nudge(o)
  <2>1. op' \in [Operations -> Op] /\ \A p \in Operations : OpNamed(op'[p])
    BY <1>5, IdleOpTyped, ProceedTyped DEF Nudge
  <2>. QED BY <1>0, <1>5, <2>1 DEF Nudge, On, IngestTypeOK, demandVars, historyVars
<1>. QED BY <1>1, <1>2, <1>3, <1>4, <1>5 DEF OperationStep

\* The start of one.
LEMMA StartTyped ==
  ASSUME IngestTyped, NEW o \in Operations, StartOperation(o)
  PROVE  IngestTyped'
<1>. USE DEF IngestTyped
<1>0. /\ item \in [Urls -> ItemStatuses] /\ external \subseteq Urls
      /\ library \in [Users \X Urls -> {"none", "waiting", "done"}]
      /\ started \in 0 .. MaxOperations
  BY DEF IngestTypeOK
<1>1. ASSUME Request PROVE started' \in 0 .. MaxOperations
  BY <1>0, <1>1, IngestAssumption DEF Request
<1>2. ASSUME NEW w \in Users, NEW u \in Urls, NEW fetched \in BOOLEAN, FindItem(o, w, u, fetched)
      PROVE  IngestTyped'
  <2>. DEFINE add == [IdleOp EXCEPT !.user = w, !.fetched = fetched, !.adds = TRUE]
  <2>1. add \in Op /\ add.user \in Users
    BY DEF IdleOp, Op, ItemStatuses
  <2>2. \/ \E v \in Urls : Proceed(o, [add EXCEPT !.pc = "save", !.url = v, !.status = item[v]])
        \/ Proceed(o, [add EXCEPT !.pc = "insert", !.url = u])
    BY <1>0, <1>2 DEF FindItem
  <2>. HIDE DEF add
  <2>4. op' \in [Operations -> Op] /\ \A p \in Operations : OpNamed(op'[p])
    <3>1. CASE Proceed(o, [add EXCEPT !.pc = "insert", !.url = u])
      <4>. DEFINE x == [add EXCEPT !.pc = "insert", !.url = u]
      <4>1. x \in Op /\ OpNamed(x) /\ Proceed(o, x)
        BY <2>1, <3>1 DEF Op, OpNamed
      <4>. HIDE DEF x
      <4>. QED BY <4>1, ProceedTyped
    <3>2. ASSUME NEW v \in Urls,
                 Proceed(o, [add EXCEPT !.pc = "save", !.url = v, !.status = item[v]])
          PROVE  op' \in [Operations -> Op] /\ \A p \in Operations : OpNamed(op'[p])
      <4>. DEFINE x == [add EXCEPT !.pc = "save", !.url = v, !.status = item[v]]
      <4>1. x \in Op /\ OpNamed(x) /\ Proceed(o, x)
        BY <1>0, <2>1, <3>2 DEF Op, OpNamed
      <4>. HIDE DEF x
      <4>. QED BY <4>1, ProceedTyped
    <3>. QED BY <2>2, <3>1, <3>2
  <2>5. UNCHANGED <<rowVars, demandVars, historyVars>> /\ Request
    BY <1>2 DEF FindItem, StartOp
  <2>. QED BY <1>1, <2>4, <2>5 DEF IngestTypeOK, rowVars, demandVars, historyVars
<1>4. ASSUME NEW w \in Users, NEW u \in Urls, RemoveItem(o, w, u) PROVE IngestTyped'
  <2>. DEFINE v == [IdleOp EXCEPT !.pc = "count", !.user = w, !.url = u]
  <2>2. v \in Op /\ OpNamed(v)
    BY DEF IdleOp, Op, OpNamed, ItemStatuses
  <2>3. Outdating(o, v, u)
    BY <1>4 DEF RemoveItem
  <2>. HIDE DEF v
  <2>1. op' \in [Operations -> Op] /\ \A p \in Operations : OpNamed(op'[p])
    BY <2>2, <2>3, ProceedTyped
  <2>. QED BY <1>0, <1>1, <1>4, <2>1 DEF RemoveItem, StartOp, IngestTypeOK, rowVars, historyVars
<1>5. ASSUME NEW w \in Users, NEW u \in Urls, ToggleInterest(o, w, u) PROVE IngestTyped'
  <2>. DEFINE v == [IdleOp EXCEPT !.pc = "count", !.user = w, !.url = u]
  <2>2. v \in Op /\ OpNamed(v)
    BY DEF IdleOp, Op, OpNamed, ItemStatuses
  <2>3. Outdating(o, v, u)
    BY <1>5 DEF ToggleInterest
  <2>. HIDE DEF v
  <2>1. op' \in [Operations -> Op] /\ \A p \in Operations : OpNamed(op'[p])
    BY <2>2, <2>3, ProceedTyped
  <2>. QED BY <1>0, <1>1, <1>5, <2>1 DEF ToggleInterest, StartOp, IngestTypeOK, rowVars, historyVars
<1>6. ASSUME NEW u \in Urls, Recount(o, u) PROVE IngestTyped'
  <2>. DEFINE v == [IdleOp EXCEPT !.pc = "count", !.url = u]
  <2>2. v \in Op /\ OpNamed(v)
    BY DEF IdleOp, Op, OpNamed, ItemStatuses
  <2>3. Proceed(o, v)
    BY <1>6 DEF Recount
  <2>. HIDE DEF v
  <2>1. op' \in [Operations -> Op] /\ \A p \in Operations : OpNamed(op'[p])
    BY <2>2, <2>3, ProceedTyped
  <2>. QED BY <1>1, <1>6, <2>1 DEF Recount, StartOp, IngestTypeOK, rowVars, demandVars, historyVars
<1>. QED BY <1>2, <1>4, <1>5, <1>6 DEF StartOperation

\* The other requests, and the steps of the pipeline.
LEMMA RequestTyped ==
  ASSUME IngestTyped,
         \/ \E w \in Users : DeleteAccount(w) \/ ForgetAccount(w)
         \/ \E u \in Urls : Reopen(u) \/ PurgeItem(u)
  PROVE  IngestTyped'
<1>. USE DEF IngestTyped
<1>0. /\ item \in [Urls -> ItemStatuses] /\ external \subseteq Urls /\ nudged \subseteq Urls
      /\ live \in [Urls -> Nat] /\ ending \in [Urls \X Ends -> Nat]
      /\ library \in [Users \X Urls -> {"none", "waiting", "done"}]
      /\ requests \in [Urls -> Nat] /\ interests \in [Urls -> Nat]
      /\ account \in [Users -> {"here", "leaving", "gone"}]
      /\ op \in [Operations -> Op] /\ \A p \in Operations : OpNamed(op[p])
      /\ raced \subseteq Urls /\ reopened \subseteq Urls /\ uncounted \subseteq Urls
  BY DEF IngestTypeOK
<1>1. ASSUME Request PROVE started' \in 0 .. MaxOperations
  BY <1>1, IngestAssumption DEF Request, IngestTypeOK
<1>2. \A w \in Users : Saved(w) \subseteq Urls /\ Liked(w) \subseteq Urls
  BY DEF Saved, Liked
<1>3. ASSUME NEW w \in Users, DeleteAccount(w) PROVE IngestTyped'
  <2>1. op' \in [Operations -> Op] /\ \A p \in Operations : OpNamed(op'[p])
    BY <1>3, OutdatedTyped DEF DeleteAccount
  <2>2. library' \in [Users \X Urls -> {"none", "waiting", "done"}]
    BY <1>0, <1>3 DEF DeleteAccount
  <2>. QED BY <1>0, <1>1, <1>2, <1>3, <2>1, <2>2 DEF DeleteAccount, IngestTypeOK, rowVars
<1>4. ASSUME NEW w \in Users, ForgetAccount(w) PROVE IngestTyped'
  <2>1. op' \in [Operations -> Op] /\ \A p \in Operations : OpNamed(op'[p])
    BY <1>4, OutdatedTyped DEF ForgetAccount
  <2>2. library' \in [Users \X Urls -> {"none", "waiting", "done"}]
    BY <1>0, <1>4 DEF ForgetAccount
  <2>. QED BY <1>0, <1>2, <1>4, <2>1, <2>2 DEF ForgetAccount, IngestTypeOK, rowVars
<1>5. ASSUME NEW u \in Urls, Reopen(u) PROVE IngestTyped'
  <2>1. op' \in [Operations -> Op] /\ \A p \in Operations : OpNamed(op'[p])
    BY <1>5, OutdatedTyped DEF Reopen
  <2>2. item' \in [Urls -> ItemStatuses] /\ nudged' \subseteq Urls
    BY <1>0, <1>5 DEF Reopen, ItemStatuses
  <2>. QED BY <1>0, <1>1, <1>5, <2>1, <2>2 DEF Reopen, IngestTypeOK, demandVars
<1>6. ASSUME NEW u \in Urls, PurgeItem(u) PROVE IngestTyped'
  <2>1. op' \in [Operations -> Op] /\ \A p \in Operations : OpNamed(op'[p])
    BY <1>0, <1>6, IdleOpTyped DEF PurgeItem
  <2>2. /\ library' \in [Users \X Urls -> {"none", "waiting", "done"}]
        /\ ending' \in [Urls \X Ends -> Nat]
    BY <1>0, <1>6 DEF PurgeItem
  <2>3. item' \in [Urls -> ItemStatuses] /\ live' \in [Urls -> Nat]
    BY <1>0, <1>6 DEF PurgeItem, ItemStatuses
  <2>. QED BY <1>0, <1>1, <1>6, <2>1, <2>2, <2>3 DEF PurgeItem, IngestTypeOK
<1>. QED BY <1>3, <1>4, <1>5, <1>6

LEMMA PipelineTyped ==
  ASSUME IngestTyped, NEW u \in Urls, PipelineStep(u)
  PROVE  IngestTyped'
<1>. USE DEF IngestTyped
<1>0. /\ item \in [Urls -> ItemStatuses] /\ external \subseteq Urls /\ nudged \subseteq Urls
      /\ live \in [Urls -> Nat] /\ ending \in [Urls \X Ends -> Nat]
      /\ library \in [Users \X Urls -> {"none", "waiting", "done"}]
      /\ reopened \subseteq Urls /\ uncounted \subseteq Urls
  BY DEF IngestTypeOK
<1>1. op' \in [Operations -> Op] /\ \A p \in Operations : OpNamed(op'[p])
  BY OutdatedTyped DEF PipelineStep, TakeItem, EndItem, Settle
<1>2. CASE TakeItem(u)
  <2>1. item' \in [Urls -> ItemStatuses] /\ live' \in [Urls -> Nat]
    BY <1>0, <1>2 DEF TakeItem, ItemStatuses
  <2>. QED BY <1>0, <1>1, <1>2, <2>1 DEF TakeItem, IngestTypeOK, demandVars, historyVars
<1>3. CASE EndItem(u)
  <2>1. PICK status \in Ends \cup {"error", "queued", "summarizing"} :
          /\ item' = [item EXCEPT ![u] = status]
          /\ nudged' = IF status \in {"queued", "summarizing"} THEN nudged \cup {u} ELSE nudged
          /\ IF status \in Ends
             THEN /\ ending' = [ending EXCEPT ![<<u, status>>] = @ + 1]
                  /\ external' = external \cup {u}
                  /\ reopened' = IF live[u] = 1 /\ ~Unsettled(u) THEN reopened \ {u} ELSE reopened
             ELSE UNCHANGED <<ending, external, reopened>>
    BY <1>3 DEF EndItem
  <2>2. item' \in [Urls -> ItemStatuses]
    BY <1>0, <2>1 DEF Ends, ItemStatuses
  <2>3. live' \in [Urls -> Nat]
    BY <1>0, <1>3 DEF EndItem
  <2>4. ending' \in [Urls \X Ends -> Nat] /\ external' \subseteq Urls /\ reopened' \subseteq Urls
        /\ nudged' \subseteq Urls
    BY <1>0, <2>1
  <2>. QED BY <1>0, <1>1, <1>3, <2>2, <2>3, <2>4 DEF EndItem, IngestTypeOK, demandVars
<1>4. CASE Settle(u)
  <2>1. PICK status \in Ends :
          /\ ending[<<u, status>>] > 0 /\ ending' = [ending EXCEPT ![<<u, status>>] = @ - 1]
          /\ uncounted' = IF status = "excluded" THEN uncounted \cup {u} ELSE uncounted
          /\ library' = [k \in DOMAIN library |->
               IF k[2] # u \/ library[k] = "none" THEN library[k]
               ELSE IF status = "excluded" THEN "none" ELSE "done"]
          /\ UNCHANGED <<item, external, live, nudged, interest, requests, interests, account,
                         raced, reopened, started>>
    BY <1>4 DEF Settle
  <2>2. library' \in [Users \X Urls -> {"none", "waiting", "done"}]
    BY <1>0, <2>1
  <2>3. ending' \in [Urls \X Ends -> Nat] /\ uncounted' \subseteq Urls
    BY <1>0, <2>1
  <2>. QED BY <1>0, <1>1, <2>1, <2>2, <2>3 DEF IngestTypeOK
<1>. QED BY <1>2, <1>3, <1>4 DEF PipelineStep

LEMMA IngestStepTyped ==
  ASSUME IngestTyped, [IngestNext]_ingestVars
  PROVE  IngestTyped'
<1>1. CASE UNCHANGED ingestVars
  BY <1>1 DEF ingestVars, rowVars, demandVars, historyVars, IngestTyped, IngestTypeOK
<1>. QED BY <1>1, OperationTyped, StartTyped, RequestTyped, PipelineTyped DEF IngestNext

LEMMA InitIngestTyped == IngestInit => IngestTyped
BY IdleOpTyped, IngestAssumption DEF IngestInit, IngestTyped, IngestTypeOK, ItemStatuses

\* Every reachable state of the libraries is well typed.
THEOREM IngestTypeCorrect == IngestSpec => []IngestTypeOK
<1>1. IngestTyped => IngestTypeOK
  BY DEF IngestTyped
<1>2. IngestTyped /\ [IngestNext]_ingestVars => IngestTyped'
  BY IngestStepTyped
<1>. QED BY <1>1, <1>2, InitIngestTyped, PTL DEF IngestSpec

-----------------------------------------------------------------------------
(* Library rows tell how their item stands *)

\* An item whose external id is stored, or that an operation is about to attach, is
\* there, and the operation knows its status unless that has changed since.
SaveReads(v) ==
  v.pc = "save" => item[v.url] # "none" /\ (v.stale \/ v.status = item[v.url])
ReadsHold ==
  /\ \A u \in external : item[u] # "none"
  /\ \A o \in Operations : SaveReads(op[o])

\* Unless an item has been sent back, one run of it goes on at a time, and its rows
\* are settled by what it has come to before another.  Its rows say so once they are.
RowHolds(u) ==
  /\ u \notin reopened =>
       /\ live[u] > 0 => item[u] = "running" /\ live[u] = 1 /\ ~Unsettled(u)
       /\ \A s \in Ends : ending[<<u, s>>] > 0 => item[u] = s
  /\ u \notin raced => \A w \in Users : library[<<w, u>>] # "none" =>
       /\ item[u] = "excluded" => ending[<<u, "excluded">>] > 0
       /\ item[u] = "done" => ending[<<u, "done">>] > 0 \/ library[<<w, u>>] = "done"
       /\ library[<<w, u>>] = "done" /\ u \notin reopened =>
            item[u] = "done" \/ ending[<<u, "excluded">>] > 0
ReflectInv == IngestTyped /\ ReadsHold /\ \A u \in Urls : RowHolds(u)

WillRead(v) ==
  v.pc = "save" => item'[v.url] # "none" /\ (v.stale \/ v.status = item'[v.url])

\* An operation that goes on, while items only appear.
LEMMA ProceedReads ==
  ASSUME IngestTyped, ReadsHold, NEW o \in Operations, NEW v \in Op, NEW u,
         Proceed(o, v) \/ Outdating(o, v, u), WillRead(v),
         \A x \in Urls : item[x] # "none" => item'[x] = item[x]
  PROVE  \A p \in Operations : SaveReads(op[p])'
<1>0. /\ op \in [Operations -> Op] /\ \A p \in Operations : SaveReads(op[p])
      /\ \A p \in Operations : op[p].pc # "idle" => op[p].url \in Urls
  BY DEF IngestTyped, IngestTypeOK, OpNamed, ReadsHold
<1>1. ASSUME NEW p \in Operations PROVE SaveReads(op[p])'
  <2>1. CASE p = o
    BY <1>0, <2>1 DEF Proceed, Outdating, SaveReads, WillRead
  <2>2. CASE p # o /\ op'[p] = op[p]
    BY <1>0, <2>2 DEF SaveReads
  <2>3. CASE p # o /\ op'[p] = [op[p] EXCEPT !.stale = TRUE]
    BY <1>0, <2>3 DEF SaveReads, Op
  <2>. QED BY <1>0, <2>1, <2>2, <2>3 DEF Proceed, Outdating
<1>. QED BY <1>1

\* Operations that are told of a change.
LEMMA OutdatedReads ==
  ASSUME IngestTyped, ReadsHold, NEW us, Outdated(us),
         \A x \in Urls : item[x] # "none" => item'[x] # "none",
         \A x \in Urls \ us : item'[x] = item[x]
  PROVE  \A p \in Operations : SaveReads(op[p])'
<1>0. /\ op \in [Operations -> Op] /\ \A p \in Operations : SaveReads(op[p])
      /\ \A p \in Operations : op[p].pc # "idle" => op[p].url \in Urls
  BY DEF IngestTyped, IngestTypeOK, OpNamed, ReadsHold
<1>1. ASSUME NEW p \in Operations PROVE SaveReads(op[p])'
  <2>1. CASE op[p].url \in us
    <3>1. op'[p] = [op[p] EXCEPT !.stale = TRUE]
      BY <2>1 DEF Outdated
    <3>. QED BY <1>0, <3>1 DEF SaveReads, Op
  <2>2. CASE op[p].url \notin us
    <3>1. op'[p] = op[p]
      BY <2>2 DEF Outdated
    <3>. QED BY <1>0, <2>2, <3>1 DEF SaveReads, Op
  <2>. QED BY <2>1, <2>2
<1>. QED BY <1>1

\* What is read of an item stays so.
LEMMA ReadsKept ==
  ASSUME IngestTyped, ReadsHold, IngestNext
  PROVE  ReadsHold'
<1>0. /\ item \in [Urls -> ItemStatuses] /\ external \subseteq Urls
      /\ op \in [Operations -> Op]
      /\ \A o \in Operations : SaveReads(op[o])
      /\ \A o \in Operations : op[o].pc # "idle" => op[o].url \in Urls
      /\ \A u \in external : item[u] # "none"
  BY DEF IngestTyped, IngestTypeOK, OpNamed, ReadsHold
<1>1. IdleOp \in Op /\ IdleOp.pc = "idle"
  BY IdleOpTyped DEF IdleOp
<1>2. ASSUME NEW o \in Operations, InsertItem(o) PROVE ReadsHold'
  <2>. DEFINE u == op[o].url
            s == item'[u]
            v == [op[o] EXCEPT !.pc = "save", !.status = s, !.stale = FALSE]
  <2>1. u \in Urls /\ Proceed(o, v)
    BY <1>0, <1>2 DEF InsertItem, On
  <2>2. /\ \A x \in Urls : item[x] # "none" => item'[x] = item[x]
        /\ s # "none" /\ s \in ItemStatuses
        /\ external' = external \/ external' = external \cup {u}
    BY <1>0, <1>2, <2>1 DEF InsertItem, ItemStatuses
  <2>. HIDE DEF s
  <2>3. v \in Op /\ v.url = u /\ v.status = s
    BY <1>0, <2>2 DEF Op
  <2>4. WillRead(v)
    BY <2>2, <2>3 DEF WillRead, s
  <2>. HIDE DEF v
  <2>5. \A p \in Operations : SaveReads(op[p])'
    BY <2>1, <2>2, <2>3, <2>4, ProceedReads
  <2>. QED BY <1>0, <2>1, <2>2, <2>5 DEF ReadsHold, s
<1>3. ASSUME NEW o \in Operations, SaveItem(o) \/ Count(o) \/ Score(o) \/ Nudge(o)
      PROVE  ReadsHold'
  <2>1. \E v \in Op, u \in Urls : v.pc # "save" /\ (Proceed(o, v) \/ Outdating(o, v, u))
    <3>1. op[o].url \in Urls
      BY <1>0, <1>3 DEF SaveItem, Count, Score, Nudge, On
    <3>2. CASE SaveItem(o)
      <4>1. [op[o] EXCEPT !.pc = "count"] \in Op /\ [op[o] EXCEPT !.pc = "count"].pc = "count"
        BY <1>0 DEF Op
      <4>. QED BY <1>1, <3>1, <3>2, <4>1 DEF SaveItem
    <3>3. CASE Count(o)
      <4>. DEFINE m == Cardinality(Owners(op[o].url))
                n == Cardinality(Fans(op[o].url))
                v == [op[o] EXCEPT !.pc = "score", !.stale = FALSE, !.requests = m, !.interests = n]
      <4>1. m \in Nat /\ n \in Nat
        BY <3>1, CountsTyped
      <4>2. Proceed(o, v)
        BY <3>3 DEF Count
      <4>. HIDE DEF m, n
      <4>3. v \in Op /\ v.pc = "score"
        BY <1>0, <4>1 DEF Op
      <4>. QED BY <3>1, <4>2, <4>3
    <3>4. CASE Score(o)
      <4>1. [op[o] EXCEPT !.pc = "nudge"] \in Op /\ [op[o] EXCEPT !.pc = "nudge"].pc = "nudge"
        BY <1>0 DEF Op
      <4>. QED BY <1>1, <3>1, <3>4, <4>1 DEF Score
    <3>5. CASE Nudge(o)
      BY <1>1, <3>1, <3>5 DEF Nudge
    <3>. QED BY <1>3, <3>2, <3>3, <3>4, <3>5
  <2>2. item' = item /\ \A x \in external' : x \in external \/ (SaveItem(o) /\ x = op[o].url)
    BY <1>3 DEF SaveItem, Count, Score, Nudge, rowVars
  <2>3. \A x \in external' : item[x] # "none"
    BY <1>0, <2>2 DEF SaveItem, On, SaveReads
  <2>4. PICK v \in Op, u \in Urls : v.pc # "save" /\ (Proceed(o, v) \/ Outdating(o, v, u))
    BY <2>1
  <2>5. \A p \in Operations : SaveReads(op[p])'
    BY <2>2, <2>4, ProceedReads DEF WillRead
  <2>. QED BY <2>2, <2>3, <2>5 DEF ReadsHold
<1>4. ASSUME NEW o \in Operations, StartOperation(o) PROVE ReadsHold'
  <2>1. UNCHANGED <<item, external>>
    BY <1>4 DEF StartOperation, FindItem, RemoveItem, ToggleInterest, Recount, rowVars
  <2>2. \E v \in Op, u \in Urls : WillRead(v) /\ (Proceed(o, v) \/ Outdating(o, v, u))
    <3>1. ASSUME NEW w \in Users, NEW u \in Urls, NEW fetched \in BOOLEAN,
                 FindItem(o, w, u, fetched)
          PROVE  \E v \in Op : WillRead(v) /\ Proceed(o, v)
      <4>. DEFINE add == [IdleOp EXCEPT !.user = w, !.fetched = fetched, !.adds = TRUE]
      <4>1. add \in Op
        BY DEF IdleOp, Op, ItemStatuses
      <4>2. \/ \E x \in external : Proceed(o, [add EXCEPT !.pc = "save", !.url = x, !.status = item[x]])
            \/ Proceed(o, [add EXCEPT !.pc = "insert", !.url = u])
        BY <3>1 DEF FindItem
      <4>. HIDE DEF add
      <4>3. CASE Proceed(o, [add EXCEPT !.pc = "insert", !.url = u])
        <5>. DEFINE y == [add EXCEPT !.pc = "insert", !.url = u]
        <5>1. y \in Op /\ y.pc = "insert" /\ Proceed(o, y)
          BY <4>1, <4>3 DEF Op
        <5>. HIDE DEF y
        <5>2. WillRead(y)
          BY <5>1 DEF WillRead
        <5>. QED BY <5>1, <5>2
      <4>4. ASSUME NEW x \in external,
                   Proceed(o, [add EXCEPT !.pc = "save", !.url = x, !.status = item[x]])
            PROVE  \E v \in Op : WillRead(v) /\ Proceed(o, v)
        <5>. DEFINE y == [add EXCEPT !.pc = "save", !.url = x, !.status = item[x]]
        <5>1. y \in Op /\ y.url = x /\ y.status = item[x] /\ Proceed(o, y)
          BY <1>0, <4>1, <4>4 DEF Op
        <5>. HIDE DEF y
        <5>2. WillRead(y)
          BY <1>0, <2>1, <5>1 DEF WillRead
        <5>. QED BY <5>1, <5>2
      <4>. QED BY <4>2, <4>3, <4>4
    <3>2. ASSUME NEW w \in Users, NEW u \in Urls, RemoveItem(o, w, u) \/ ToggleInterest(o, w, u)
          PROVE  \E v \in Op : WillRead(v) /\ Outdating(o, v, u)
      <4>. DEFINE v == [IdleOp EXCEPT !.pc = "count", !.user = w, !.url = u]
      <4>1. v \in Op /\ v.pc = "count"
        BY DEF IdleOp, Op, ItemStatuses
      <4>2. Outdating(o, v, u)
        BY <3>2 DEF RemoveItem, ToggleInterest
      <4>. HIDE DEF v
      <4>. QED BY <4>1, <4>2 DEF WillRead
    <3>3. ASSUME NEW u \in Urls, Recount(o, u)
          PROVE  \E v \in Op : WillRead(v) /\ Proceed(o, v)
      <4>. DEFINE v == [IdleOp EXCEPT !.pc = "count", !.url = u]
      <4>1. v \in Op /\ v.pc = "count"
        BY DEF IdleOp, Op, ItemStatuses
      <4>2. Proceed(o, v)
        BY <3>3 DEF Recount
      <4>. HIDE DEF v
      <4>. QED BY <4>1, <4>2 DEF WillRead
    <3>. QED BY <1>4, <3>1, <3>2, <3>3 DEF StartOperation
  <2>3. PICK v \in Op, u \in Urls : WillRead(v) /\ (Proceed(o, v) \/ Outdating(o, v, u))
    BY <2>2
  <2>4. \A p \in Operations : SaveReads(op[p])'
    BY <2>1, <2>3, ProceedReads
  <2>. QED BY <1>0, <2>1, <2>4 DEF ReadsHold
<1>5. ASSUME NEW w \in Users, DeleteAccount(w) \/ ForgetAccount(w) PROVE ReadsHold'
  <2>1. UNCHANGED <<item, external>> /\ \E us : Outdated(us)
    BY <1>5 DEF DeleteAccount, ForgetAccount, rowVars
  <2>2. \A p \in Operations : SaveReads(op[p])'
    BY <2>1, OutdatedReads
  <2>. QED BY <1>0, <2>1, <2>2 DEF ReadsHold
<1>6. ASSUME NEW u \in Urls, Reopen(u) \/ PipelineStep(u) PROVE ReadsHold'
  <2>1. /\ \A x \in Urls \ {u} : item'[x] = item[x]
        /\ item[u] # "none" => item'[u] # "none"
        /\ external' \subseteq external \/ (external' = external \cup {u} /\ item'[u] # "none")
    BY <1>0, <1>6 DEF Reopen, PipelineStep, TakeItem, EndItem, Settle, Ends
  <2>2. Outdated({u})
    BY <1>6 DEF Reopen, PipelineStep, TakeItem, EndItem, Settle
  <2>3. \A p \in Operations : SaveReads(op[p])'
    BY <2>1, <2>2, OutdatedReads
  <2>. QED BY <1>0, <2>1, <2>3 DEF ReadsHold
<1>7. ASSUME NEW u \in Urls, PurgeItem(u) PROVE ReadsHold'
  <2>1. /\ \A x \in Urls \ {u} : item'[x] = item[x]
        /\ external' = external \ {u}
        /\ \A p \in Operations : op'[p] = IF op[p].url = u /\ op[p].pc # "insert" THEN IdleOp ELSE op[p]
    BY <1>0, <1>7 DEF PurgeItem
  <2>2. \A p \in Operations : SaveReads(op[p])'
    BY <1>0, <1>1, <2>1 DEF SaveReads
  <2>3. \A x \in external' : item'[x] # "none"
    BY <1>0, <2>1
  <2>. QED BY <2>2, <2>3 DEF ReadsHold
<1>. QED BY <1>2, <1>3, <1>4, <1>5, <1>6, <1>7 DEF IngestNext, OperationStep

\* A row that a step leaves alone, or loses.
LEMMA RowKept ==
  ASSUME NEW u \in Urls, RowHolds(u), item'[u] = item[u], live'[u] = live[u],
         \A s \in Ends : ending'[<<u, s>>] = ending[<<u, s>>],
         \A w \in Users : library'[<<w, u>>] \in {library[<<w, u>>], "none"},
         u \in raced => u \in raced', u \in reopened <=> u \in reopened'
  PROVE  RowHolds(u)'
BY DEF RowHolds, Unsettled, Ends

\* An operation's steps.
LEMMA OperationReflects ==
  ASSUME ReflectInv, NEW o \in Operations, OperationStep(o), NEW u \in Urls
  PROVE  RowHolds(u)'
<1>0. /\ item \in [Urls -> ItemStatuses]
      /\ library \in [Users \X Urls -> {"none", "waiting", "done"}]
      /\ ending \in [Urls \X Ends -> Nat] /\ live \in [Urls -> Nat]
      /\ SaveReads(op[o]) /\ RowHolds(u)
      /\ op[o].pc # "idle" => op[o].url \in Urls
      /\ op[o].pc = "save" => op[o].user \in Users
  BY DEF ReflectInv, ReadsHold, IngestTyped, IngestTypeOK, OpNamed
<1>1. CASE InsertItem(o)
  <2>1. /\ UNCHANGED <<live, ending, library, raced, reopened>>
        /\ item'[u] = item[u] \/ (item[u] = "none" /\ item'[u] = "queued")
    BY <1>0, <1>1 DEF InsertItem, On, demandVars, historyVars
  <2>2. CASE item'[u] = item[u]
    BY <1>0, <2>1, <2>2, RowKept
  <2>3. CASE item[u] = "none" /\ item'[u] = "queued"
    BY <1>0, <2>1, <2>3 DEF RowHolds, Unsettled, Ends
  <2>. QED BY <2>1, <2>2, <2>3
<1>2. CASE SaveItem(o)
  <2>. DEFINE w == op[o].user
            x == op[o].url
  <2>1. /\ UNCHANGED <<item, live, ending, reopened>> /\ x \in Urls /\ w \in Users
        /\ op[o].stale \/ op[o].status = item[x]
    BY <1>0, <1>2 DEF SaveItem, On, SaveReads
  <2>2. CASE UNCHANGED <<library, raced>> \/ (x # u /\ library' = [library EXCEPT ![<<w, x>>] =
               IF @ # "none" THEN @ ELSE IF op[o].status = "done" THEN "done" ELSE "waiting"]
               /\ raced' = IF op[o].stale THEN raced \cup {x} ELSE raced)
    BY <1>0, <2>1, <2>2, RowKept
  <2>3. CASE /\ x = u /\ op[o].status # "excluded"
             /\ library' = [library EXCEPT ![<<w, x>>] =
                  IF @ # "none" THEN @ ELSE IF op[o].status = "done" THEN "done" ELSE "waiting"]
             /\ raced' = IF op[o].stale THEN raced \cup {x} ELSE raced
    BY <1>0, <2>1, <2>3 DEF RowHolds, Unsettled, Ends
  <2>. QED BY <1>2, <2>2, <2>3 DEF SaveItem
<1>3. CASE Count(o) \/ Score(o) \/ Nudge(o)
  <2>1. /\ UNCHANGED <<item, live, ending, library, reopened>>
        /\ u \in raced => u \in raced'
    BY <1>3 DEF Count, Score, Nudge, rowVars, demandVars, historyVars
  <2>. QED BY <1>0, <2>1, RowKept
<1>. QED BY <1>1, <1>2, <1>3 DEF OperationStep

\* Requests.
LEMMA RequestReflects ==
  ASSUME ReflectInv, NEW u \in Urls,
         \/ \E o \in Operations : StartOperation(o)
         \/ \E w \in Users : DeleteAccount(w) \/ ForgetAccount(w)
         \/ \E x \in Urls : Reopen(x) \/ PurgeItem(x)
  PROVE  RowHolds(u)'
<1>0. /\ item \in [Urls -> ItemStatuses]
      /\ library \in [Users \X Urls -> {"none", "waiting", "done"}]
      /\ ending \in [Urls \X Ends -> Nat] /\ live \in [Urls -> Nat] /\ RowHolds(u)
  BY DEF ReflectInv, IngestTyped, IngestTypeOK
<1>1. ASSUME NEW o \in Operations, StartOperation(o) PROVE RowHolds(u)'
  <2>1. /\ UNCHANGED <<item, live, ending, raced, reopened>>
        /\ \A w \in Users : library'[<<w, u>>] \in {library[<<w, u>>], "none"}
    <3>1. CASE \E w \in Users, x \in Urls : RemoveItem(o, w, x)
      BY <1>0, <3>1 DEF RemoveItem, rowVars, historyVars
    <3>2. CASE library' = library /\ UNCHANGED <<item, live, ending, raced, reopened>>
      BY <3>2
    <3>. QED BY <1>1, <3>1, <3>2
             DEF StartOperation, FindItem, ToggleInterest, Recount, rowVars, demandVars, historyVars
  <2>. QED BY <1>0, <2>1, RowKept
<1>2. ASSUME NEW w \in Users, DeleteAccount(w) \/ ForgetAccount(w) PROVE RowHolds(u)'
  <2>1. /\ UNCHANGED <<item, live, ending, raced, reopened>>
        /\ \A x \in Users : library'[<<x, u>>] \in {library[<<x, u>>], "none"}
    BY <1>0, <1>2 DEF DeleteAccount, ForgetAccount, rowVars
  <2>. QED BY <1>0, <2>1, RowKept
<1>3. ASSUME NEW x \in Urls, Reopen(x) PROVE RowHolds(u)'
  <2>1. /\ UNCHANGED <<live, ending, library, raced>> /\ reopened' = reopened \cup {x}
        /\ item'[u] = item[u] \/ (x = u /\ item'[u] \in {"queued", "summarizing"})
    BY <1>0, <1>3 DEF Reopen, demandVars
  <2>2. CASE x = u
    BY <1>0, <1>3, <2>1, <2>2 DEF Reopen, RowHolds, Unsettled, Ends
  <2>3. CASE x # u
    BY <1>0, <2>1, <2>3, RowKept
  <2>. QED BY <2>2, <2>3
<1>4. ASSUME NEW x \in Urls, PurgeItem(x) PROVE RowHolds(u)'
  <2>1. CASE x = u
    <3>1. /\ live'[u] = 0 /\ \A s \in Ends : ending'[<<u, s>>] = 0
          /\ \A w \in Users : library'[<<w, u>>] = "none"
      BY <1>0, <1>4, <2>1 DEF PurgeItem
    <3>. QED BY <3>1 DEF RowHolds, Unsettled, Ends
  <2>2. CASE x # u
    <3>1. /\ item'[u] = item[u] /\ live'[u] = live[u]
          /\ \A s \in Ends : ending'[<<u, s>>] = ending[<<u, s>>]
          /\ \A w \in Users : library'[<<w, u>>] = library[<<w, u>>]
          /\ (u \in raced <=> u \in raced')
          /\ (u \in reopened <=> u \in reopened')
      BY <1>0, <1>4, <2>2 DEF PurgeItem
    <3>. QED BY <1>0, <3>1, RowKept
  <2>. QED BY <2>1, <2>2
<1>. QED BY <1>1, <1>2, <1>3, <1>4

\* The pipeline's steps.
LEMMA PipelineReflects ==
  ASSUME ReflectInv, NEW x \in Urls, PipelineStep(x), NEW u \in Urls
  PROVE  RowHolds(u)'
<1>0. /\ item \in [Urls -> ItemStatuses]
      /\ library \in [Users \X Urls -> {"none", "waiting", "done"}]
      /\ ending \in [Urls \X Ends -> Nat] /\ live \in [Urls -> Nat] /\ RowHolds(u)
  BY DEF ReflectInv, IngestTyped, IngestTypeOK
<1>1. CASE x # u
  <2>1. /\ item'[u] = item[u] /\ live'[u] = live[u] /\ raced' = raced
        /\ \A s \in Ends : ending'[<<u, s>>] = ending[<<u, s>>]
        /\ \A w \in Users : library'[<<w, u>>] = library[<<w, u>>]
        /\ (u \in reopened <=> u \in reopened')
    <3>1. CASE TakeItem(x)
      BY <1>0, <1>1, <3>1 DEF TakeItem, demandVars, historyVars
    <3>2. CASE EndItem(x)
      BY <1>0, <1>1, <3>2 DEF EndItem, demandVars
    <3>3. CASE Settle(x)
      BY <1>0, <1>1, <3>3 DEF Settle
    <3>. QED BY <3>1, <3>2, <3>3 DEF PipelineStep
  <2>. QED BY <1>0, <2>1, RowKept
<1>2. CASE x = u /\ TakeItem(x)
  <2>1. /\ item[u] \in {"queued", "summarizing", "error"} /\ ~Unsettled(u)
        /\ item'[u] = "running" /\ live'[u] = live[u] + 1
        /\ UNCHANGED <<ending, library, raced, reopened>>
    BY <1>0, <1>2 DEF TakeItem, demandVars, historyVars
  <2>. QED BY <1>0, <2>1 DEF RowHolds, Unsettled, Ends
<1>3. CASE x = u /\ EndItem(x)
  <2>1. PICK status \in Ends \cup {"error", "queued", "summarizing"} :
          /\ item' = [item EXCEPT ![u] = status]
          /\ IF status \in Ends
             THEN /\ ending' = [ending EXCEPT ![<<u, status>>] = @ + 1]
                  /\ reopened' = IF live[u] = 1 /\ ~Unsettled(u) THEN reopened \ {u} ELSE reopened
             ELSE UNCHANGED <<ending, reopened>>
    BY <1>3 DEF EndItem
  <2>2. /\ live[u] > 0 /\ live'[u] = live[u] - 1 /\ item'[u] = status
        /\ UNCHANGED <<library, raced>>
    BY <1>0, <1>3, <2>1 DEF EndItem, demandVars
  <2>3. CASE status \notin Ends
    BY <1>0, <2>1, <2>2, <2>3 DEF RowHolds, Unsettled, Ends
  <2>4. CASE status \in Ends
    <3>1. /\ ending'[<<u, status>>] = ending[<<u, status>>] + 1
          /\ \A s \in Ends \ {status} : ending'[<<u, s>>] = ending[<<u, s>>]
      BY <1>0, <2>1, <2>4
    <3>2. u \notin reopened' => live[u] = 1 /\ ~Unsettled(u)
      BY <1>0, <2>1, <2>2, <2>4 DEF RowHolds
    <3>3. ending[<<u, "done">>] \in Nat /\ ending[<<u, "excluded">>] \in Nat
      BY <1>0 DEF Ends
    <3>4. \A w \in Users : u \notin raced /\ library[<<w, u>>] = "done" /\ u \notin reopened' =>
            status = "done" \/ ending'[<<u, "excluded">>] > 0
      BY <2>4, <3>1, <3>3 DEF Ends
    <3>. QED BY <1>0, <2>2, <2>4, <3>1, <3>2, <3>3, <3>4 DEF RowHolds, Unsettled, Ends
  <2>. QED BY <2>3, <2>4
<1>4. CASE x = u /\ Settle(x)
  <2>1. PICK status \in Ends :
          /\ ending[<<u, status>>] > 0 /\ ending' = [ending EXCEPT ![<<u, status>>] = @ - 1]
          /\ library' = [k \in DOMAIN library |->
               IF k[2] # u \/ library[k] = "none" THEN library[k]
               ELSE IF status = "excluded" THEN "none" ELSE "done"]
    BY <1>4 DEF Settle
  <2>2. UNCHANGED <<item, live, raced, reopened>>
    BY <1>4 DEF Settle
  <2>3. /\ ending'[<<u, status>>] = ending[<<u, status>>] - 1
        /\ \A s \in Ends \ {status} : ending'[<<u, s>>] = ending[<<u, s>>]
        /\ \A w \in Users : library'[<<w, u>>] =
             IF library[<<w, u>>] = "none" THEN "none"
             ELSE IF status = "excluded" THEN "none" ELSE "done"
    BY <1>0, <2>1
  <2>4. ending[<<u, "done">>] \in Nat /\ ending[<<u, "excluded">>] \in Nat
    BY <1>0 DEF Ends
  <2>. QED BY <1>0, <2>1, <2>2, <2>3, <2>4 DEF RowHolds, Unsettled, Ends
<1>. QED BY <1>1, <1>2, <1>3, <1>4 DEF PipelineStep

LEMMA IngestStepReflects ==
  ASSUME ReflectInv, [IngestNext]_ingestVars
  PROVE  ReflectInv'
<1>1. IngestTyped'
  BY IngestStepTyped DEF ReflectInv
<1>2. CASE UNCHANGED ingestVars
  <2>1. \A u \in Urls : RowHolds(u)'
    BY <1>2, RowKept DEF ReflectInv, ingestVars, rowVars, demandVars, historyVars
  <2>2. ReadsHold'
    BY <1>2 DEF ReflectInv, ReadsHold, SaveReads, ingestVars, rowVars
  <2>. QED BY <1>1, <2>1, <2>2 DEF ReflectInv
<1>3. CASE IngestNext
  <2>1. ReadsHold'
    BY <1>3, ReadsKept DEF ReflectInv
  <2>2. \A u \in Urls : RowHolds(u)'
    BY <1>3, OperationReflects, RequestReflects, PipelineReflects DEF IngestNext
  <2>. QED BY <1>1, <2>1, <2>2 DEF ReflectInv
<1>. QED BY <1>2, <1>3

LEMMA InitReflects == IngestInit => ReflectInv
<1>1. IngestInit => \A u \in Urls : RowHolds(u)
  BY DEF IngestInit, RowHolds, Unsettled, Ends
<1>2. IngestInit => ReadsHold
  BY DEF IngestInit, ReadsHold, SaveReads, IdleOp
<1>. QED BY <1>1, <1>2, InitIngestTyped DEF ReflectInv

LEMMA RowsReflect == ReflectInv => LibraryReflects
<1>. SUFFICES ASSUME ReflectInv, NEW u \in Urls, Settled(u), u \notin raced
              PROVE  /\ item[u] = "excluded" => Owners(u) = {}
                     /\ \A w \in Owners(u) :
                          /\ item[u] = "done" => library[<<w, u>>] = "done"
                          /\ library[<<w, u>>] = "done" => item[u] = "done" \/ u \in reopened
  BY DEF LibraryReflects
<1>1. RowHolds(u) /\ ~Unsettled(u)
  BY DEF ReflectInv, Settled
<1>. QED BY <1>1 DEF RowHolds, Unsettled, Ends, Owners

\* For every number of users, items, operations and runs: once nothing is under way
\* on an item, the rows of the libraries tell how it stands, whatever runs of it have
\* come to, as far as LibraryReflects says: a row says done of an item that is not
\* done only after a retry, a regeneration or a repair has sent it back.
THEOREM LibraryAlwaysReflects == IngestSpec => []LibraryReflects
<1>1. ReflectInv /\ [IngestNext]_ingestVars => ReflectInv'
  BY IngestStepReflects
<1>. QED BY <1>1, InitReflects, RowsReflect, PTL DEF IngestSpec
-----------------------------------------------------------------------------
(* The demand stored is the demand *)

\* A count that is not outdated is right.  An item whose demand is not has an operation
\* that will count it, unless one has stored an outdated count or no one counts.
Tallied(u, m, n) == m = Cardinality(Owners(u)) /\ n = Cardinality(Fans(u))
CountHolds(v) == \A u \in Urls :
  v.url = u /\ v.pc = "score" /\ ~v.stale => Tallied(u, v.requests, v.interests)
Counting(u) == \E o \in Operations : op[o].url = u /\ op[o].pc \in {"count", "score"}
DemandInv ==
  /\ IngestTyped
  /\ \A o \in Operations : CountHolds(op[o])
  /\ \A u \in Urls \ (raced \cup uncounted) :
       Tallied(u, requests[u], interests[u]) \/ Counting(u)

\* A step that leaves the rows of an item alone leaves its demand alone.
SameRows(u) == (Owners(u))' = Owners(u) /\ (Fans(u))' = Fans(u)

\* An operation that goes on.
LEMMA ProceedCounts ==
  ASSUME DemandInv, NEW o \in Operations, NEW v \in Op, NEW x,
         \/ Proceed(o, v) /\ \A u \in Urls : SameRows(u)
         \/ Outdating(o, v, x) /\ \A u \in Urls \ {x} : SameRows(u),
         \A u \in Urls : v.url = u /\ v.pc = "score" /\ ~v.stale =>
           /\ v.requests = (Cardinality(Owners(u)))' /\ v.interests = (Cardinality(Fans(u)))'
  PROVE  /\ \A p \in Operations : CountHolds(op[p])'
         /\ \A u \in Urls : Counting(u) /\
              (op[o].url = u /\ op[o].pc \in {"count", "score"} =>
                 v.url = u /\ v.pc \in {"count", "score"}) => Counting(u)'
<1>0. /\ op \in [Operations -> Op] /\ \A p \in Operations : CountHolds(op[p])
      /\ op'[o] = v
  BY DEF DemandInv, IngestTyped, IngestTypeOK, Proceed, Outdating
<1>1. ASSUME NEW p \in Operations \ {o}
      PROVE  /\ op'[p].url = op[p].url /\ op'[p].pc = op[p].pc
             /\ op'[p].requests = op[p].requests /\ op'[p].interests = op[p].interests
             /\ op[p].stale => op'[p].stale
             /\ \A u \in Urls : op[p].url = u /\ ~op'[p].stale => SameRows(u)
  <2>1. CASE Proceed(o, v) /\ \A u \in Urls : SameRows(u)
    BY <1>0, <2>1 DEF Proceed
  <2>2. CASE Outdating(o, v, x) /\ \A u \in Urls \ {x} : SameRows(u)
    <3>1. op'[p] = IF op[p].url = x THEN [op[p] EXCEPT !.stale = TRUE] ELSE op[p]
      BY <2>2 DEF Outdating
    <3>2. op[p] \in Op
      BY <1>0
    <3>. QED BY <2>2, <3>1, <3>2 DEF Op
  <2>. QED BY <2>1, <2>2
<1>2. ASSUME NEW p \in Operations PROVE CountHolds(op[p])'
  <2>1. ASSUME NEW u \in Urls, op'[p].url = u, op'[p].pc = "score", ~op'[p].stale
        PROVE  /\ op'[p].requests = (Cardinality(Owners(u)))'
               /\ op'[p].interests = (Cardinality(Fans(u)))'
    <3>1. CASE p = o
      BY <1>0, <2>1, <3>1
    <3>2. CASE p # o
      <4>1. SameRows(u) /\ Tallied(u, op[p].requests, op[p].interests)
        BY <1>0, <1>1, <2>1, <3>2 DEF CountHolds
      <4>2. (Cardinality(Owners(u)))' = Cardinality(Owners(u))
            /\ (Cardinality(Fans(u)))' = Cardinality(Fans(u))
        BY <4>1 DEF SameRows
      <4>. QED BY <1>1, <3>2, <4>1, <4>2 DEF Tallied
    <3>. QED BY <3>1, <3>2
  <2>. QED BY <2>1 DEF CountHolds, Tallied
<1>. QED BY <1>0, <1>1, <1>2 DEF Counting

\* Operations that are told of a change.
LEMMA OutdatedCounts ==
  ASSUME DemandInv, NEW us, Outdated(us), \A u \in Urls \ us : SameRows(u)
  PROVE  /\ \A p \in Operations : CountHolds(op[p])'
         /\ \A u \in Urls : Counting(u) => Counting(u)'
<1>0. op \in [Operations -> Op] /\ \A p \in Operations : CountHolds(op[p])
  BY DEF DemandInv, IngestTyped, IngestTypeOK
<1>1. ASSUME NEW p \in Operations
      PROVE  /\ op'[p].url = op[p].url /\ op'[p].pc = op[p].pc
             /\ op'[p].requests = op[p].requests /\ op'[p].interests = op[p].interests
             /\ op[p].stale => op'[p].stale
             /\ \A u \in Urls : op[p].url = u /\ ~op'[p].stale => SameRows(u)
  <2>1. op'[p] = IF op[p].url \in us THEN [op[p] EXCEPT !.stale = TRUE] ELSE op[p]
    BY DEF Outdated
  <2>2. op[p] \in Op
    BY <1>0
  <2>. QED BY <2>1, <2>2 DEF Op
<1>2. ASSUME NEW p \in Operations PROVE CountHolds(op[p])'
  <2>1. ASSUME NEW u \in Urls, op'[p].url = u, op'[p].pc = "score", ~op'[p].stale
        PROVE  /\ op'[p].requests = (Cardinality(Owners(u)))'
               /\ op'[p].interests = (Cardinality(Fans(u)))'
    <3>1. SameRows(u) /\ Tallied(u, op[p].requests, op[p].interests)
      BY <1>0, <1>1, <2>1 DEF CountHolds
    <3>2. (Cardinality(Owners(u)))' = Cardinality(Owners(u))
          /\ (Cardinality(Fans(u)))' = Cardinality(Fans(u))
      BY <3>1 DEF SameRows
    <3>. QED BY <1>1, <3>1, <3>2 DEF Tallied
  <2>. QED BY <2>1 DEF CountHolds, Tallied
<1>. QED BY <1>0, <1>1, <1>2 DEF Counting

\* An item that a step leaves alone, or counts, or gives an operation to count.
LEMMA DemandKept ==
  ASSUME DemandInv, NEW u \in Urls,
         u \in raced => u \in raced', u \in uncounted => u \in uncounted',
         requests'[u] = requests[u], interests'[u] = interests[u],
         SameRows(u) \/ Counting(u)', Counting(u) => Counting(u)'
  PROVE  u \notin raced' \cup uncounted' =>
           Tallied(u, requests[u], interests[u])' \/ Counting(u)'
<1>1. SameRows(u) => /\ (Cardinality(Owners(u)))' = Cardinality(Owners(u))
                     /\ (Cardinality(Fans(u)))' = Cardinality(Fans(u))
  BY DEF SameRows
<1>2. u \notin raced' \cup uncounted' => Tallied(u, requests[u], interests[u]) \/ Counting(u)
  BY DEF DemandInv
<1>. QED BY <1>1, <1>2 DEF Tallied

DemandHolds ==
  /\ \A o \in Operations : CountHolds(op[o])
  /\ \A u \in Urls : u \notin raced \cup uncounted =>
       Tallied(u, requests[u], interests[u]) \/ Counting(u)

\* An operation's steps.
LEMMA OperationCounts ==
  ASSUME DemandInv, NEW o \in Operations, OperationStep(o)
  PROVE  DemandHolds'
<1>0. /\ op \in [Operations -> Op] /\ item \in [Urls -> ItemStatuses]
      /\ library \in [Users \X Urls -> {"none", "waiting", "done"}]
      /\ requests \in [Urls -> Nat] /\ interests \in [Urls -> Nat]
      /\ op[o].pc # "idle" => op[o].url \in Urls
      /\ op[o].pc = "save" => op[o].user \in Users
      /\ CountHolds(op[o])
  BY DEF DemandInv, IngestTyped, IngestTypeOK, OpNamed
<1>i. IdleOp \in Op /\ IdleOp.pc = "idle"
  BY IdleOpTyped DEF IdleOp
<1>1. CASE InsertItem(o)
  <2>. DEFINE s == item'[op[o].url]
            v == [op[o] EXCEPT !.pc = "save", !.status = s, !.stale = FALSE]
  <2>1. Proceed(o, v) /\ op[o].pc = "insert" /\ s \in ItemStatuses
        /\ UNCHANGED <<library, interest, requests, interests, raced, uncounted>>
    BY <1>0, <1>1 DEF InsertItem, On, demandVars, historyVars, ItemStatuses
  <2>. HIDE DEF s
  <2>2. v \in Op /\ v.pc = "save"
    BY <1>0, <2>1 DEF Op
  <2>. HIDE DEF v
  <2>3. \A u \in Urls : SameRows(u)
    BY <2>1 DEF SameRows, Owners, Fans
  <2>4. /\ \A p \in Operations : CountHolds(op[p])'
        /\ \A u \in Urls : Counting(u) => Counting(u)'
    BY <2>1, <2>2, <2>3, ProceedCounts
  <2>5. \A u \in Urls : u \notin raced' \cup uncounted' =>
          Tallied(u, requests[u], interests[u])' \/ Counting(u)'
    BY <2>1, <2>3, <2>4, DemandKept
  <2>. QED BY <2>4, <2>5 DEF DemandHolds
<1>2. CASE SaveItem(o)
  <2>. DEFINE w == op[o].user
            v == [op[o] EXCEPT !.pc = "count"]
  <2>0. PICK x \in Urls : x = op[o].url
    BY <1>0, <1>2 DEF SaveItem, On
  <2>1. /\ w \in Users /\ op[o].pc = "save"
        /\ UNCHANGED <<interest, requests, interests, uncounted>>
        /\ \A u \in Urls : u \in raced => u \in raced'
    BY <1>0, <1>2 DEF SaveItem, On
  <2>2. CASE Proceed(o, IdleOp) /\ UNCHANGED <<library, raced>>
    <3>1. \A u \in Urls : SameRows(u)
      BY <2>1, <2>2 DEF SameRows, Owners, Fans
    <3>2. /\ \A p \in Operations : CountHolds(op[p])'
          /\ \A u \in Urls : Counting(u) => Counting(u)'
      BY <1>i, <2>1, <2>2, <3>1, ProceedCounts
    <3>3. \A u \in Urls : u \notin raced' \cup uncounted' =>
            Tallied(u, requests[u], interests[u])' \/ Counting(u)'
      BY <2>1, <3>1, <3>2, DemandKept
    <3>. QED BY <3>2, <3>3 DEF DemandHolds
  <2>3. CASE /\ Outdating(o, v, x)
             /\ library' = [library EXCEPT ![<<w, x>>] =
                  IF @ # "none" THEN @ ELSE IF op[o].status = "done" THEN "done" ELSE "waiting"]
    <3>1. v \in Op /\ v.pc = "count" /\ v.url = x
      BY <1>0, <2>0 DEF Op
    <3>2. \A u \in Urls \ {x} : SameRows(u)
      BY <1>0, <2>1, <2>3 DEF SameRows, Owners, Fans
    <3>. HIDE DEF v
    <3>3. /\ \A p \in Operations : CountHolds(op[p])'
          /\ \A u \in Urls : Counting(u) => Counting(u)'
      BY <2>1, <2>3, <3>1, <3>2, ProceedCounts
    <3>4. Counting(x)'
      BY <1>0, <2>3, <3>1 DEF Counting, Outdating
    <3>5. \A u \in Urls : u \notin raced' \cup uncounted' =>
            Tallied(u, requests[u], interests[u])' \/ Counting(u)'
      BY <2>1, <3>2, <3>3, <3>4, DemandKept
    <3>. QED BY <3>3, <3>5 DEF DemandHolds
  <2>. QED BY <1>2, <2>0, <2>2, <2>3 DEF SaveItem
<1>3. CASE Count(o)
  <2>1. PICK x \in Urls : op[o].url = x
    BY <1>0, <1>3 DEF Count, On
  <2>. DEFINE m == Cardinality(Owners(x))
            n == Cardinality(Fans(x))
            v == [op[o] EXCEPT !.pc = "score", !.stale = FALSE, !.requests = m, !.interests = n]
  <2>2. Proceed(o, v) /\ UNCHANGED <<demandVars, historyVars>>
    BY <1>3, <2>1 DEF Count
  <2>3. \A u \in Urls : SameRows(u)
    BY <2>2 DEF SameRows, Owners, Fans, demandVars
  <2>4. m = (Cardinality(Owners(x)))' /\ n = (Cardinality(Fans(x)))'
    BY <2>3 DEF SameRows
  <2>5. m \in Nat /\ n \in Nat
    BY <2>1, CountsTyped
  <2>. HIDE DEF m, n
  <2>6. v \in Op /\ v.pc = "score" /\ v.url = x /\ v.requests = m /\ v.interests = n
    BY <1>0, <2>1, <2>5 DEF Op
  <2>. HIDE DEF v
  <2>7. /\ \A p \in Operations : CountHolds(op[p])'
        /\ \A u \in Urls : Counting(u) => Counting(u)'
    BY <2>1, <2>2, <2>3, <2>4, <2>6, ProceedCounts
  <2>8. \A u \in Urls : u \notin raced' \cup uncounted' =>
          Tallied(u, requests[u], interests[u])' \/ Counting(u)'
    BY <2>2, <2>3, <2>7, DemandKept DEF demandVars, historyVars
  <2>. QED BY <2>7, <2>8 DEF DemandHolds
<1>4. CASE Score(o)
  <2>1. PICK x \in Urls : op[o].url = x
    BY <1>0, <1>4 DEF Score, On
  <2>2. \E v \in Op : v.pc \in {"nudge", "idle"} /\ Proceed(o, v)
    <3>1. [op[o] EXCEPT !.pc = "nudge"] \in Op /\ [op[o] EXCEPT !.pc = "nudge"].pc = "nudge"
      BY <1>0 DEF Op
    <3>. QED BY <1>i, <1>4, <3>1 DEF Score
  <2>3. PICK v \in Op : v.pc \in {"nudge", "idle"} /\ Proceed(o, v)
    BY <2>2
  <2>4. /\ UNCHANGED <<library, interest>>
        /\ requests' = [requests EXCEPT ![x] = op[o].requests]
        /\ interests' = [interests EXCEPT ![x] = op[o].interests]
        /\ raced' = IF op[o].stale THEN raced \cup {x} ELSE raced
        /\ uncounted' = IF op[o].stale THEN uncounted ELSE uncounted \ {x}
        /\ op[o].pc = "score"
    BY <1>4, <2>1 DEF Score, On
  <2>5. \A u \in Urls : SameRows(u)
    BY <2>4 DEF SameRows, Owners, Fans
  <2>6. /\ \A p \in Operations : CountHolds(op[p])'
        /\ \A u \in Urls \ {x} : Counting(u) => Counting(u)'
    BY <2>1, <2>3, <2>5, ProceedCounts
  <2>7. ASSUME NEW u \in Urls, u \notin raced' \cup uncounted'
        PROVE  Tallied(u, requests[u], interests[u])' \/ Counting(u)'
    <3>1. CASE u = x
      <4>1. Tallied(x, op[o].requests, op[o].interests)
        BY <1>0, <2>1, <2>4, <2>7, <3>1 DEF CountHolds
      <4>2. requests'[x] = op[o].requests /\ interests'[x] = op[o].interests
        BY <1>0, <2>4
      <4>3. (Cardinality(Owners(x)))' = Cardinality(Owners(x))
            /\ (Cardinality(Fans(x)))' = Cardinality(Fans(x))
        BY <2>5 DEF SameRows
      <4>. QED BY <3>1, <4>1, <4>2, <4>3 DEF Tallied
    <3>2. CASE u # x
      BY <1>0, <2>4, <2>5, <2>6, <2>7, <3>2, DemandKept
    <3>. QED BY <3>1, <3>2
  <2>. QED BY <2>6, <2>7 DEF DemandHolds
<1>5. CASE Nudge(o)
  <2>1. Proceed(o, IdleOp) /\ op[o].pc = "nudge" /\ UNCHANGED <<demandVars, historyVars>>
    BY <1>5 DEF Nudge, On
  <2>2. \A u \in Urls : SameRows(u)
    BY <2>1 DEF SameRows, Owners, Fans, demandVars
  <2>3. /\ \A p \in Operations : CountHolds(op[p])'
        /\ \A u \in Urls : Counting(u) => Counting(u)'
    BY <1>i, <2>1, <2>2, ProceedCounts
  <2>4. \A u \in Urls : u \notin raced' \cup uncounted' =>
          Tallied(u, requests[u], interests[u])' \/ Counting(u)'
    BY <2>1, <2>2, <2>3, DemandKept DEF demandVars, historyVars
  <2>. QED BY <2>3, <2>4 DEF DemandHolds
<1>. QED BY <1>1, <1>2, <1>3, <1>4, <1>5 DEF OperationStep

\* The start of one.
LEMMA StartCounts ==
  ASSUME DemandInv, NEW o \in Operations, StartOperation(o)
  PROVE  DemandHolds'
<1>0. /\ op \in [Operations -> Op] /\ item \in [Urls -> ItemStatuses]
      /\ library \in [Users \X Urls -> {"none", "waiting", "done"}]
  BY DEF DemandInv, IngestTyped, IngestTypeOK
<1>1. ASSUME NEW v \in Op, v.pc \in {"insert", "save", "count"}, Proceed(o, v),
             op[o].pc = "idle", UNCHANGED <<demandVars, historyVars>>
      PROVE  DemandHolds'
  <2>1. \A u \in Urls : SameRows(u)
    BY <1>1 DEF SameRows, Owners, Fans, demandVars
  <2>2. /\ \A p \in Operations : CountHolds(op[p])'
        /\ \A u \in Urls : Counting(u) => Counting(u)'
    BY <1>1, <2>1, ProceedCounts
  <2>3. \A u \in Urls : u \notin raced' \cup uncounted' =>
          Tallied(u, requests[u], interests[u])' \/ Counting(u)'
    BY <1>1, <2>1, <2>2, DemandKept DEF demandVars, historyVars
  <2>. QED BY <2>2, <2>3 DEF DemandHolds
<1>2. ASSUME NEW w \in Users, NEW u \in Urls, NEW fetched \in BOOLEAN, FindItem(o, w, u, fetched)
      PROVE  DemandHolds'
  <2>. DEFINE add == [IdleOp EXCEPT !.user = w, !.fetched = fetched, !.adds = TRUE]
  <2>1. add \in Op
    BY DEF IdleOp, Op, ItemStatuses
  <2>2. /\ \/ \E x \in Urls : Proceed(o, [add EXCEPT !.pc = "save", !.url = x, !.status = item[x]])
           \/ Proceed(o, [add EXCEPT !.pc = "insert", !.url = u])
        /\ op[o].pc = "idle" /\ UNCHANGED <<demandVars, historyVars>>
    <3>1. external \subseteq Urls
      BY DEF DemandInv, IngestTyped, IngestTypeOK
    <3>. QED BY <1>2, <3>1 DEF FindItem, StartOp, On
  <2>. HIDE DEF add
  <2>3. CASE Proceed(o, [add EXCEPT !.pc = "insert", !.url = u])
    <3>. DEFINE y == [add EXCEPT !.pc = "insert", !.url = u]
    <3>1. y \in Op /\ y.pc = "insert" /\ Proceed(o, y)
      BY <2>1, <2>3 DEF Op
    <3>. HIDE DEF y
    <3>. QED BY <1>1, <2>2, <3>1
  <2>4. ASSUME NEW x \in Urls,
               Proceed(o, [add EXCEPT !.pc = "save", !.url = x, !.status = item[x]])
        PROVE  DemandHolds'
    <3>. DEFINE y == [add EXCEPT !.pc = "save", !.url = x, !.status = item[x]]
    <3>1. y \in Op /\ y.pc = "save" /\ Proceed(o, y)
      BY <1>0, <2>1, <2>4 DEF Op
    <3>. HIDE DEF y
    <3>. QED BY <1>1, <2>2, <3>1
  <2>. QED BY <2>2, <2>3, <2>4
<1>3. ASSUME NEW u \in Urls, Recount(o, u) PROVE DemandHolds'
  <2>. DEFINE v == [IdleOp EXCEPT !.pc = "count", !.url = u]
  <2>1. v \in Op /\ v.pc = "count"
    BY DEF IdleOp, Op, ItemStatuses
  <2>2. Proceed(o, v) /\ op[o].pc = "idle" /\ UNCHANGED <<demandVars, historyVars>>
    BY <1>3 DEF Recount, StartOp, On
  <2>. HIDE DEF v
  <2>. QED BY <1>1, <2>1, <2>2
<1>4. ASSUME NEW w \in Users, NEW x \in Urls, RemoveItem(o, w, x) \/ ToggleInterest(o, w, x)
      PROVE  DemandHolds'
  <2>. DEFINE v == [IdleOp EXCEPT !.pc = "count", !.user = w, !.url = x]
  <2>1. v \in Op /\ v.pc = "count" /\ v.url = x
    BY DEF IdleOp, Op, ItemStatuses
  <2>2. /\ Outdating(o, v, x) /\ op[o].pc = "idle"
        /\ UNCHANGED <<requests, interests, historyVars>>
    BY <1>4 DEF RemoveItem, ToggleInterest, StartOp, On
  <2>3. \A u \in Urls \ {x} : SameRows(u)
    BY <1>0, <1>4 DEF RemoveItem, ToggleInterest, SameRows, Owners, Fans
  <2>. HIDE DEF v
  <2>4. /\ \A p \in Operations : CountHolds(op[p])'
        /\ \A u \in Urls : Counting(u) => Counting(u)'
    BY <2>1, <2>2, <2>3, ProceedCounts
  <2>5. Counting(x)'
    BY <1>0, <2>1, <2>2 DEF Counting, Outdating
  <2>6. \A u \in Urls : u \notin raced' \cup uncounted' =>
          Tallied(u, requests[u], interests[u])' \/ Counting(u)'
    BY <2>2, <2>3, <2>4, <2>5, DemandKept DEF historyVars
  <2>. QED BY <2>4, <2>6 DEF DemandHolds
<1>. QED BY <1>2, <1>3, <1>4 DEF StartOperation

\* The other requests, and the pipeline.
LEMMA OthersCount ==
  ASSUME DemandInv,
         \/ \E w \in Users : DeleteAccount(w) \/ ForgetAccount(w)
         \/ \E u \in Urls : Reopen(u) \/ PurgeItem(u) \/ PipelineStep(u)
  PROVE  DemandHolds'
<1>0. /\ op \in [Operations -> Op] /\ item \in [Urls -> ItemStatuses]
      /\ library \in [Users \X Urls -> {"none", "waiting", "done"}]
      /\ requests \in [Urls -> Nat] /\ interests \in [Urls -> Nat]
      /\ \A p \in Operations : op[p].pc # "idle" => op[p].url \in Urls
  BY DEF DemandInv, IngestTyped, IngestTypeOK, OpNamed
<1>1. ASSUME NEW us, Outdated(us), UNCHANGED <<requests, interests>>,
             \A u \in Urls : (u \in raced => u \in raced') /\ (u \in uncounted => u \in uncounted'),
             \A u \in Urls : SameRows(u) \/ (u \in us /\ u \in uncounted')
      PROVE  DemandHolds'
  <2>1. /\ \A p \in Operations : CountHolds(op[p])'
        /\ \A u \in Urls : Counting(u) => Counting(u)'
    BY <1>1, OutdatedCounts
  <2>2. \A u \in Urls : u \notin raced' \cup uncounted' =>
          Tallied(u, requests[u], interests[u])' \/ Counting(u)'
    BY <1>1, <2>1, DemandKept
  <2>. QED BY <2>1, <2>2 DEF DemandHolds
<1>2. ASSUME NEW w \in Users, DeleteAccount(w) PROVE DemandHolds'
  <2>1. \A u \in Urls : SameRows(u) \/ u \in Saved(w)
    BY <1>0, <1>2 DEF DeleteAccount, SameRows, Owners, Fans, Saved
  <2>2. /\ Outdated(Saved(w)) /\ UNCHANGED <<requests, interests, raced>>
        /\ uncounted' = uncounted \cup Saved(w)
    BY <1>2 DEF DeleteAccount
  <2>. QED BY <1>1, <2>1, <2>2
<1>3. ASSUME NEW w \in Users, ForgetAccount(w) PROVE DemandHolds'
  <2>1. \A u \in Urls : SameRows(u) \/ u \in Saved(w) \cup Liked(w)
    BY <1>0, <1>3 DEF ForgetAccount, SameRows, Owners, Fans, Saved, Liked
  <2>2. /\ Outdated(Saved(w) \cup Liked(w)) /\ UNCHANGED <<requests, interests, raced>>
        /\ uncounted' = uncounted \cup Saved(w) \cup Liked(w)
    BY <1>3 DEF ForgetAccount
  <2>. QED BY <1>1, <2>1, <2>2
<1>4. ASSUME NEW x \in Urls, Reopen(x) \/ TakeItem(x) \/ EndItem(x) PROVE DemandHolds'
  <2>1. Outdated({x}) /\ UNCHANGED <<library, interest, requests, interests, raced, uncounted>>
    BY <1>4 DEF Reopen, TakeItem, EndItem, demandVars, historyVars
  <2>2. \A u \in Urls : SameRows(u)
    BY <2>1 DEF SameRows, Owners, Fans
  <2>. QED BY <1>1, <2>1, <2>2
<1>5. ASSUME NEW x \in Urls, Settle(x) PROVE DemandHolds'
  <2>1. PICK status \in Ends :
          /\ uncounted' = IF status = "excluded" THEN uncounted \cup {x} ELSE uncounted
          /\ library' = [k \in DOMAIN library |->
               IF k[2] # x \/ library[k] = "none" THEN library[k]
               ELSE IF status = "excluded" THEN "none" ELSE "done"]
    BY <1>5 DEF Settle
  <2>2. Outdated({x}) /\ UNCHANGED <<interest, requests, interests, raced>>
    BY <1>5 DEF Settle
  <2>3. \A u \in Urls : SameRows(u) \/ (u = x /\ status = "excluded")
    BY <1>0, <2>1, <2>2 DEF SameRows, Owners, Fans
  <2>. QED BY <1>1, <2>1, <2>2, <2>3
<1>6. ASSUME NEW x \in Urls, PurgeItem(x) PROVE DemandHolds'
  <2>1. /\ \A p \in Operations :
             op'[p] = IF op[p].url = x /\ op[p].pc # "insert" THEN IdleOp ELSE op[p]
        /\ \A u \in Urls \ {x} : /\ SameRows(u)
                                 /\ requests'[u] = requests[u] /\ interests'[u] = interests[u]
                                 /\ u \in raced => u \in raced'
                                 /\ u \in uncounted => u \in uncounted'
    BY <1>0, <1>6 DEF PurgeItem, SameRows, Owners, Fans
  <2>2. IdleOp.pc = "idle"
    BY DEF IdleOp
  <2>3. /\ (Owners(x))' = {} /\ (Fans(x))' = {}
        /\ requests'[x] = 0 /\ interests'[x] = 0
    BY <1>0, <1>6 DEF PurgeItem, Owners, Fans
  <2>4. Tallied(x, requests[x], interests[x])'
    <3>1. (Cardinality(Owners(x)))' = 0 /\ (Cardinality(Fans(x)))' = 0
      BY <2>3, FS_EmptySet
    <3>. QED BY <2>3, <3>1 DEF Tallied
  <2>5. \A u \in Urls \ {x} : Counting(u) => Counting(u)'
    BY <2>1 DEF Counting
  <2>6. ASSUME NEW p \in Operations PROVE CountHolds(op[p])'
    <3>1. ASSUME NEW u \in Urls, op'[p].url = u, op'[p].pc = "score", ~op'[p].stale
          PROVE  Tallied(u, op[p].requests, op[p].interests)'
      <4>1. op'[p] = op[p] /\ u # x /\ SameRows(u)
        BY <2>1, <2>2, <3>1
      <4>2. Tallied(u, op[p].requests, op[p].interests)
        BY <3>1, <4>1 DEF DemandInv, CountHolds
      <4>3. (Cardinality(Owners(u)))' = Cardinality(Owners(u))
            /\ (Cardinality(Fans(u)))' = Cardinality(Fans(u))
        BY <4>1 DEF SameRows
      <4>. QED BY <4>1, <4>2, <4>3 DEF Tallied
    <3>. QED BY <3>1 DEF CountHolds
  <2>7. ASSUME NEW u \in Urls \ {x}
        PROVE  u \notin raced' \cup uncounted' =>
                 Tallied(u, requests[u], interests[u])' \/ Counting(u)'
    BY <2>1, <2>5, DemandKept
  <2>. QED BY <2>4, <2>6, <2>7 DEF DemandHolds
<1>. QED BY <1>2, <1>3, <1>4, <1>5, <1>6 DEF PipelineStep

LEMMA IngestStepCounts ==
  ASSUME DemandInv, [IngestNext]_ingestVars
  PROVE  DemandInv'
<1>1. IngestTyped'
  BY IngestStepTyped DEF DemandInv
<1>2. CASE UNCHANGED ingestVars
  <2>1. UNCHANGED <<op, library, interest, requests, interests, raced, uncounted>>
    BY <1>2 DEF ingestVars, demandVars, historyVars
  <2>2. \A u \in Urls : SameRows(u) /\ (Counting(u) => Counting(u)')
    BY <2>1 DEF SameRows, Owners, Fans, Counting
  <2>3. \A u \in Urls : u \notin raced' \cup uncounted' =>
          Tallied(u, requests[u], interests[u])' \/ Counting(u)'
    BY <2>1, <2>2, DemandKept
  <2>4. \A u \in Urls : (Cardinality(Owners(u)))' = Cardinality(Owners(u))
                       /\ (Cardinality(Fans(u)))' = Cardinality(Fans(u))
    BY <2>2 DEF SameRows
  <2>5. \A p \in Operations : CountHolds(op[p])'
    BY <2>1, <2>4 DEF DemandInv, CountHolds, Tallied
  <2>. QED BY <1>1, <2>3, <2>5 DEF DemandInv
<1>3. CASE IngestNext
  <2>1. DemandHolds'
    BY <1>3, OperationCounts, StartCounts, OthersCount DEF IngestNext
  <2>. QED BY <1>1, <2>1 DEF DemandInv, DemandHolds
<1>. QED BY <1>2, <1>3

LEMMA InitCounts == IngestInit => DemandInv
<1>. SUFFICES ASSUME IngestInit PROVE DemandInv
  OBVIOUS
<1>1. ASSUME NEW u \in Urls PROVE Tallied(u, requests[u], interests[u])
  <2>1. Owners(u) = {} /\ Fans(u) = {}
    BY DEF IngestInit, Owners, Fans
  <2>2. Cardinality(Owners(u)) = 0 /\ Cardinality(Fans(u)) = 0
    BY <2>1, FS_EmptySet
  <2>. QED BY <2>2 DEF IngestInit, Tallied
<1>2. \A o \in Operations : CountHolds(op[o])
  BY DEF IngestInit, CountHolds, IdleOp
<1>. QED BY <1>1, <1>2, InitIngestTyped DEF DemandInv

\* For every number of users, items, operations and runs: the demand stored with an
\* item nothing is under way on is the number of its library rows and of its
\* interests, unless operations on it have overlapped, or rows have gone by an
\* exclusion or with a deleted user and it has not been counted since.
THEOREM DemandAlwaysCounted == IngestSpec => []DemandCounted
<1>1. DemandInv /\ [IngestNext]_ingestVars => DemandInv'
  BY IngestStepCounts
<1>2. DemandInv => DemandCounted
  <2>. SUFFICES ASSUME DemandInv, NEW u \in Urls, Settled(u), u \notin raced \cup uncounted
                PROVE  /\ requests[u] = Cardinality(Owners(u))
                       /\ interests[u] = Cardinality(Fans(u))
    BY DEF DemandCounted
  <2>1. ~Counting(u)
    BY DEF Counting, Settled
  <2>. QED BY <2>1 DEF DemandInv, Tallied
<1>. QED BY <1>1, <1>2, InitCounts, PTL DEF IngestSpec

-----------------------------------------------------------------------------
(* The pool of containers *)

\* A run under way has a job.
RunNamed ==
  \A r \in Runs : IF run[r].at = "idle" THEN run[r] = NoRun ELSE run[r].job \in Jobs

\* What is in the pool and not excused is of the deployed generation, and a run has
\* it or the row of its job waits for one.
Busy(inst) == \E r \in Runs : run[r].at # "idle" /\ InstanceOf(r) = inst
Attended ==
  \A inst \in pool \ excused :
    /\ inst[2] = generation
    /\ inst[1] \in Jobs =>
         /\ work[inst[1]] # "gone"
         /\ Busy(inst) \/ work[inst[1]] \in {"waiting", "leased"}

\* A side job has one run at a time, and one that ends under an outdated generation
\* has excused what it leaves.
SideAlone ==
  \A r \in Runs : run[r].job \in Side =>
    /\ work[run[r].job] = "leased"
    /\ \A q \in Runs : run[q].job = run[r].job => q = r
OutdatedExcused ==
  \A r \in Runs : run[r].at = "releasing" /\ run[r].job \in Side /\ run[r].gen # generation =>
    \A inst \in pool : inst[1] = run[r].job => inst \in excused

PoolTyped == ContainersTypeOK /\ RunNamed
PoolInv == PoolTyped /\ Attended /\ SideAlone /\ OutdatedExcused

RunState == [at: {"idle", "opening", "reading", "broken", "releasing"},
             job: Jobs \cup {NoJob}, gen: 0..MaxGen, next: {"waiting", "done", "error"}]

LEMMA NoRunTyped == NoRun \in RunState /\ NoRun.at = "idle" /\ NoRun.job = NoJob
BY ContainersAssumption DEF NoRun, RunState

\* Runs that are cut off go on as they are otherwise.
LEMMA CutOffKeeps ==
  ASSUME NEW runs \in [Runs -> RunState], NEW insts
  PROVE  /\ CutOff(runs, insts) \in [Runs -> RunState]
         /\ \A r \in Runs :
              /\ CutOff(runs, insts)[r].job = runs[r].job
              /\ CutOff(runs, insts)[r].gen = runs[r].gen
              /\ CutOff(runs, insts)[r].at = "idle" <=> runs[r].at = "idle"
              /\ CutOff(runs, insts)[r].at = "releasing" <=> runs[r].at = "releasing"
              /\ runs[r].at = "idle" => CutOff(runs, insts)[r] = runs[r]
<1>1. ASSUME NEW r \in Runs
      PROVE  LET q == [runs[r] EXCEPT !.at = "broken"]
             IN  q \in RunState /\ q.job = runs[r].job /\ q.gen = runs[r].gen /\ q.at = "broken"
  BY DEF RunState
<1>. QED BY <1>1 DEF CutOff

\* After a release the run is none, and the others go on as they are otherwise.
LEMMA ReleaseKeeps ==
  ASSUME run \in [Runs -> RunState], RunNamed, NEW r \in Runs, ReleaseRun(r)
  PROVE  /\ run' \in [Runs -> RunState] /\ RunNamed'
         /\ run'[r] = NoRun
         /\ \A q \in Runs \ {r} :
              /\ run'[q].job = run[q].job /\ run'[q].gen = run[q].gen
              /\ run'[q].at = "idle" <=> run[q].at = "idle"
              /\ run'[q].at = "releasing" <=> run[q].at = "releasing"
<1>. DEFINE runs == [run EXCEPT ![r] = NoRun]
<1>1. /\ runs \in [Runs -> RunState] /\ runs[r] = NoRun
      /\ \A q \in Runs \ {r} : runs[q] = run[q]
      /\ \A q \in Runs : IF runs[q].at = "idle" THEN runs[q] = NoRun ELSE runs[q].job \in Jobs
  BY NoRunTyped DEF RunNamed
<1>2. run' = CutOff(runs, {InstanceOf(r)}) \/ run' = runs
  BY DEF ReleaseRun, Released
<1>. HIDE DEF runs
<1>3. CASE run' = CutOff(runs, {InstanceOf(r)})
  <2>1. run' \in [Runs -> RunState] /\ RunNamed'
    BY <1>1, <1>3, CutOffKeeps DEF RunNamed
  <2>. QED BY <1>1, <1>3, <2>1, CutOffKeeps, NoRunTyped
<1>4. CASE run' = runs
  BY <1>1, <1>4 DEF RunNamed
<1>. QED BY <1>2, <1>3, <1>4

LEMMA RunStepTyped ==
  ASSUME PoolTyped, [ContainersNext]_containerVars
  PROVE  /\ run' \in [Runs -> RunState] /\ RunNamed'
         /\ work' \in [Jobs -> {"waiting", "leased", "done", "error", "gone"}]
         /\ retries' \in [Items -> 0..MaxRetries]
<1>. DEFINE Good == /\ run' \in [Runs -> RunState] /\ RunNamed'
                    /\ work' \in [Jobs -> {"waiting", "leased", "done", "error", "gone"}]
                    /\ retries' \in [Items -> 0..MaxRetries]
<1>0. /\ run \in [Runs -> RunState] /\ RunNamed
      /\ work \in [Jobs -> {"waiting", "leased", "done", "error", "gone"}]
      /\ retries \in [Items -> 0..MaxRetries]
      /\ generation \in 0..MaxGen
      /\ \A r \in Runs : run[r].at # "idle" => run[r].job \in Jobs
  BY DEF PoolTyped, ContainersTypeOK, RunState, RunNamed
<1>1. ASSUME NEW r \in Runs, NEW v \in RunState, run' = [run EXCEPT ![r] = v],
             IF v.at = "idle" THEN v = NoRun ELSE v.job \in Jobs
      PROVE  run' \in [Runs -> RunState] /\ RunNamed'
  BY <1>0, <1>1 DEF RunNamed
<1>2. ASSUME NEW r \in Runs, NEW outcome \in {"waiting", "done", "error"}, Over(r, outcome),
             run[r].at # "idle"
      PROVE  /\ run' \in [Runs -> RunState] /\ RunNamed'
             /\ work' \in [Jobs -> {"waiting", "leased", "done", "error", "gone"}]
  <2>. DEFINE v == [run[r] EXCEPT !.at = "releasing", !.next = outcome]
  <2>1. v \in RunState /\ v.at = "releasing" /\ v.job = run[r].job
    BY <1>0 DEF RunState
  <2>2. run' = [run EXCEPT ![r] = v]
    BY <1>0, <1>2 DEF Over
  <2>. HIDE DEF v
  <2>. QED BY <1>0, <1>1, <1>2, <2>1, <2>2 DEF Over
<1>3. ASSUME NEW r \in Runs, NEW j \in Jobs, StartRun(r, j) PROVE Good
  <2>1. LET v == [NoRun EXCEPT !.at = "opening", !.job = j, !.gen = generation]
        IN  v \in RunState /\ v.at = "opening" /\ v.job = j
    BY <1>0 DEF NoRun, RunState
  <2>. QED BY <1>0, <1>1, <1>3, <2>1 DEF StartRun
<1>4. ASSUME NEW r \in Runs, OpenRun(r) PROVE Good
  <2>. DEFINE v == [run[r] EXCEPT !.at = "reading"]
  <2>1. v \in RunState /\ v.at = "reading" /\ v.job = run[r].job
    BY <1>0 DEF RunState
  <2>2. run' = [run EXCEPT ![r] = v]
    BY <1>0, <1>4 DEF OpenRun
  <2>. HIDE DEF v
  <2>. QED BY <1>0, <1>1, <1>4, <2>1, <2>2 DEF OpenRun
<1>5. ASSUME NEW r \in Runs, FinishRun(r) PROVE Good
  BY <1>0, <1>2, <1>5 DEF FinishRun
<1>6. ASSUME NEW r \in Runs, DeferRun(r) PROVE Good
  BY <1>0, <1>1, <1>2, <1>6, NoRunTyped DEF DeferRun
<1>7. ASSUME NEW r \in Runs, FailRun(r) PROVE Good
  <2>1. run[r].at # "idle" /\ \E outcome \in {"waiting", "error"} : Over(r, outcome)
    BY <1>7 DEF FailRun
  <2>2. retries' \in [Items -> 0..MaxRetries]
    BY <1>0, <1>7, ContainersAssumption DEF FailRun
  <2>. QED BY <1>2, <2>1, <2>2
<1>8. ASSUME NEW r \in Runs, ReleaseRun(r) PROVE Good
  <2>1. run[r].next \in {"waiting", "done", "error"}
    BY <1>0 DEF RunState
  <2>2. run' \in [Runs -> RunState] /\ RunNamed'
    BY <1>0, <1>8, ReleaseKeeps
  <2>. QED BY <1>0, <1>8, <2>1, <2>2 DEF ReleaseRun
<1>9. ASSUME NEW r \in Runs, EvictRun(r) PROVE Good
  BY <1>0, <1>1, <1>9, NoRunTyped DEF EvictRun
<1>10. ASSUME NEW r \in Runs, NEW i \in Items, Reap(r, i) PROVE Good
  <2>1. \A outcome \in {"waiting", "error"} :
          LET v == [at |-> "releasing", job |-> i, gen |-> generation, next |-> outcome]
          IN  v \in RunState /\ v.at = "releasing" /\ v.job \in Jobs
    BY <1>0 DEF RunState, Jobs
  <2>2. retries' \in [Items -> 0..MaxRetries]
    BY <1>0, <1>10, ContainersAssumption DEF Reap
  <2>. QED BY <1>0, <1>1, <1>10, <2>1, <2>2 DEF Reap
<1>11. ASSUME NEW j \in Jobs, Recover(j) PROVE Good
  BY <1>0, <1>11 DEF Recover, RunNamed
<1>12. ASSUME NEW i \in Items, ForgetItem(i) PROVE Good
  BY <1>0, <1>12 DEF ForgetItem, RunNamed
<1>13. ASSUME run' = run \/ (\E insts : run' = CutOff(run, insts)), work' = work, retries' = retries
       PROVE  Good
  <2>1. ASSUME NEW insts, run' = CutOff(run, insts) PROVE run' \in [Runs -> RunState] /\ RunNamed'
    BY <1>0, <2>1, CutOffKeeps DEF RunNamed
  <2>. QED BY <1>0, <1>13, <2>1 DEF RunNamed
<1>14. ASSUME NEW inst \in pool, AlarmFires(inst) \/ ReleaseKey(inst) PROVE Good
  BY <1>13, <1>14 DEF AlarmFires, ReleaseKey
<1>15. ASSUME NEW k \in Tools, CallTool(k) PROVE Good
  BY <1>13, <1>15 DEF CallTool
<1>16. ASSUME NEW bump \in {0, 1}, Deploy(bump) PROVE Good
  BY <1>13, <1>16 DEF Deploy
<1>17. CASE UNCHANGED containerVars
  BY <1>13, <1>17 DEF containerVars
<1>. QED BY <1>3, <1>4, <1>5, <1>6, <1>7, <1>8, <1>9, <1>10, <1>11, <1>12, <1>14, <1>15, <1>16, <1>17
         DEF ContainersNext

\* The pool, its alarms and what is excused.
LEMMA PoolStepTyped ==
  ASSUME PoolTyped, [ContainersNext]_containerVars
  PROVE  PoolTyped'
<1>. DEFINE Good == /\ pool' \subseteq Instances /\ alarm' \subseteq pool' /\ excused' \subseteq pool'
                    /\ generation' \in 0..MaxGen /\ upsets' \in 0..MaxUpsets
<1>0. /\ pool \subseteq Instances /\ alarm \subseteq pool /\ excused \subseteq pool
      /\ generation \in 0..MaxGen /\ upsets \in 0..MaxUpsets
      /\ \A r \in Runs : run[r].at # "idle" => InstanceOf(r) \in Instances
  BY DEF PoolTyped, ContainersTypeOK, RunNamed, InstanceOf, Instances
<1>1. ASSUME NEW r \in Runs, NEW outcome, Over(r, outcome), UNCHANGED <<generation, pool, alarm, upsets>>
      PROVE  Good
  BY <1>0, <1>1 DEF Over
<1>2. ASSUME UNCHANGED <<generation, pool, alarm, excused, upsets>> PROVE Good
  BY <1>0, <1>2
<1>3. ASSUME NEW r \in Runs, OpenRun(r) PROVE Good
  BY <1>0, <1>3 DEF OpenRun, Fetched
<1>4. ASSUME NEW r \in Runs, FinishRun(r) \/ FailRun(r) PROVE Good
  BY <1>1, <1>4 DEF FinishRun, FailRun
<1>5. ASSUME NEW r \in Runs, DeferRun(r) PROVE Good
  BY <1>1, <1>2, <1>5 DEF DeferRun
<1>6. ASSUME NEW inst, Destroyed(inst), UNCHANGED <<generation, upsets>> PROVE Good
  BY <1>0, <1>6 DEF Destroyed
<1>7. ASSUME NEW r \in Runs, ReleaseRun(r) PROVE Good
  <2>1. CASE Destroyed(InstanceOf(r)) /\ UNCHANGED upsets
    BY <1>6, <1>7, <2>1 DEF ReleaseRun
  <2>2. CASE ~(Destroyed(InstanceOf(r)) /\ UNCHANGED upsets)
    BY <1>0, <1>7, <2>2, ContainersAssumption DEF ReleaseRun, Released
  <2>. QED BY <2>1, <2>2
<1>8. ASSUME NEW r \in Runs, EvictRun(r) PROVE Good
  BY <1>0, <1>8, ContainersAssumption DEF EvictRun
<1>9. ASSUME NEW inst \in pool, AlarmFires(inst) \/ ReleaseKey(inst) PROVE Good
  BY <1>6, <1>9 DEF AlarmFires, ReleaseKey
<1>10. ASSUME NEW k \in Tools, CallTool(k) PROVE Good
  BY <1>0, <1>10 DEF CallTool, Fetched, Instances
<1>11. ASSUME NEW bump \in {0, 1}, Deploy(bump) PROVE Good
  BY <1>0, <1>11, ContainersAssumption DEF Deploy
<1>12. ASSUME NEW i \in Items, ForgetItem(i) PROVE Good
  BY <1>0, <1>12, ContainersAssumption DEF ForgetItem
<1>13. ASSUME NEW r \in Runs, \/ \E j \in Jobs : StartRun(r, j)
                              \/ \E i \in Items : Reap(r, i)
       PROVE  Good
  BY <1>2, <1>13 DEF StartRun, Reap
<1>14. ASSUME NEW j \in Jobs, Recover(j) PROVE Good
  BY <1>2, <1>14 DEF Recover
<1>15. UNCHANGED containerVars => Good
  BY <1>2 DEF containerVars
<1>16. Good
  BY <1>3, <1>4, <1>5, <1>7, <1>8, <1>9, <1>10, <1>11, <1>12, <1>13, <1>14, <1>15
     DEF ContainersNext
<1>. QED BY <1>16, RunStepTyped DEF PoolTyped, ContainersTypeOK, RunState

LEMMA InitPoolTyped == ContainersInit => PoolTyped
BY NoRunTyped, ContainersAssumption
   DEF ContainersInit, PoolTyped, ContainersTypeOK, RunNamed, RunState, Jobs

\* Every reachable state of the pool is well typed.
THEOREM ContainersTypeCorrect == ContainersSpec => []ContainersTypeOK
<1>1. PoolTyped => ContainersTypeOK
  BY DEF PoolTyped
<1>2. PoolTyped /\ [ContainersNext]_containerVars => PoolTyped'
  BY PoolStepTyped
<1>. QED BY <1>1, <1>2, InitPoolTyped, PTL DEF ContainersSpec

LEMMA NextSideAlone ==
  ASSUME PoolTyped, SideAlone, [ContainersNext]_containerVars
  PROVE  SideAlone'
<1>0. /\ run \in [Runs -> RunState] /\ RunNamed
      /\ work \in [Jobs -> {"waiting", "leased", "done", "error", "gone"}]
      /\ Items \cap Side = {} /\ NoJob \notin Side /\ Side \subseteq Jobs
  BY ContainersAssumption DEF PoolTyped, ContainersTypeOK, RunState, Jobs
\* A side job keeps the run it has, if it has one, and its row.
<1>1. ASSUME \A q \in Runs : run'[q].job \in Side =>
               run'[q].job = run[q].job /\ work'[run[q].job] = work[run[q].job]
      PROVE  SideAlone'
  BY <1>1 DEF SideAlone
<1>2. ASSUME NEW r \in Runs, NEW j \in Jobs, StartRun(r, j) PROVE SideAlone'
  <2>1. /\ run'[r].job = j /\ work'[j] = "leased"
        /\ \A q \in Runs \ {r} : run'[q] = run[q]
        /\ \A k \in Jobs \ {j} : work'[k] = work[k]
    BY <1>0, <1>2 DEF StartRun, NoRun
  <2>2. CASE j \in Side
    <3>1. \A q \in Runs : run[q].job # j
      BY <1>2, <2>2 DEF StartRun, SideAlone
    <3>. QED BY <1>0, <2>1, <2>2, <3>1 DEF SideAlone
  <2>3. CASE j \notin Side
    BY <1>0, <1>1, <2>1, <2>3 DEF SideAlone
  <2>. QED BY <2>2, <2>3
<1>3. ASSUME NEW r \in Runs, NEW outcome, Over(r, outcome) PROVE SideAlone'
  <2>1. \A q \in Runs : run'[q].job = run[q].job
    BY <1>0, <1>3 DEF Over, RunState
  <2>2. \A j \in Side : work'[j] = work[j]
    BY <1>0, <1>3 DEF Over
  <2>. QED BY <1>1, <2>1, <2>2
<1>4. ASSUME NEW r \in Runs, OpenRun(r) PROVE SideAlone'
  <2>1. \A q \in Runs : run'[q].job = run[q].job
    BY <1>0, <1>4 DEF OpenRun, RunState
  <2>. QED BY <1>1, <1>4, <2>1 DEF OpenRun
<1>5. ASSUME NEW r \in Runs, FinishRun(r) \/ FailRun(r) PROVE SideAlone'
  BY <1>3, <1>5 DEF FinishRun, FailRun
<1>6. ASSUME NEW r \in Runs, DeferRun(r) PROVE SideAlone'
  <2>1. CASE run[r].job \in Items
    <3>1. /\ run'[r].job \notin Side /\ \A q \in Runs \ {r} : run'[q] = run[q]
          /\ \A j \in Side : work'[j] = work[j]
      BY <1>0, <1>6, <2>1, NoRunTyped DEF DeferRun
    <3>. QED BY <1>1, <3>1
  <2>2. CASE run[r].job \notin Items
    BY <1>3, <1>6, <2>2 DEF DeferRun
  <2>. QED BY <2>1, <2>2
<1>7. ASSUME NEW r \in Runs, ReleaseRun(r) PROVE SideAlone'
  <2>1. run'[r].job \notin Side /\ \A q \in Runs \ {r} : run'[q].job = run[q].job
    BY <1>0, <1>7, ReleaseKeeps, NoRunTyped
  <2>2. \A j \in Side \ {run[r].job} : work'[j] = work[j]
    BY <1>0, <1>7 DEF ReleaseRun
  <2>. QED BY <1>1, <2>1, <2>2 DEF SideAlone
<1>8. ASSUME NEW r \in Runs, EvictRun(r) PROVE SideAlone'
  <2>1. run'[r].job \notin Side /\ \A q \in Runs \ {r} : run'[q] = run[q]
    BY <1>0, <1>8, NoRunTyped DEF EvictRun
  <2>. QED BY <1>1, <1>8, <2>1 DEF EvictRun
<1>9. ASSUME NEW r \in Runs, NEW i \in Items, Reap(r, i) PROVE SideAlone'
  <2>1. /\ run'[r].job \notin Side /\ \A q \in Runs \ {r} : run'[q] = run[q]
        /\ \A j \in Side : work'[j] = work[j]
    BY <1>0, <1>9 DEF Reap
  <2>. QED BY <1>1, <2>1
<1>10. ASSUME NEW j \in Jobs, Recover(j) PROVE SideAlone'
  BY <1>0, <1>1, <1>10 DEF Recover, Unattended
<1>11. ASSUME NEW i \in Items, ForgetItem(i) PROVE SideAlone'
  BY <1>0, <1>1, <1>11 DEF ForgetItem
<1>12. ASSUME run' = run \/ (\E insts : run' = CutOff(run, insts)), work' = work
       PROVE  SideAlone'
  <2>1. ASSUME NEW insts, run' = CutOff(run, insts) PROVE \A q \in Runs : run'[q].job = run[q].job
    BY <1>0, <2>1, CutOffKeeps
  <2>. QED BY <1>1, <1>12, <2>1
<1>13. ASSUME NEW inst \in pool, AlarmFires(inst) \/ ReleaseKey(inst) PROVE SideAlone'
  BY <1>12, <1>13 DEF AlarmFires, ReleaseKey
<1>14. ASSUME NEW k \in Tools, CallTool(k) PROVE SideAlone'
  BY <1>12, <1>14 DEF CallTool
<1>15. ASSUME NEW bump \in {0, 1}, Deploy(bump) PROVE SideAlone'
  BY <1>12, <1>15 DEF Deploy
<1>16. CASE UNCHANGED containerVars
  BY <1>12, <1>16 DEF containerVars
<1>. QED BY <1>2, <1>4, <1>5, <1>6, <1>7, <1>8, <1>9, <1>10, <1>11, <1>13, <1>14, <1>15, <1>16
         DEF ContainersNext

LEMMA NextOutdatedExcused ==
  ASSUME PoolInv, [ContainersNext]_containerVars
  PROVE  OutdatedExcused'
<1>0. /\ run \in [Runs -> RunState] /\ RunNamed /\ SideAlone /\ OutdatedExcused
      /\ Items \cap Side = {} /\ NoJob \notin Side /\ Side \subseteq Jobs /\ Tools \cap Side = {}
  BY ContainersAssumption DEF PoolInv, PoolTyped, ContainersTypeOK, RunState, Jobs
<1> SUFFICES ASSUME NEW q \in Runs, run'[q].at = "releasing", run'[q].job \in Side,
                    run'[q].gen # generation', NEW inst \in pool', inst[1] = run'[q].job
             PROVE  inst \in excused'
  BY DEF OutdatedExcused
\* The run was releasing already, and the instance there.
<1>1. ASSUME run[q].at = "releasing", run[q].job = run'[q].job, run[q].gen = run'[q].gen,
             inst \in pool, generation' = generation
      PROVE  inst \in excused
  BY <1>0, <1>1 DEF OutdatedExcused
<1>2. ASSUME NEW r \in Runs, NEW outcome, Over(r, outcome), UNCHANGED <<generation, pool>>
      PROVE  inst \in excused'
  <2>1. CASE r = q
    BY <1>0, <1>2, <2>1 DEF Over, RunState
  <2>2. CASE r # q
    BY <1>0, <1>1, <1>2, <2>2 DEF Over
  <2>. QED BY <2>1, <2>2
<1>3. ASSUME NEW r \in Runs, OpenRun(r) PROVE inst \in excused'
  <2>1. q # r /\ run'[q] = run[q]
    BY <1>0, <1>3 DEF OpenRun, RunState
  <2>2. run[r].job # run[q].job
    BY <1>0, <2>1 DEF SideAlone
  <2>3. inst # InstanceOf(r)
    BY <2>1, <2>2 DEF InstanceOf
  <2>4. inst \in pool /\ generation' = generation
    BY <1>3, <2>3 DEF OpenRun, Fetched
  <2>. QED BY <1>1, <1>3, <2>1, <2>3, <2>4 DEF OpenRun
<1>4. ASSUME NEW r \in Runs, FinishRun(r) \/ FailRun(r) PROVE inst \in excused'
  BY <1>2, <1>4 DEF FinishRun, FailRun
<1>5. ASSUME NEW r \in Runs, DeferRun(r) PROVE inst \in excused'
  <2>1. CASE run[r].job \in Items
    <3>1. run'[q] = run[q]
      BY <1>0, <1>5, <2>1, NoRunTyped DEF DeferRun
    <3>. QED BY <1>1, <1>5, <2>1, <3>1 DEF DeferRun
  <2>2. CASE run[r].job \notin Items
    BY <1>2, <1>5, <2>2 DEF DeferRun
  <2>. QED BY <2>1, <2>2
<1>6. ASSUME NEW r \in Runs, ReleaseRun(r) PROVE inst \in excused'
  <2>1. q # r
    BY <1>0, <1>6, ReleaseKeeps, NoRunTyped
  <2>2. run[q].at = "releasing" /\ run[q].job = run'[q].job /\ run[q].gen = run'[q].gen
    BY <1>0, <1>6, <2>1, ReleaseKeeps
  <2>. QED BY <1>1, <1>6, <2>2 DEF ReleaseRun, Released, Destroyed
<1>7. ASSUME NEW r \in Runs, EvictRun(r) PROVE inst \in excused'
  <2>1. run'[q] = run[q]
    BY <1>0, <1>7, NoRunTyped DEF EvictRun
  <2>. QED BY <1>1, <1>7, <2>1 DEF EvictRun
<1>8. ASSUME NEW r \in Runs, NEW i \in Items, Reap(r, i) PROVE inst \in excused'
  <2>1. run'[q] = run[q]
    BY <1>0, <1>8 DEF Reap
  <2>. QED BY <1>1, <1>8, <2>1 DEF Reap
<1>9. ASSUME NEW r \in Runs, NEW j \in Jobs, StartRun(r, j) PROVE inst \in excused'
  <2>1. run'[q] = run[q]
    BY <1>0, <1>9 DEF StartRun, NoRun
  <2>. QED BY <1>1, <1>9, <2>1 DEF StartRun
<1>10. ASSUME \/ \E j \in Jobs : Recover(j)
              \/ \E i \in Items : ForgetItem(i)
              \/ UNCHANGED containerVars
       PROVE  inst \in excused'
  BY <1>1, <1>10 DEF Recover, ForgetItem, containerVars
<1>11. ASSUME NEW insts, run' = CutOff(run, insts)
       PROVE  run[q].at = "releasing" /\ run[q].job = run'[q].job /\ run[q].gen = run'[q].gen
  BY <1>0, <1>11, CutOffKeeps
<1>12. ASSUME NEW x \in pool, AlarmFires(x) \/ ReleaseKey(x) PROVE inst \in excused'
  <2>1. CASE AlarmFires(x)
    BY <1>1, <2>1 DEF AlarmFires, Destroyed
  <2>2. CASE ReleaseKey(x)
    BY <1>1, <1>11, <2>2 DEF ReleaseKey, Destroyed
  <2>. QED BY <1>12, <2>1, <2>2
<1>13. ASSUME NEW k \in Tools, CallTool(k) PROVE inst \in excused'
  <2>1. inst # <<k, generation>>
    BY <1>0, <1>13 DEF CallTool
  <2>. QED BY <1>1, <1>13, <2>1 DEF CallTool, Fetched
<1>14. ASSUME NEW bump \in {0, 1}, Deploy(bump) PROVE inst \in excused'
  <2>1. CASE bump = 0
    <3>1. generation' = generation
      BY <1>14, <2>1 DEF Deploy, PoolInv, PoolTyped, ContainersTypeOK
    <3>. QED BY <1>1, <1>11, <1>14, <2>1, <3>1 DEF Deploy
  <2>2. CASE bump = 1
    BY <1>14, <2>2 DEF Deploy
  <2>. QED BY <2>1, <2>2
<1>. QED BY <1>3, <1>4, <1>5, <1>6, <1>7, <1>8, <1>9, <1>10, <1>12, <1>13, <1>14
         DEF ContainersNext

LEMMA NextAttended ==
  ASSUME PoolInv, [ContainersNext]_containerVars
  PROVE  Attended'
<1>0. /\ run \in [Runs -> RunState] /\ RunNamed /\ Attended /\ OutdatedExcused
      /\ work \in [Jobs -> {"waiting", "leased", "done", "error", "gone"}]
      /\ pool \subseteq Instances /\ generation \in 0..MaxGen
      /\ Items \cap Side = {} /\ Tools \cap Jobs = {} /\ Jobs = Items \cup Side
      /\ \A inst \in Instances : inst = <<inst[1], inst[2]>>
  BY ContainersAssumption DEF PoolInv, PoolTyped, ContainersTypeOK, RunState, Jobs, Instances
<1> SUFFICES ASSUME NEW inst \in pool' \ excused'
             PROVE  /\ inst[2] = generation'
                    /\ inst[1] \in Jobs =>
                         /\ work'[inst[1]] # "gone"
                         /\ Busy(inst)' \/ work'[inst[1]] \in {"waiting", "leased"}
  BY DEF Attended
<1>. DEFINE j == inst[1]
            Good == /\ inst[2] = generation'
                    /\ inst[1] \in Jobs =>
                         /\ work'[inst[1]] # "gone"
                         /\ Busy(inst)' \/ work'[inst[1]] \in {"waiting", "leased"}
\* A run that goes on has the instance it had.
<1>1. ASSUME NEW q \in Runs, run[q].at # "idle", InstanceOf(q) = inst,
             run'[q].at # "idle", run'[q].job = run[q].job, run'[q].gen = run[q].gen
      PROVE  Busy(inst)'
  BY <1>1 DEF Busy, InstanceOf
\* The instance was there and not excused, and the step leaves its row and its runs.
<1>2. ASSUME inst \in pool \ excused, generation' = generation,
             j \in Jobs => work'[j] = work[j],
             \A q \in Runs : run[q].at # "idle" /\ InstanceOf(q) = inst =>
               run'[q].at # "idle" /\ run'[q].job = run[q].job /\ run'[q].gen = run[q].gen
      PROVE  Good
  BY <1>0, <1>1, <1>2 DEF Attended, Busy
<1>3. ASSUME NEW r \in Runs, NEW outcome \in {"waiting", "done", "error"}, Over(r, outcome),
             UNCHANGED <<generation, pool>>, run[r].at # "idle"
      PROVE  Good
  <2>1. inst \in pool \ excused
    BY <1>3 DEF Over
  <2>2. \A q \in Runs : run[q].at # "idle" =>
          run'[q].at # "idle" /\ run'[q].job = run[q].job /\ run'[q].gen = run[q].gen
    BY <1>0, <1>3 DEF Over, RunState
  <2>3. CASE j # run[r].job
    BY <1>0, <1>2, <1>3, <2>1, <2>2, <2>3 DEF Over
  <2>4. CASE j = run[r].job
    <3>1. run[r].gen = generation
      BY <1>3, <2>1, <2>4 DEF Over
    <3>2. inst[2] = generation /\ work[j] # "gone" /\ j \in Jobs
      BY <1>0, <1>3, <2>1, <2>4 DEF Attended, RunNamed
    <3>3. InstanceOf(r) = inst
      BY <1>0, <2>1, <2>4, <3>1, <3>2 DEF InstanceOf
    <3>4. Busy(inst)'
      BY <1>1, <1>3, <2>2, <3>3
    <3>5. work'[j] # "gone"
      BY <1>0, <1>3, <3>2 DEF Over
    <3>. QED BY <1>3, <3>2, <3>4, <3>5
  <2>. QED BY <2>3, <2>4
<1>4. ASSUME NEW r \in Runs, NEW k \in Jobs, StartRun(r, k) PROVE Good
  <2>1. \A q \in Runs : run[q].at # "idle" => run'[q] = run[q]
    BY <1>0, <1>4 DEF StartRun
  <2>2. inst \in pool \ excused /\ generation' = generation
    BY <1>4 DEF StartRun
  <2>3. CASE j = k
    <3>1. work'[j] = "leased"
      BY <1>0, <1>4, <2>3 DEF StartRun
    <3>. QED BY <1>0, <2>2, <3>1 DEF Attended
  <2>4. CASE j # k
    BY <1>0, <1>2, <1>4, <2>1, <2>2, <2>4 DEF StartRun
  <2>. QED BY <2>3, <2>4
<1>5. ASSUME NEW r \in Runs, OpenRun(r) PROVE Good
  <2>1. \A q \in Runs : run[q].at # "idle" =>
          run'[q].at # "idle" /\ run'[q].job = run[q].job /\ run'[q].gen = run[q].gen
    BY <1>0, <1>5 DEF OpenRun, RunState
  <2>2. CASE inst = InstanceOf(r)
    <3>1. run[r].gen = generation /\ work[run[r].job] # "gone"
      BY <1>5, <2>2 DEF OpenRun
    <3>2. Busy(inst)'
      BY <1>1, <1>5, <2>1, <2>2 DEF OpenRun
    <3>. QED BY <1>5, <2>2, <3>1, <3>2 DEF OpenRun, InstanceOf
  <2>3. CASE inst # InstanceOf(r)
    <3>1. inst \in pool \ excused
      BY <1>5, <2>3 DEF OpenRun, Fetched
    <3>. QED BY <1>2, <1>5, <2>1, <3>1 DEF OpenRun
  <2>. QED BY <2>2, <2>3
<1>6. ASSUME NEW r \in Runs, FinishRun(r) PROVE Good
  BY <1>3, <1>6 DEF FinishRun
<1>7. ASSUME NEW r \in Runs, FailRun(r) PROVE Good
  <2>1. run[r].at # "idle" /\ \E outcome \in {"waiting", "done", "error"} : Over(r, outcome)
    BY <1>7 DEF FailRun
  <2>. QED BY <1>3, <1>7, <2>1 DEF FailRun
<1>8. ASSUME NEW r \in Runs, DeferRun(r) PROVE Good
  <2>1. CASE run[r].job \in Items
    <3>1. inst \in pool \ excused /\ generation' = generation
      BY <1>8, <2>1 DEF DeferRun
    <3>2. CASE j = run[r].job
      <4>1. j \in Jobs /\ work[j] # "gone" /\ inst[2] = generation
        BY <1>0, <2>1, <3>1, <3>2 DEF Attended
      <4>2. work'[j] = "waiting"
        BY <1>0, <1>8, <2>1, <3>2, <4>1 DEF DeferRun
      <4>. QED BY <3>1, <4>1, <4>2
    <3>3. CASE j # run[r].job
      <4>1. \A q \in Runs : InstanceOf(q) = inst => run'[q] = run[q]
        BY <1>0, <1>8, <2>1, <3>3 DEF DeferRun, InstanceOf
      <4>2. j \in Jobs => work'[j] = work[j]
        BY <1>0, <1>8, <2>1, <3>3 DEF DeferRun
      <4>. QED BY <1>2, <3>1, <4>1, <4>2
    <3>. QED BY <3>2, <3>3
  <2>2. CASE run[r].job \notin Items
    <3>1. run[r].at # "idle" /\ Over(r, "waiting") /\ UNCHANGED <<generation, pool>>
      BY <1>8, <2>2 DEF DeferRun
    <3>. QED BY <1>3, <3>1
  <2>. QED BY <2>1, <2>2
<1>9. ASSUME NEW r \in Runs, ReleaseRun(r) PROVE Good
  <2>1. inst \in pool \ excused /\ inst # InstanceOf(r) /\ generation' = generation
    BY <1>9 DEF ReleaseRun, Released, Destroyed
  <2>2. \A q \in Runs : run[q].at # "idle" /\ InstanceOf(q) = inst =>
          run'[q].at # "idle" /\ run'[q].job = run[q].job /\ run'[q].gen = run[q].gen
    BY <1>0, <1>9, <2>1, ReleaseKeeps
  <2>3. CASE j \in Side /\ j = run[r].job
    <3>1. run[r].gen # generation
      <4>1. inst[2] = generation
        BY <1>0, <2>1 DEF Attended
      <4>. QED BY <1>0, <2>1, <2>3, <4>1 DEF InstanceOf
    <3>2. inst \in excused
      BY <1>0, <1>9, <2>1, <2>3, <3>1 DEF OutdatedExcused, ReleaseRun
    <3>. QED BY <2>1, <3>2
  <2>4. CASE ~(j \in Side /\ j = run[r].job)
    <3>1. j \in Jobs => work'[j] = work[j]
      BY <1>0, <1>9, <2>4 DEF ReleaseRun
    <3>. QED BY <1>2, <2>1, <2>2, <3>1
  <2>. QED BY <2>3, <2>4
<1>10. ASSUME NEW r \in Runs, EvictRun(r) PROVE Good
  <2>1. inst \in pool \ excused /\ inst # InstanceOf(r) /\ generation' = generation
    BY <1>10 DEF EvictRun
  <2>2. \A q \in Runs : InstanceOf(q) = inst => run'[q] = run[q]
    BY <1>0, <1>10, <2>1 DEF EvictRun
  <2>. QED BY <1>2, <1>10, <2>1, <2>2 DEF EvictRun
<1>11. ASSUME NEW r \in Runs, NEW i \in Items, Reap(r, i) PROVE Good
  <2>1. inst \in pool \ excused /\ generation' = generation
    BY <1>11 DEF Reap
  <2>2. CASE j = i
    <3>1. inst = <<i, generation>>
      BY <1>0, <2>1, <2>2 DEF Attended
    <3>2. run'[r].at # "idle" /\ run'[r].job = i /\ run'[r].gen = generation
      BY <1>0, <1>11 DEF Reap
    <3>3. Busy(inst)'
      BY <3>1, <3>2 DEF Busy, InstanceOf
    <3>4. work'[j] # "gone"
      BY <1>0, <1>11, <2>2 DEF Reap
    <3>. QED BY <2>1, <3>1, <3>3, <3>4
  <2>3. CASE j # i
    <3>1. \A q \in Runs : run[q].at # "idle" => run'[q] = run[q]
      BY <1>0, <1>11 DEF Reap
    <3>. QED BY <1>0, <1>2, <1>11, <2>1, <2>3, <3>1 DEF Reap
  <2>. QED BY <2>2, <2>3
<1>12. ASSUME NEW k \in Jobs, Recover(k) PROVE Good
  <2>1. inst \in pool \ excused /\ generation' = generation /\ run' = run
    BY <1>12 DEF Recover
  <2>2. CASE j = k
    <3>1. work'[j] = "waiting"
      BY <1>0, <1>12, <2>2 DEF Recover
    <3>. QED BY <1>0, <2>1, <3>1 DEF Attended
  <2>3. CASE j # k
    BY <1>0, <1>2, <1>12, <2>1, <2>3 DEF Recover
  <2>. QED BY <2>2, <2>3
<1>13. ASSUME NEW i \in Items, ForgetItem(i) PROVE Good
  <2>1. j # i /\ inst \in pool \ excused
    BY <1>13 DEF ForgetItem
  <2>. QED BY <1>0, <1>2, <1>13, <2>1 DEF ForgetItem
<1>14. ASSUME inst \in pool \ excused, generation' = generation, work' = work,
              run' = run \/ (\E insts : run' = CutOff(run, insts))
       PROVE  Good
  <2>1. ASSUME NEW insts, run' = CutOff(run, insts)
        PROVE  \A q \in Runs : run[q].at # "idle" =>
                 run'[q].at # "idle" /\ run'[q].job = run[q].job /\ run'[q].gen = run[q].gen
    BY <1>0, <2>1, CutOffKeeps
  <2>. QED BY <1>2, <1>14, <2>1
<1>15. ASSUME NEW x \in pool, AlarmFires(x) \/ ReleaseKey(x) PROVE Good
  BY <1>14, <1>15 DEF AlarmFires, ReleaseKey, Destroyed
<1>16. ASSUME NEW k \in Tools, CallTool(k) PROVE Good
  <2>1. CASE inst = <<k, generation>>
    BY <1>0, <1>16, <2>1 DEF CallTool
  <2>2. CASE inst # <<k, generation>>
    BY <1>14, <1>16, <2>2 DEF CallTool, Fetched
  <2>. QED BY <2>1, <2>2
<1>17. ASSUME NEW bump \in {0, 1}, Deploy(bump) PROVE Good
  <2>1. bump = 0 /\ generation' = generation
    BY <1>0, <1>17 DEF Deploy
  <2>. QED BY <1>14, <1>17, <2>1 DEF Deploy
<1>18. UNCHANGED containerVars => Good
  BY <1>14 DEF containerVars
<1>. QED BY <1>4, <1>5, <1>6, <1>7, <1>8, <1>9, <1>10, <1>11, <1>12, <1>13, <1>15, <1>16, <1>17, <1>18
         DEF ContainersNext

\* An instance that no alarm will stop has a run that will release it, or a job that
\* the next run takes it for, unless an eviction, a new CONTAINER_GEN, a removal or a
\* destroy() that failed left it behind.
THEOREM StraysAlwaysExcused == ContainersSpec => []StraysExcused
<1>1. ContainersInit => PoolInv
  BY InitPoolTyped, NoRunTyped, ContainersAssumption
     DEF ContainersInit, PoolInv, Attended, SideAlone, OutdatedExcused
<1>2. PoolInv /\ [ContainersNext]_containerVars => PoolInv'
  BY PoolStepTyped, NextAttended, NextSideAlone, NextOutdatedExcused DEF PoolInv
<1>3. PoolInv => StraysExcused
  BY DEF PoolInv, Attended, Busy, StraysExcused
<1>. QED BY <1>1, <1>2, <1>3, PTL DEF ContainersSpec
-----------------------------------------------------------------------------
(* Edits and pages *)

\* An edit of a page's own that changes what a view of it shows, unpolled, marks the
\* view's entry, puts its answer there, or leaves the page.
Follows(v, e) ==
  \A i \in DOMAIN e.calls :
    v.polls # "always" /\ e.own /\ e.goes = "here" /\ v.facts \cap e.calls[i] # {}
      => e.puts = v.key \/ \E mark \in e.marks : IsPrefix(mark, v.key)
\* An edit is a sequence of calls.
Calls(e) == Len(e.calls) \in Nat /\ DOMAIN e.calls = 1 .. Len(e.calls)
KeepsItsLists(page) == \A v \in page.views : \A e \in page.edits : Follows(v, e)

\* What is known of the watched entry at any time, and of the edit.
Kinds == {"none", "whole", "next"}
EntryShaped ==
  /\ data \in {"none", "old", "new"} /\ stale \in BOOLEAN /\ cut \in BOOLEAN /\ stayed \in BOOLEAN
  /\ fetch \in [kind: Kinds, got: {"unread", "old", "new"}]
  /\ fetch.kind = "none" <=> fetch = NoFetch
  /\ fetch.kind = "next" => data # "none" /\ fetch.got = "unread"
  /\ Mounted /\ fetch = NoFetch => data # "none" \/ stale
EditKnown ==
  /\ edit.ofPage /\ edit.goes = "here" => edit.marks \/ edit.puts
  /\ edit.calls \in Nat /\ edit.change \in Nat /\ edit.change <= edit.calls
  /\ {edit.marks, edit.quiet, edit.puts, edit.patches, edit.ofPage} \subseteq BOOLEAN
  /\ served \in Nat

\* Once an edit that the entry is to follow has settled, no older answer is kept as fresh,
\* nor on its way.
Followed ==
  phase = "settled" =>
    /\ served = edit.calls
    /\ Promised /\ ~cut =>
         /\ data # "old" \/ stale
         /\ fetch.got # "old"
         /\ fetch.kind = "next" => data = "new"
PageInv == EntryShaped /\ EditKnown /\ Followed

LEMMA FollowedShown == PageInv => EditsShown
BY DEF PageInv, EntryShaped, Followed, EditsShown

\* A page shows the entry if it has a view of it, or the frame around it has.
OnLayout == \E v \in Layout.views : v.key = key
LEMMA MountedOn ==
  /\ OnLayout => Mounted
  /\ Mounted => Opens(at) \/ OnLayout
BY DEF OnLayout, Mounted, Observers, ViewsOn, Around, Opens

\* So a page that comes into view with no request leaves none that is wanted.
LEMMA OpenedShaped ==
  ASSUME NEW p, NEW due \in BOOLEAN, NEW f \in [kind: Kinds, got: {"unread", "old", "new"}],
         f.kind = "none" <=> f = NoFetch,
         NEW g \in Opened(p, due, f)
  PROVE  /\ g \in {f, Whole}
         /\ Opens(p) /\ g = NoFetch => data # "none"
BY DEF Opened, NoFetch, Whole

LEMMA Requests ==
  /\ {NoFetch, Whole, NextPage} \subseteq [kind: Kinds, got: {"unread", "old", "new"}]
  /\ NoFetch.kind = "none" /\ Whole.kind = "whole" /\ NextPage.kind = "next"
  /\ Whole.got = "unread" /\ NextPage.got = "unread" /\ NoFetch.got = "unread"
  /\ Whole # NoFetch /\ NextPage # NoFetch
BY DEF NoFetch, Whole, NextPage, Kinds

LEMMA VisitFollowed == ASSUME PageInv, Visit PROVE PageInv'
<1>1. PICK p \in PageNames : at' = p /\ fetch' \in Opened(p, stale, fetch)
  BY DEF Visit
<1>2. /\ fetch' \in {fetch, Whole}
      /\ Opens(p) /\ fetch' = NoFetch => data # "none"
  BY <1>1, OpenedShaped DEF PageInv, EntryShaped
<1>3. UNCHANGED <<key, edit, phase, served, data, stale, cut>> /\ stayed' \in BOOLEAN
      /\ (stayed' => stayed)
  BY DEF Visit, PageInv, EntryShaped
<1>4. Mounted' => Opens(p) \/ Mounted
  BY <1>1, <1>3, MountedOn DEF Mounted, Observers, ViewsOn, Around, Opens
<1>5. EntryShaped'
  BY <1>2, <1>3, <1>4, Requests DEF PageInv, EntryShaped
<1>6. EditKnown' /\ Followed'
  BY <1>2, <1>3, Requests DEF PageInv, EditKnown, Followed, Promised
<1>. QED BY <1>5, <1>6 DEF PageInv

LEMMA RequestFollowed ==
  ASSUME PageInv, Refetch \/ Scroll \/ ReadTruth \/ Arrive \/ Fail \/ Retype \/ Forget
  PROVE  PageInv'
<1>0. UNCHANGED <<key, edit, phase, served, stayed, at>> /\ Mounted' = Mounted /\ Promised' = Promised
  <2>1. UNCHANGED <<key, edit, phase, served, stayed, at>>
    BY DEF Refetch, Scroll, ReadTruth, Arrive, Fail, Retype, Forget
  <2>. QED BY <2>1 DEF Mounted, Observers, Promised
<1>1. EditKnown'
  BY <1>0 DEF PageInv, EditKnown
<1>2. CASE Refetch
  BY <1>0, <1>1, <1>2, Requests DEF Refetch, PageInv, EntryShaped, Followed
<1>3. CASE Scroll
  BY <1>0, <1>1, <1>3, Requests DEF Scroll, PageInv, EntryShaped, Followed
<1>4. CASE ReadTruth
  <2>1. fetch'.kind = "whole" /\ fetch'.got = Truth
        /\ fetch' \in [kind: Kinds, got: {"unread", "old", "new"}]
    BY <1>4 DEF ReadTruth, PageInv, EntryShaped, Truth
  <2>2. phase = "settled" => Truth = "new"
    BY DEF PageInv, Followed, EditKnown, Truth
  <2>. QED BY <1>0, <1>1, <1>4, <2>1, <2>2, Requests DEF ReadTruth, PageInv, EntryShaped, Followed
<1>5. CASE Arrive
  BY <1>0, <1>1, <1>5, Requests DEF Arrive, PageInv, EntryShaped, Followed
<1>6. CASE Fail
  BY <1>0, <1>1, <1>6, Requests DEF Fail, PageInv, EntryShaped, Followed
<1>7. CASE Forget
  BY <1>0, <1>1, <1>7, Requests DEF Forget, PageInv, EntryShaped, Followed
<1>8. CASE Retype
  BY <1>0, <1>1, <1>8, Requests DEF Retype, PageInv, EntryShaped, Followed
<1>. QED BY <1>2, <1>3, <1>4, <1>5, <1>6, <1>7, <1>8

LEMMA SucceedFollowed == ASSUME PageInv, Succeed PROVE PageInv'
<1>. DEFINE again == edit.marks /\ Mounted
            flight == IF again THEN Whole ELSE fetch
            due == edit.marks \/ edit.quiet \/ (stale /\ ~Answered)
            outlived == ~again /\ (fetch.kind = "next" \/ fetch.got = "old")
<1>0. /\ phase' = "settled" /\ served = edit.calls /\ UNCHANGED <<key, edit, served>>
      /\ data' = (IF Answered THEN "new" ELSE data) /\ stale' = due
      /\ cut' = (cut \/ ((edit.marks \/ edit.quiet \/ edit.puts) /\ outlived))
      /\ stayed' = (stayed /\ edit.goes = "here")
      /\ IF edit.goes = "here" THEN at' = at /\ fetch' = flight
         ELSE at' = edit.goes /\ fetch' \in Opened(edit.goes, due, flight)
  BY DEF Succeed
<1>1. due \in BOOLEAN /\ flight \in [kind: Kinds, got: {"unread", "old", "new"}]
      /\ (flight.kind = "none" <=> flight = NoFetch)
  BY Requests DEF PageInv, EntryShaped, EditKnown, Answered
<1>2. fetch' \in {flight, Whole}
  BY <1>0, <1>1, OpenedShaped
<1>. HIDE DEF flight
<1>3. EntryShaped'
  <2>1. data' \in {"none", "old", "new"} /\ cut' \in BOOLEAN /\ stayed' \in BOOLEAN /\ stale' \in BOOLEAN
    BY <1>0, <1>1 DEF PageInv, EntryShaped, EditKnown
  <2>2. /\ fetch' \in [kind: Kinds, got: {"unread", "old", "new"}]
        /\ fetch'.kind = "none" <=> fetch' = NoFetch
    BY <1>1, <1>2, Requests
  <2>3. fetch'.kind = "next" => data' # "none" /\ fetch'.got = "unread"
    BY <1>0, <1>2, Requests DEF flight, PageInv, EntryShaped
  <2>4. Mounted /\ fetch' = NoFetch => data' # "none" \/ stale'
    BY <1>0, <1>2, Requests DEF flight, PageInv, EntryShaped
  <2>5. Opens(edit.goes) /\ fetch' \in Opened(edit.goes, due, flight) /\ fetch' = NoFetch => data' # "none"
    BY <1>0, <1>1, OpenedShaped
  <2>6. Mounted' => Mounted \/ (Opens(edit.goes) /\ fetch' \in Opened(edit.goes, due, flight))
    BY <1>0, MountedOn DEF Mounted, Observers, ViewsOn, Around, Opens
  <2>. QED BY <2>1, <2>2, <2>3, <2>4, <2>5, <2>6 DEF EntryShaped
<1>4. EditKnown'
  BY <1>0 DEF PageInv, EditKnown
<1>5. ASSUME Promised', ~cut' PROVE data' # "old" \/ stale'
  BY <1>0, <1>5 DEF Promised, PageInv, EditKnown, EntryShaped, Answered
<1>6. ASSUME Promised', ~cut' PROVE fetch'.got # "old" /\ fetch'.kind # "next"
  <2>1. edit.marks \/ edit.quiet \/ edit.puts
    BY <1>0, <1>6 DEF Promised, PageInv, EditKnown
  <2>2. ~outlived
    BY <1>0, <1>6, <2>1
  <2>. QED BY <1>2, <2>2, Requests DEF flight
<1>. QED BY <1>0, <1>3, <1>4, <1>5, <1>6 DEF PageInv, Followed

LEMMA EditFollowed == ASSUME PageInv, Send \/ Serve \/ EditFails PROVE PageInv'
<1>1. UNCHANGED <<key, edit, stayed, at, data, stale, fetch, cut>> /\ Mounted' = Mounted
      /\ phase' # "settled" /\ served' \in Nat
  BY DEF Send, Serve, EditFails, Mounted, Observers, PageInv, EditKnown
<1>. QED BY <1>1 DEF PageInv, EntryShaped, EditKnown, Followed

LEMMA PageStep == PageInv /\ [PageNext]_pageVars => PageInv'
<1>. SUFFICES ASSUME PageInv, [PageNext]_pageVars PROVE PageInv'
  OBVIOUS
<1>1. CASE UNCHANGED pageVars
  BY <1>1 DEF pageVars, PageInv, EntryShaped, EditKnown, Followed, Promised, Mounted, Observers
<1>. QED BY <1>1, VisitFollowed, RequestFollowed, SucceedFollowed, EditFollowed DEF PageNext

\* An edit that a page can make bears on the entry in one of the ways above.
LEMMA BearingKnown ==
  ASSUME NEW q, KeepsItsLists(Around(q)), NEW e \in Around(q).edits, NEW k,
         Calls(e), NEW i \in DOMAIN e.calls, NEW fact \in e.calls[i]
  PROVE  LET b == Bearing(q, e, k, fact, i)
         IN /\ b.ofPage /\ b.goes = "here" => b.marks \/ b.puts
            /\ b.calls \in Nat /\ b.change \in Nat /\ b.change <= b.calls
            /\ {b.marks, b.quiet, b.puts, b.patches, b.ofPage} \subseteq BOOLEAN
<1>. DEFINE b == Bearing(q, e, k, fact, i)
<1>1. ASSUME b.ofPage, b.goes = "here" PROVE b.marks \/ b.puts
  <2>0. e.own
    BY <1>1 DEF Bearing
  <2>1. PICK v \in Around(q).views : v.key = k /\ fact \in v.facts /\ v.polls # "always"
    BY <1>1 DEF Bearing
  <2>2. v.facts \cap e.calls[i] # {} /\ e.goes = "here" /\ Follows(v, e)
    BY <1>1, <2>1 DEF Bearing, KeepsItsLists
  <2>3. e.puts = k \/ \E mark \in e.marks : IsPrefix(mark, k)
    BY <2>0, <2>1, <2>2 DEF Follows
  <2>. QED BY <2>3 DEF Bearing
<1>2. b.calls = Len(e.calls) /\ b.change = i /\ i \in 1 .. Len(e.calls) /\ Len(e.calls) \in Nat
  BY DEF Bearing, Calls
<1>. QED BY <1>1, <1>2 DEF Bearing

-----------------------------------------------------------------------------
(* Every page keeps its lists *)

LEMMA ViewFields ==
  ASSUME NEW k, NEW f
  PROVE  /\ View(k, f).key = k /\ View(k, f).facts = f
         /\ Awaiting(View(k, f)).key = k /\ Awaiting(View(k, f)).facts = f
         /\ Scrolled(View(k, f)).key = k /\ Scrolled(View(k, f)).facts = f
BY DEF View, Awaiting, Scrolled

LEMMA KeyPrefix ==
  ASSUME NEW x, NEW y
  PROVE  IsPrefix(<<x>>, <<x>>) /\ IsPrefix(<<x>>, <<x, y>>) /\ IsPrefix(<<x, y>>, <<x, y>>)
BY DEF IsPrefix

\* A view is followed if the page polls it; if an edit marks its entry; if it puts its
\* answer there; if it leaves the page; or if no call of it changes what the view shows.
LEMMA PolledFollows ==
  ASSUME NEW k, NEW f, NEW e
  PROVE  Follows(Polled(View(k, f)), e) /\ Follows(Polled(Scrolled(View(k, f))), e)
<1>1. Polled(View(k, f)).polls = "always" /\ Polled(Scrolled(View(k, f))).polls = "always"
  BY DEF View, Polled, Scrolled
<1>. QED BY <1>1 DEF Follows

LEMMA Marked ==
  ASSUME NEW v, NEW marks, NEW m \in marks, IsPrefix(m, v.key)
  PROVE  \A routes : /\ Follows(v, Edit(routes, marks))
                     /\ \A k : Follows(v, Puts(Edit(routes, marks), k))
                     /\ \A k : Follows(v, Patches(Edit(routes, marks), k))
BY DEF Follows, Edit, Puts, Patches

LEMMA PutThere ==
  ASSUME NEW v
  PROVE  \A routes, marks : /\ Follows(v, Puts(Edit(routes, marks), v.key))
                            /\ Follows(v, Patches(Edit(routes, marks), v.key))
BY DEF Follows, Edit, Puts, Patches

LEMMA Leaves ==
  ASSUME NEW v
  PROVE  \A routes, marks : Follows(v, Leaving(Edit(routes, marks), "Library"))
BY DEF Follows, Edit, Leaving

LEMMA PanelFree ==
  ASSUME NEW v
  PROVE  \A routes, marks : /\ Follows(v, OfPanel(Edit(routes, marks)))
                            /\ \A keys : Follows(v, OfPanel(Quietly(Edit(routes, marks), keys)))
<1>1. \A routes, marks, keys : ~OfPanel(Quietly(Edit(routes, marks), keys)).own
                             /\ ~OfPanel(Edit(routes, marks)).own
  BY DEF Edit, OfPanel, Quietly
<1>. QED BY <1>1 DEF Follows

LEMMA Apart ==
  ASSUME NEW v, NEW f, v.facts \cap f = {}
  PROVE  \A marks : /\ Follows(v, Edit(<<f>>, marks))
                    /\ \A k : Follows(v, Puts(Edit(<<f>>, marks), k))
                    /\ \A k : Follows(v, Patches(Edit(<<f>>, marks), k))
BY DEF Follows, Edit, Puts, Patches

LEMMA ApartTwice ==
  ASSUME NEW v, NEW f, NEW g, v.facts \cap f = {}, v.facts \cap g = {}
  PROVE  \A marks : Follows(v, Edit(<<f, g>>, marks))
BY DEF Follows, Edit

\* The same of the edits that several pages have.
LEMMA CardsMarked ==
  ASSUME NEW v, NEW kept, NEW m \in kept, IsPrefix(m, v.key)
  PROVE  \A e \in CardEdits(kept) : Follows(v, e)
<1>1. \A routes : Follows(v, Edit(routes, kept))
  BY Marked
<1>. QED BY <1>1 DEF CardEdits

LEMMA CardsApart ==
  ASSUME NEW v, v.facts \cap {"shelf", "folders"} = {}
  PROVE  \A kept : \A e \in CardEdits(kept) : Follows(v, e)
<1>1. \A marks : Follows(v, Edit(<<{"shelf"}>>, marks))
  BY Apart
<1>2. \A marks : Follows(v, Edit(<<{"folders"}, {"shelf"}>>, marks))
  BY ApartTwice
<1>. QED BY <1>1, <1>2 DEF CardEdits, ToggleFavorite, ToggleArchive, SetItemGroup, CreateGroup

LEMMA ControlsApart ==
  ASSUME NEW v, v.facts \cap {"follows", "demand"} = {}
  PROVE  (\A e \in FollowControls : Follows(v, e)) /\ Follows(v, ChannelRow)
<1>1. \A marks : Follows(v, Edit(<<{"follows", "demand"}>>, marks))
  BY Apart
<1>2. \A marks : Follows(v, Edit(<<{"follows"}>>, marks))
  BY Apart
<1>. QED BY <1>1, <1>2
  DEF FollowControls, ChannelRow, FollowChannel, UpdateFollow, DeleteFollow, PollChannel

LEMMA NotesMarked ==
  ASSUME NEW v, IsPrefix(<<"item">>, v.key)
  PROVE  \A e \in HighlightEdits \cup CommentsSection : Follows(v, e)
<1>1. \A routes : Follows(v, Edit(routes, {<<"item">>, <<"annotations">>}))
  BY Marked
<1>2. \A routes : Follows(v, Edit(routes, {<<"item">>}))
  BY Marked
<1>. QED BY <1>1, <1>2 DEF HighlightEdits, CommentsSection

LEMMA NotesApart ==
  ASSUME NEW v, v.facts \cap {"highlights", "comments"} = {}
  PROVE  \A e \in HighlightEdits \cup CommentsSection : Follows(v, e)
<1>1. \A marks : Follows(v, Edit(<<{"highlights"}>>, marks))
  BY Apart
<1>2. \A marks : Follows(v, Edit(<<{"comments"}>>, marks))
  BY Apart
<1>. QED BY <1>1, <1>2
     DEF HighlightEdits, CommentsSection, AddHighlight, UpdateHighlight, DeleteHighlight, AddComment,
         DeleteComment

\* Of the workspace's own buttons, most say nothing of a summary's editions.
LEMMA ButtonsApart ==
  ASSUME NEW v, v.facts \cap {"shelf", "interest", "demand", "status", "media"} = {}
  PROVE  /\ \A e \in {Edit(<<facts>>, {<<"item">>, <<"items">>}) :
                        facts \in {ToggleFavorite, ToggleArchive, PutInterest}} : Follows(v, e)
         /\ \A e \in {Edit(<<facts>>, {<<"item">>}) : facts \in {RegenerateItem, RetryItem}} :
              Follows(v, e)
         /\ Follows(v, MediaPanel)
<1>1. \A marks : Follows(v, Edit(<<{"shelf"}>>, marks))
  BY Apart
<1>2. \A marks : Follows(v, Edit(<<{"interest", "demand"}>>, marks))
  BY Apart
<1>3. \A marks : Follows(v, Edit(<<{"status"}>>, marks))
  BY Apart
<1>4. \A marks : Follows(v, Edit(<<{"media"}>>, marks))
  BY Apart
<1>. QED BY <1>1, <1>2, <1>3, <1>4
     DEF ToggleFavorite, ToggleArchive, PutInterest, RegenerateItem, RetryItem, DeleteMedia, MediaPanel

\* Pages without edits.
LEMMA ReadersKeep ==
  \A page \in {PublicHome, Bulletin, CollectionBulletins, Collections, ResearchBrief,
             Dossier, Annotations, Graph, Stats} : KeepsItsLists(page)
BY DEF KeepsItsLists, PublicHome, Bulletin, CollectionBulletins, Collections, ResearchBrief,
     Dossier, Annotations, Graph, Stats

LEMMA LayoutKeeps == KeepsItsLists(Layout)
BY PolledFollows DEF KeepsItsLists, Layout

LEMMA LibraryKeeps == KeepsItsLists(Library)
<1>. SUFFICES ASSUME NEW v \in Library.views, NEW e \in Library.edits PROVE Follows(v, e)
  BY DEF KeepsItsLists
<1>1. CASE v = View(<<"groups">>, ListGroups)
  <2>1. v.key = <<"groups">> /\ v.facts = ListGroups
    BY <1>1, ViewFields
  <2>2. IsPrefix(<<"groups">>, v.key)
    BY <2>1, KeyPrefix
  <2>3. \A c \in CardEdits({<<"items">>, <<"groups">>, <<"ungrouped-count">>}) : Follows(v, c)
    BY <2>2, CardsMarked
  <2>4. \A routes : Follows(v, Edit(routes, {<<"groups">>}))
    BY <2>2, Marked
  <2>. QED BY <2>3, <2>4 DEF Library, LooseGrid, FolderItems
<1>. QED BY <1>1, PolledFollows DEF Library, LooseGrid, FolderItems

LEMMA FolderViewKeeps == KeepsItsLists(FolderView)
<1>. SUFFICES ASSUME NEW v \in FolderView.views, NEW e \in FolderView.edits PROVE Follows(v, e)
  BY DEF KeepsItsLists
<1>1. CASE v = View(<<"groups">>, ListGroups)
  <2>1. v.key = <<"groups">> /\ v.facts = ListGroups
    BY <1>1, ViewFields
  <2>2. IsPrefix(<<"groups">>, v.key)
    BY <2>1, KeyPrefix
  <2>3. \A c \in CardEdits({<<"items">>, <<"groups">>}) : Follows(v, c)
    BY <2>2, CardsMarked
  <2>4. \A routes : Follows(v, Edit(routes, {<<"groups">>}))
    BY <2>2, Marked
  <2>5. Follows(v, Leaving(Edit(<<DeleteGroup>>, {<<"items">>, <<"groups">>}), "Library"))
    BY Leaves
  <2>. QED BY <2>3, <2>4, <2>5 DEF FolderView, AddToFolderDialog
<1>2. CASE v = View(<<"items", "picker">>, ListItems)
  <2>1. v.key = <<"items", "picker">> /\ v.facts = ListItems
    BY <1>2, ViewFields
  <2>2. IsPrefix(<<"items">>, v.key)
    BY <2>1, KeyPrefix
  <2>3. \A c \in CardEdits({<<"items">>, <<"groups">>}) : Follows(v, c)
    BY <2>2, CardsMarked
  <2>4. \A marks : Follows(v, Edit(<<RenameGroup>>, marks))
    BY <2>1, Apart DEF ListItems, RenameGroup
  <2>5. Follows(v, Leaving(Edit(<<DeleteGroup>>, {<<"items">>, <<"groups">>}), "Library"))
    BY Leaves
  <2>. QED BY <2>3, <2>4, <2>5 DEF FolderView, AddToFolderDialog
<1>. QED BY <1>1, <1>2, PolledFollows DEF FolderView, AddToFolderDialog

LEMMA TimelineKeeps == KeepsItsLists(Timeline)
<1>. SUFFICES ASSUME NEW v \in Timeline.views, NEW e \in Timeline.edits PROVE Follows(v, e)
  BY DEF KeepsItsLists
<1>1. CASE v = View(<<"groups">>, ListGroups)
  <2>1. v.key = <<"groups">> /\ v.facts = ListGroups
    BY <1>1, ViewFields
  <2>2. IsPrefix(<<"groups">>, v.key)
    BY <2>1, KeyPrefix
  <2>3. \A c \in CardEdits({<<"timeline">>, <<"items">>, <<"groups">>}) : Follows(v, c)
    BY <2>2, CardsMarked
  <2>4. \A routes : Follows(v, Edit(routes, {<<"timeline">>, <<"items">>, <<"groups">>} \cup {<<"queue">>, <<"browse">>}))
    BY <2>2, Marked
  <2>. QED BY <2>3, <2>4 DEF Timeline
<1>2. CASE v = View(<<"channels", "following", "strip">>, ListChannels)
  <2>1. v.key = <<"channels", "following", "strip">> /\ v.facts = ListChannels
    BY <1>2, ViewFields
  <2>2. \A kept : \A c \in CardEdits(kept) : Follows(v, c)
    BY <2>1, CardsApart DEF ListChannels
  <2>3. \A marks : Follows(v, Edit(<<AddItems>>, marks))
    BY <2>1, Apart DEF ListChannels, AddItems
  <2>. QED BY <2>2, <2>3 DEF Timeline
<1>. QED BY <1>1, <1>2, PolledFollows DEF Timeline

LEMMA BrowseKeeps == KeepsItsLists(Browse)
BY PolledFollows DEF KeepsItsLists, Browse

LEMMA ChannelDetailKeeps == KeepsItsLists(ChannelDetail)
<1>. SUFFICES ASSUME NEW v \in ChannelDetail.views, NEW e \in ChannelDetail.edits PROVE Follows(v, e)
  BY DEF KeepsItsLists
<1>1. CASE v = View(<<"groups">>, ListGroups)
  <2>1. v.key = <<"groups">> /\ v.facts = ListGroups
    BY <1>1, ViewFields
  <2>2. IsPrefix(<<"groups">>, v.key)
    BY <2>1, KeyPrefix
  <2>3. (\A c \in FollowControls : Follows(v, c)) /\ Follows(v, ChannelRow)
    BY <2>1, ControlsApart DEF ListGroups
  <2>4. \A c \in CardEdits({<<"channel", "items">>, <<"items">>, <<"groups">>, <<"timeline">>}) : Follows(v, c)
    BY <2>2, CardsMarked
  <2>5. \A routes : Follows(v, Edit(routes, {<<"channel", "items">>, <<"items">>, <<"groups">>, <<"timeline">>} \cup OfChannel \cup {<<"browse">>, <<"item">>, <<"queue">>}))
    BY <2>2, Marked DEF OfChannel
  <2>6. \A marks : Follows(v, Edit(<<AddFollowNote>>, marks))
    BY <2>1, Apart DEF ListGroups, AddFollowNote
  <2>. QED BY <2>3, <2>4, <2>5, <2>6 DEF ChannelDetail, ChannelNotes
<1>2. CASE v = Scrolled(View(<<"channel", "items">>, ListChannelItems))
  <2>1. v.key = <<"channel", "items">> /\ v.facts = ListChannelItems
    BY <1>2, ViewFields
  <2>2. IsPrefix(<<"channel", "items">>, v.key)
    BY <2>1, KeyPrefix
  <2>3. \A routes : Follows(v, Edit(routes, OfChannel))
    BY <2>2, Marked DEF OfChannel
  <2>4. \A c \in FollowControls : Follows(v, c)
    BY <2>3 DEF FollowControls
  <2>5. \A c \in CardEdits({<<"channel", "items">>, <<"items">>, <<"groups">>, <<"timeline">>}) : Follows(v, c)
    BY <2>2, CardsMarked
  <2>6. \A routes : Follows(v, Edit(routes, {<<"channel", "items">>, <<"items">>, <<"groups">>, <<"timeline">>} \cup OfChannel \cup {<<"browse">>, <<"item">>, <<"queue">>}))
    BY <2>2, Marked DEF OfChannel
  <2>7. \A marks : Follows(v, Edit(<<AddFollowNote>>, marks))
    BY <2>1, Apart DEF ListChannelItems, AddFollowNote
  <2>. QED BY <2>4, <2>5, <2>6, <2>7 DEF ChannelDetail, ChannelNotes
<1>3. CASE v = View(<<"sub-annotations">>, ListFollowNotes)
  <2>1. v.key = <<"sub-annotations">> /\ v.facts = ListFollowNotes
    BY <1>3, ViewFields
  <2>2. IsPrefix(<<"sub-annotations">>, v.key)
    BY <2>1, KeyPrefix
  <2>3. (\A c \in FollowControls : Follows(v, c)) /\ Follows(v, ChannelRow)
    BY <2>1, ControlsApart DEF ListFollowNotes
  <2>4. \A kept : \A c \in CardEdits(kept) : Follows(v, c)
    BY <2>1, CardsApart DEF ListFollowNotes
  <2>5. \A marks : Follows(v, Edit(<<AddItems>>, marks))
    BY <2>1, Apart DEF ListFollowNotes, AddItems
  <2>6. \A routes : Follows(v, Edit(routes, {<<"sub-annotations">>, <<"channel">>}))
    BY <2>2, Marked
  <2>. QED BY <2>3, <2>4, <2>5, <2>6 DEF ChannelDetail, ChannelNotes
<1>. QED BY <1>1, <1>2, <1>3, PolledFollows DEF ChannelDetail, ChannelNotes

LEMMA FollowingKeeps == KeepsItsLists(Following)
<1>. SUFFICES ASSUME NEW v \in Following.views, NEW e \in Following.edits PROVE Follows(v, e)
  BY DEF KeepsItsLists
<1>1. CASE v = View(<<"groups">>, {"folders"})
  <2>1. v.key = <<"groups">> /\ v.facts = {"folders"}
    BY <1>1, ViewFields
  <2>2. (\A c \in FollowControls : Follows(v, c)) /\ Follows(v, ChannelRow)
    BY <2>1, ControlsApart
  <2>3. \A marks : Follows(v, Edit(<<RemoveSource>>, marks))
    BY <2>1, Apart DEF RemoveSource
  <2>. QED BY <2>2, <2>3 DEF Following, FollowedArticleRow
<1>. QED BY <1>1, PolledFollows DEF Following, FollowedArticleRow

\* What panels do says nothing of the page, and the search panel is marked by the rest.
LEMMA PanelsFree ==
  ASSUME NEW v
  PROVE  /\ \A e \in {OfPanel(c) : c \in FollowControls} : Follows(v, e)
         /\ \A e \in SourceDiscovery.edits : Follows(v, e)
<1>1. \A e \in FollowControls : \E routes, marks : e = Edit(routes, marks)
  BY DEF FollowControls
<1>2. \A e \in SourceDiscovery.edits : \E routes, marks, keys : e = OfPanel(Quietly(Edit(routes, marks), keys))
  BY DEF SourceDiscovery
<1>3. \A routes, marks : /\ Follows(v, OfPanel(Edit(routes, marks)))
                        /\ \A keys : Follows(v, OfPanel(Quietly(Edit(routes, marks), keys)))
  BY PanelFree
<1>. QED BY <1>1, <1>2, <1>3

LEMMA SearchKeyed ==
  ASSUME NEW v \in SourceDiscovery.views
  PROVE  IsPrefix(<<"source-search">>, v.key)
<1>1. v.key = <<"source-search", "known">> \/ v.key = <<"source-search", "external">>
  BY ViewFields DEF SourceDiscovery
<1>. QED BY <1>1, KeyPrefix

LEMMA DiscoverKeeps == KeepsItsLists(Discover)
<1>. SUFFICES ASSUME NEW v \in Discover.views, NEW e \in Discover.edits PROVE Follows(v, e)
  BY DEF KeepsItsLists
<1>1. CASE v = View(<<"groups">>, {"folders"})
  <2>1. v.key = <<"groups">> /\ v.facts = {"folders"}
    BY <1>1, ViewFields
  <2>2. \A marks : Follows(v, Edit(<<ResolveChannel>>, marks))
    BY <2>1, Apart DEF ResolveChannel
  <2>. QED BY <2>2, PanelsFree DEF Discover, AddChannelDialog
<1>2. CASE v \in SourceDiscovery.views
  <2>1. \A routes : Follows(v, Edit(routes, {<<"source-search">>}))
    BY <1>2, SearchKeyed, Marked
  <2>. QED BY <2>1, PanelsFree DEF Discover, AddChannelDialog
<1>. QED BY <1>1, <1>2 DEF Discover

LEMMA ArticleSourcesKeeps == KeepsItsLists(ArticleSources)
<1>. SUFFICES ASSUME NEW v \in ArticleSources.views, NEW e \in ArticleSources.edits PROVE Follows(v, e)
  BY DEF KeepsItsLists
<1>1. CASE v = View(<<"rss", "status">>, RssStatus)
  <2>1. v.key = <<"rss", "status">> /\ v.facts = RssStatus
    BY <1>1, ViewFields
  <2>2. IsPrefix(<<"rss">>, v.key)
    BY <2>1, KeyPrefix
  <2>3. \A routes : Follows(v, Edit(routes, {<<"rss">>, <<"bulletin", "feed">>}))
    BY <2>2, Marked
  <2>. QED BY <2>3 DEF ArticleSources
<1>. QED BY <1>1, PolledFollows DEF ArticleSources

LEMMA SubstackSourcesKeeps == KeepsItsLists(SubstackSources)
<1>. SUFFICES ASSUME NEW v \in SubstackSources.views, NEW e \in SubstackSources.edits PROVE Follows(v, e)
  BY DEF KeepsItsLists
<1>1. CASE v = View(<<"substack", "subscriptions">>, ListPublications)
  <2>1. v.key = <<"substack", "subscriptions">> /\ v.facts = ListPublications
    BY <1>1, ViewFields
  <2>2. IsPrefix(<<"substack">>, v.key)
    BY <2>1, KeyPrefix
  <2>3. \A routes : Follows(v, Edit(routes, {<<"substack">>, <<"rss">>, <<"source-search">>, <<"bulletin", "feed">>}))
    BY <2>2, Marked
  <2>. QED BY <2>3, PanelsFree DEF SubstackSources
<1>2. CASE v \in SourceDiscovery.views
  <2>1. \A routes : Follows(v, Edit(routes, {<<"substack">>, <<"rss">>, <<"source-search">>, <<"bulletin", "feed">>}))
    BY <1>2, SearchKeyed, Marked
  <2>. QED BY <2>1, PanelsFree DEF SubstackSources
<1>. QED BY <1>1, <1>2, PolledFollows DEF SubstackSources

LEMMA ItemWorkspaceKeeps == KeepsItsLists(ItemWorkspace)
<1>. SUFFICES ASSUME NEW v \in ItemWorkspace.views, NEW e \in ItemWorkspace.edits PROVE Follows(v, e)
  BY DEF KeepsItsLists
<1>1. CASE v = Awaiting(View(<<"item">>, GetItem))
  <2>1. v.key = <<"item">> /\ v.facts = GetItem
    BY <1>1, ViewFields
  <2>2. IsPrefix(<<"item">>, v.key)
    BY <2>1, KeyPrefix
  <2>3. \A routes : Follows(v, Edit(routes, {<<"item">>, <<"items">>}))
    BY <2>2, Marked
  <2>4. \A routes : /\ Follows(v, Edit(routes, {<<"item">>}))
                   /\ \A k : Follows(v, Puts(Edit(routes, {<<"item">>}), k))
    BY <2>2, Marked
  <2>5. \A routes : Follows(v, Edit(routes, {<<"item">>, <<"translation">>}))
    BY <2>2, Marked
  <2>6. \A routes, marks : /\ Follows(v, Puts(Edit(routes, marks), <<"item">>))
                          /\ Follows(v, Patches(Edit(routes, marks), <<"item">>))
    BY <2>1, PutThere
  <2>7. Follows(v, Leaving(Edit(<<DeleteItem>>, {<<"items">>}), "Library"))
    BY Leaves
  <2>8. \A c \in HighlightEdits \cup CommentsSection : Follows(v, c)
    BY <2>2, NotesMarked
  <2>. QED BY <2>3, <2>4, <2>5, <2>6, <2>7, <2>8
    DEF ItemWorkspace, MediaPanel, SummaryView, InfographicView
<1>2. CASE v = Awaiting(View(<<"translation">>, GetTranslation))
  <2>1. v.key = <<"translation">> /\ v.facts = GetTranslation
    BY <1>2, ViewFields
  <2>2. IsPrefix(<<"translation">>, v.key)
    BY <2>1, KeyPrefix
  <2>3. /\ \A c \in {Edit(<<facts>>, {<<"item">>, <<"items">>}) :
                      facts \in {ToggleFavorite, ToggleArchive, PutInterest}} : Follows(v, c)
       /\ \A c \in {Edit(<<facts>>, {<<"item">>}) : facts \in {RegenerateItem, RetryItem}} :
            Follows(v, c)
       /\ Follows(v, MediaPanel)
    BY <2>1, ButtonsApart DEF GetTranslation
  <2>4. \A marks, k : Follows(v, Patches(Edit(<<PrepareBulletin>>, marks), k))
    BY <2>1, Apart DEF GetTranslation, PrepareBulletin
  <2>5. \A marks, k : Follows(v, Puts(Edit(<<RequestInfographic>>, marks), k))
    BY <2>1, Apart DEF GetTranslation, RequestInfographic
  <2>6. \A routes : Follows(v, Edit(routes, {<<"item">>, <<"translation">>}))
    BY <2>2, Marked
  <2>7. Follows(v, Leaving(Edit(<<DeleteItem>>, {<<"items">>}), "Library"))
    BY Leaves
  <2>8. \A c \in HighlightEdits \cup CommentsSection : Follows(v, c)
    BY <2>1, NotesApart DEF GetTranslation
  <2>. QED BY <2>3, <2>4, <2>5, <2>6, <2>7, <2>8
    DEF ItemWorkspace, MediaPanel, SummaryView, InfographicView
<1>3. CASE v = Awaiting(View(<<"infographic">>, GetInfographic))
  <2>1. v.key = <<"infographic">> /\ v.facts = GetInfographic
    BY <1>3, ViewFields
  <2>2. /\ \A c \in {Edit(<<facts>>, {<<"item">>, <<"items">>}) :
                      facts \in {ToggleFavorite, ToggleArchive, PutInterest}} : Follows(v, c)
       /\ \A c \in {Edit(<<facts>>, {<<"item">>}) : facts \in {RegenerateItem, RetryItem}} :
            Follows(v, c)
       /\ Follows(v, MediaPanel)
    BY <2>1, ButtonsApart DEF GetInfographic
  <2>3. \A marks, k : Follows(v, Patches(Edit(<<PrepareBulletin>>, marks), k))
    BY <2>1, Apart DEF GetInfographic, PrepareBulletin
  <2>4. \A marks : Follows(v, Edit(<<RequestTranslation>>, marks))
    BY <2>1, Apart DEF GetInfographic, RequestTranslation
  <2>5. \A routes, marks : /\ Follows(v, Puts(Edit(routes, marks), <<"infographic">>))
                          /\ Follows(v, Patches(Edit(routes, marks), <<"infographic">>))
    BY <2>1, PutThere
  <2>6. Follows(v, Leaving(Edit(<<DeleteItem>>, {<<"items">>}), "Library"))
    BY Leaves
  <2>7. \A c \in HighlightEdits \cup CommentsSection : Follows(v, c)
    BY <2>1, NotesApart DEF GetInfographic
  <2>. QED BY <2>2, <2>3, <2>4, <2>5, <2>6, <2>7
    DEF ItemWorkspace, MediaPanel, SummaryView, InfographicView
<1>. QED BY <1>1, <1>2, <1>3 DEF ItemWorkspace, MediaPanel, SummaryView, InfographicView

LEMMA BulletinDetailKeeps == KeepsItsLists(BulletinDetail)
<1>. SUFFICES ASSUME NEW v \in BulletinDetail.views, NEW e \in BulletinDetail.edits PROVE Follows(v, e)
  BY DEF KeepsItsLists
<1>1. CASE v = Awaiting(View(<<"bulletin", "item">>, GetBulletin))
  <2>1. v.key = <<"bulletin", "item">> /\ v.facts = GetBulletin
    BY <1>1, ViewFields
  <2>2. IsPrefix(<<"bulletin", "item">>, v.key) /\ IsPrefix(<<"bulletin">>, v.key)
    BY <2>1, KeyPrefix
  <2>3. \A routes, marks : /\ Follows(v, Puts(Edit(routes, marks), <<"bulletin", "item">>))
                          /\ Follows(v, Patches(Edit(routes, marks), <<"bulletin", "item">>))
    BY <2>1, PutThere
  <2>4. \A routes : Follows(v, Edit(routes, {<<"bulletin", "item">>}))
    BY <2>2, Marked
  <2>5. \A routes : Follows(v, Edit(routes, {<<"bulletin", "item">>, <<"translation">>}))
    BY <2>2, Marked
  <2>6. \A routes : Follows(v, Edit(routes, {<<"bulletin">>, <<"items">>}))
    BY <2>2, Marked
  <2>7. \A c \in HighlightEdits \cup CommentsSection : Follows(v, c)
    BY <2>1, NotesApart DEF GetBulletin
  <2>. QED BY <2>3, <2>4, <2>5, <2>6, <2>7 DEF BulletinDetail, ProgramInfo, MediaSourceContent
<1>2. CASE v = Awaiting(View(<<"translation">>, GetTranslation))
  <2>1. v.key = <<"translation">> /\ v.facts = GetTranslation
    BY <1>2, ViewFields
  <2>2. IsPrefix(<<"translation">>, v.key)
    BY <2>1, KeyPrefix
  <2>3. \A marks, k : Follows(v, Patches(Edit(<<PrepareReadingSummary>>, marks), k))
    BY <2>1, Apart DEF GetTranslation, PrepareReadingSummary
  <2>4. \A marks : Follows(v, Edit(<<PrepareBulletin>>, marks))
    BY <2>1, Apart DEF GetTranslation, PrepareBulletin
  <2>5. \A routes : Follows(v, Edit(routes, {<<"bulletin", "item">>, <<"translation">>}))
    BY <2>2, Marked
  <2>6. \A marks : Follows(v, Edit(<<AddItems>>, marks))
    BY <2>1, Apart DEF GetTranslation, AddItems
  <2>7. \A c \in HighlightEdits \cup CommentsSection : Follows(v, c)
    BY <2>1, NotesApart DEF GetTranslation
  <2>. QED BY <2>3, <2>4, <2>5, <2>6, <2>7 DEF BulletinDetail, ProgramInfo, MediaSourceContent
<1>3. CASE v = View(<<"item">>, {"content", "media"})
  <2>1. v.key = <<"item">> /\ v.facts = {"content", "media"}
    BY <1>3, ViewFields
  <2>2. IsPrefix(<<"item">>, v.key)
    BY <2>1, KeyPrefix
  <2>3. \A marks, k : Follows(v, Patches(Edit(<<PrepareReadingSummary>>, marks), k))
    BY <2>1, Apart DEF PrepareReadingSummary
  <2>4. \A marks : Follows(v, Edit(<<PrepareBulletin>>, marks))
    BY <2>1, Apart DEF PrepareBulletin
  <2>5. \A marks : Follows(v, Edit(<<RequestTranslation>>, marks))
    BY <2>1, Apart DEF RequestTranslation
  <2>6. \A marks : Follows(v, Edit(<<AddItems>>, marks))
    BY <2>1, Apart DEF AddItems
  <2>7. \A c \in HighlightEdits \cup CommentsSection : Follows(v, c)
    BY <2>2, NotesMarked
  <2>. QED BY <2>3, <2>4, <2>5, <2>6, <2>7 DEF BulletinDetail, ProgramInfo, MediaSourceContent
<1>4. CASE v = View(<<"item">>, {"content", "highlights", "comments"})
  <2>1. v.key = <<"item">> /\ v.facts = {"content", "highlights", "comments"}
    BY <1>4, ViewFields
  <2>2. IsPrefix(<<"item">>, v.key)
    BY <2>1, KeyPrefix
  <2>3. \A marks, k : Follows(v, Patches(Edit(<<PrepareReadingSummary>>, marks), k))
    BY <2>1, Apart DEF PrepareReadingSummary
  <2>4. \A marks : Follows(v, Edit(<<PrepareBulletin>>, marks))
    BY <2>1, Apart DEF PrepareBulletin
  <2>5. \A marks : Follows(v, Edit(<<RequestTranslation>>, marks))
    BY <2>1, Apart DEF RequestTranslation
  <2>6. \A marks : Follows(v, Edit(<<AddItems>>, marks))
    BY <2>1, Apart DEF AddItems
  <2>7. \A c \in HighlightEdits \cup CommentsSection : Follows(v, c)
    BY <2>2, NotesMarked
  <2>. QED BY <2>3, <2>4, <2>5, <2>6, <2>7 DEF BulletinDetail, ProgramInfo, MediaSourceContent
<1>. QED BY <1>1, <1>2, <1>3, <1>4 DEF BulletinDetail, ProgramInfo, MediaSourceContent

LEMMA CollectionDetailKeeps == KeepsItsLists(CollectionDetail)
<1>. SUFFICES ASSUME NEW v \in CollectionDetail.views, NEW e \in CollectionDetail.edits PROVE Follows(v, e)
  BY DEF KeepsItsLists
<1>1. CASE v = View(<<"collection">>, GetCollection)
  <2>1. v.key = <<"collection">> /\ v.facts = GetCollection
    BY <1>1, ViewFields
  <2>2. \A marks : Follows(v, Edit(<<AddItems>>, marks))
    BY <2>1, Apart DEF GetCollection, AddItems
  <2>. QED BY <2>2 DEF CollectionDetail, TrackSection
<1>2. CASE v = Scrolled(View(<<"collection-track-items">>, ListTrackItems))
  <2>1. v.key = <<"collection-track-items">> /\ v.facts = ListTrackItems
    BY <1>2, ViewFields
  <2>2. IsPrefix(<<"collection-track-items">>, v.key)
    BY <2>1, KeyPrefix
  <2>3. \A routes : Follows(v, Edit(routes, {<<"collection-track-items">>, <<"browse">>, <<"items">>, <<"queue">>}))
    BY <2>2, Marked
  <2>. QED BY <2>3 DEF CollectionDetail, TrackSection
<1>. QED BY <1>1, <1>2 DEF CollectionDetail, TrackSection

LEMMA QueueKeeps == KeepsItsLists(Queue)
BY PolledFollows DEF KeepsItsLists, Queue

LEMMA AdminKeeps == KeepsItsLists(Admin)
<1>. SUFFICES ASSUME NEW v \in Admin.views, NEW e \in Admin.edits PROVE Follows(v, e)
  BY DEF KeepsItsLists
<1>1. CASE v = View(<<"admin", "feedback">>, ListFeedback)
  <2>1. v.key = <<"admin", "feedback">> /\ v.facts = ListFeedback
    BY <1>1, ViewFields
  <2>2. \A marks : Follows(v, Edit(<<SetAdmin>>, marks))
    BY <2>1, Apart DEF ListFeedback, SetAdmin
  <2>3. \A marks : Follows(v, Edit(<<DeleteUser>>, marks))
    BY <2>1, Apart DEF ListFeedback, DeleteUser
  <2>4. \A marks : Follows(v, Edit(<<BumpItem>>, marks))
    BY <2>1, Apart DEF ListFeedback, BumpItem
  <2>5. \A marks : Follows(v, Edit(<<AdminRetry>>, marks))
    BY <2>1, Apart DEF ListFeedback, AdminRetry
  <2>6. \A marks : Follows(v, Edit(<<DropItem>>, marks))
    BY <2>1, Apart DEF ListFeedback, DropItem
  <2>. QED BY <2>2, <2>3, <2>4, <2>5, <2>6 DEF Admin, FeedbackPanel, UsersPanel, QueuePanel
<1>. QED BY <1>1, PolledFollows DEF Admin, FeedbackPanel, UsersPanel, QueuePanel

LEMMA PreferencesKeeps == KeepsItsLists(Preferences)
<1>. SUFFICES ASSUME NEW v \in Preferences.views, NEW e \in Preferences.edits PROVE Follows(v, e)
  BY DEF KeepsItsLists
<1>1. CASE v = View(<<"bulletin-preference">>, GetPreference)
  <2>1. v.key = <<"bulletin-preference">> /\ v.facts = GetPreference
    BY <1>1, ViewFields
  <2>2. \A routes, marks : /\ Follows(v, Puts(Edit(routes, marks), <<"bulletin-preference">>))
                          /\ Follows(v, Patches(Edit(routes, marks), <<"bulletin-preference">>))
    BY <2>1, PutThere
  <2>3. \A marks : Follows(v, Edit(<<BackfillBulletins>>, marks))
    BY <2>1, Apart DEF GetPreference, BackfillBulletins
  <2>. QED BY <2>2, <2>3 DEF Preferences
<1>. QED BY <1>1 DEF Preferences

LEMMA ResearchKeeps == KeepsItsLists(Research)
<1>. SUFFICES ASSUME NEW v \in Research.views, NEW e \in Research.edits PROVE Follows(v, e)
  BY DEF KeepsItsLists
<1>1. CASE v = View(<<"research", "feed">>, ListReports)
  <2>1. v.key = <<"research", "feed">> /\ v.facts = ListReports
    BY <1>1, ViewFields
  <2>2. IsPrefix(<<"research">>, v.key)
    BY <2>1, KeyPrefix
  <2>3. \A routes : Follows(v, Edit(routes, {<<"research">>}))
    BY <2>2, Marked
  <2>4. \A marks : Follows(v, Edit(<<AskQuestion>>, marks))
    BY <2>1, Apart DEF ListReports, AskQuestion
  <2>. QED BY <2>3, <2>4 DEF Research, AskResearch, ResearchSetup
<1>2. CASE v = View(<<"research", "coverage">>, ListCoverage)
  <2>1. v.key = <<"research", "coverage">> /\ v.facts = ListCoverage
    BY <1>2, ViewFields
  <2>2. IsPrefix(<<"research">>, v.key)
    BY <2>1, KeyPrefix
  <2>3. \A routes : Follows(v, Edit(routes, {<<"research">>}))
    BY <2>2, Marked
  <2>4. \A marks : Follows(v, Edit(<<AskQuestion>>, marks))
    BY <2>1, Apart DEF ListCoverage, AskQuestion
  <2>. QED BY <2>3, <2>4 DEF Research, AskResearch, ResearchSetup
<1>3. CASE v = View(<<"research", "agents">>, ListAgents)
  <2>1. v.key = <<"research", "agents">> /\ v.facts = ListAgents
    BY <1>3, ViewFields
  <2>2. IsPrefix(<<"research">>, v.key)
    BY <2>1, KeyPrefix
  <2>3. \A routes : Follows(v, Edit(routes, {<<"research">>}))
    BY <2>2, Marked
  <2>4. \A marks : Follows(v, Edit(<<AskQuestion>>, marks))
    BY <2>1, Apart DEF ListAgents, AskQuestion
  <2>. QED BY <2>3, <2>4 DEF Research, AskResearch, ResearchSetup
<1>4. CASE v = View(<<"research", "asks">>, ListAsks)
  <2>1. v.key = <<"research", "asks">> /\ v.facts = ListAsks
    BY <1>4, ViewFields
  <2>2. IsPrefix(<<"research">>, v.key) /\ IsPrefix(<<"research", "asks">>, v.key)
    BY <2>1, KeyPrefix
  <2>3. \A routes : Follows(v, Edit(routes, {<<"research">>}))
    BY <2>2, Marked
  <2>4. \A routes : Follows(v, Edit(routes, {<<"research", "asks">>}))
    BY <2>2, Marked
  <2>. QED BY <2>3, <2>4 DEF Research, AskResearch, ResearchSetup
<1>. QED BY <1>1, <1>2, <1>3, <1>4 DEF Research, AskResearch, ResearchSetup

LEMMA RssDetailKeeps == KeepsItsLists(RssDetail)
<1>. SUFFICES ASSUME NEW v \in RssDetail.views, NEW e \in RssDetail.edits PROVE Follows(v, e)
  BY DEF KeepsItsLists
<1>1. CASE v = Awaiting(View(<<"rss", "article">>, GetArticle))
  <2>1. v.key = <<"rss", "article">> /\ v.facts = GetArticle
    BY <1>1, ViewFields
  <2>2. IsPrefix(<<"rss">>, v.key)
    BY <2>1, KeyPrefix
  <2>3. \A routes : Follows(v, Edit(routes, {<<"rss">>, <<"bulletin", "feed">>}))
    BY <2>2, Marked
  <2>. QED BY <2>3 DEF RssDetail
<1>2. CASE v = View(<<"rss", "body">>, GetArticleBody)
  <2>1. v.key = <<"rss", "body">> /\ v.facts = GetArticleBody
    BY <1>2, ViewFields
  <2>2. IsPrefix(<<"rss">>, v.key)
    BY <2>1, KeyPrefix
  <2>3. \A routes : Follows(v, Edit(routes, {<<"rss">>, <<"bulletin", "feed">>}))
    BY <2>2, Marked
  <2>. QED BY <2>3 DEF RssDetail
<1>. QED BY <1>1, <1>2 DEF RssDetail

LEMMA PagesKeep == \A p \in AllPages : KeepsItsLists(Around(p))
<1>1. KeepsItsLists(Around("Layout"))
  BY LayoutKeeps DEF Around
<1>2. ASSUME NEW p \in PageNames PROVE KeepsItsLists(Pages[p])
  BY <1>2, LibraryKeeps, FolderViewKeeps, TimelineKeeps, BrowseKeeps, ChannelDetailKeeps,
     FollowingKeeps, DiscoverKeeps, ArticleSourcesKeeps, SubstackSourcesKeeps, ItemWorkspaceKeeps,
     BulletinDetailKeeps, CollectionDetailKeeps, QueueKeeps, AdminKeeps, PreferencesKeeps,
     ResearchKeeps, RssDetailKeeps, ReadersKeep DEF PageNames, Pages
<1>3. "Layout" \notin PageNames
  BY DEF PageNames, Pages
<1>. QED BY <1>1, <1>2, <1>3 DEF AllPages, Around

\* Every edit is a call of one route, or of two.
LEMMA RouteCalled ==
  ASSUME NEW f, NEW marks
  PROVE  /\ Calls(Edit(<<f>>, marks))
         /\ \A k : Calls(Puts(Edit(<<f>>, marks), k)) /\ Calls(Patches(Edit(<<f>>, marks), k))
         /\ Calls(Leaving(Edit(<<f>>, marks), "Library")) /\ Calls(OfPanel(Edit(<<f>>, marks)))
         /\ \A keys : Calls(OfPanel(Quietly(Edit(<<f>>, marks), keys)))
BY DEF Calls, Edit, Puts, Patches, Leaving, OfPanel, Quietly

LEMMA PartsCall ==
  /\ \A kept : \A e \in CardEdits(kept) : Calls(e)
  /\ \A e \in HighlightEdits \cup CommentsSection \cup FollowControls \cup ResearchSetup : Calls(e)
  /\ \A e \in {OfPanel(c) : c \in FollowControls} \cup SourceDiscovery.edits : Calls(e)
<1>1. \A f, g, marks : Calls(Edit(<<f, g>>, marks))
  BY DEF Calls, Edit
<1>2. \A f, marks : Calls(Edit(<<f>>, marks))
  BY RouteCalled
<1>3. \A kept : \A e \in CardEdits(kept) : Calls(e)
  BY <1>1, <1>2 DEF CardEdits
<1>4. \A e \in HighlightEdits \cup CommentsSection \cup FollowControls \cup ResearchSetup : Calls(e)
  BY <1>2 DEF HighlightEdits, CommentsSection, FollowControls, ResearchSetup
<1>5. \A e \in {OfPanel(c) : c \in FollowControls} \cup SourceDiscovery.edits : Calls(e)
  BY RouteCalled DEF FollowControls, SourceDiscovery
<1>. QED BY <1>3, <1>4, <1>5

LEMMA EditsCall == \A p \in AllPages : \A e \in Around(p).edits : Calls(e)
<1>0. \A f, marks : Calls(Edit(<<f>>, marks))
  BY RouteCalled
<1>1. \A e \in Layout.edits : Calls(e)
  BY <1>0 DEF Layout, AddDialog, FeedbackDialog
<1>2. \A e \in Library.edits : Calls(e)
  BY <1>0, PartsCall DEF Library
<1>3. \A e \in FolderView.edits : Calls(e)
  <2>1. Calls(Leaving(Edit(<<DeleteGroup>>, {<<"items">>, <<"groups">>}), "Library"))
    BY RouteCalled
  <2>. QED BY <1>0, PartsCall, <2>1 DEF FolderView
<1>4. \A e \in Timeline.edits : Calls(e)
  BY <1>0, PartsCall DEF Timeline
<1>5. \A e \in Browse.edits : Calls(e)
  BY <1>0 DEF Browse
<1>6. \A e \in ChannelDetail.edits : Calls(e)
  BY <1>0, PartsCall DEF ChannelDetail, ChannelNotes
<1>7. \A e \in Following.edits : Calls(e)
  BY <1>0, PartsCall DEF Following, ChannelRow, FollowedArticleRow
<1>8. \A e \in Discover.edits : Calls(e)
  BY <1>0, PartsCall DEF Discover, AddChannelDialog
<1>9. \A e \in ArticleSources.edits : Calls(e)
  BY <1>0 DEF ArticleSources
<1>10. \A e \in SubstackSources.edits : Calls(e)
  BY <1>0, PartsCall DEF SubstackSources
<1>11. \A e \in ItemWorkspace.edits : Calls(e)
  <2>1. \A marks, k : Calls(Patches(Edit(<<PrepareBulletin>>, marks), k))
    BY RouteCalled
  <2>2. \A marks, k : Calls(Puts(Edit(<<RequestInfographic>>, marks), k))
    BY RouteCalled
  <2>3. Calls(Leaving(Edit(<<DeleteItem>>, {<<"items">>}), "Library"))
    BY RouteCalled
  <2>. QED BY <1>0, PartsCall, <2>1, <2>2, <2>3
    DEF ItemWorkspace, MediaPanel, SummaryView, InfographicView
<1>12. \A e \in BulletinDetail.edits : Calls(e)
  <2>1. \A marks, k : Calls(Patches(Edit(<<PrepareReadingSummary>>, marks), k))
    BY RouteCalled
  <2>. QED BY <1>0, PartsCall, <2>1 DEF BulletinDetail, MediaSourceContent
<1>13. \A e \in CollectionDetail.edits : Calls(e)
  BY <1>0 DEF CollectionDetail
<1>14. \A e \in Queue.edits : Calls(e)
  BY <1>0 DEF Queue
<1>15. \A e \in Admin.edits : Calls(e)
  BY <1>0 DEF Admin, UsersPanel, QueuePanel
<1>16. \A e \in Preferences.edits : Calls(e)
  <2>1. \A marks, k : Calls(Puts(Edit(<<UpdatePreference>>, marks), k))
    BY RouteCalled
  <2>. QED BY <1>0, <2>1 DEF Preferences
<1>17. \A e \in Research.edits : Calls(e)
  BY <1>0, PartsCall DEF Research, AskResearch
<1>18. \A e \in RssDetail.edits : Calls(e)
  BY <1>0 DEF RssDetail
<1>19. \A p \in PageNames : \A e \in Pages[p].edits : Calls(e)
  BY <1>2, <1>3, <1>4, <1>5, <1>6, <1>7, <1>8, <1>9, <1>10,
     <1>11, <1>12, <1>13, <1>14, <1>15, <1>16, <1>17, <1>18
     DEF PageNames, Pages, PublicHome, Bulletin, CollectionBulletins, Collections, ResearchBrief, Dossier,
         Annotations, Graph, Stats
<1>20. "Layout" \notin PageNames
  BY DEF PageNames, Pages
<1>. QED BY <1>1, <1>19, <1>20 DEF AllPages, Around

\* At first the entry is wanted if the page shows it, and nothing has been edited.
LEMMA PageInitFollowed == PageInit => PageInv
<1>. SUFFICES ASSUME PageInit PROVE PageInv
  OBVIOUS
<1>1. phase = "before" /\ served = 0 /\ stayed = TRUE /\ data = "none" /\ stale = FALSE /\ cut = FALSE
      /\ fetch = IF Mounted THEN Whole ELSE NoFetch
  BY DEF PageInit
<1>2. EntryShaped
  BY <1>1, Requests DEF EntryShaped
<1>3. PICK p \in AllPages, q \in AllPages : \E v \in Around(p).views : \E e \in Around(q).edits :
        \E i \in DOMAIN e.calls : \E fact \in v.facts \cap e.calls[i] :
          key = v.key /\ edit = Bearing(q, e, v.key, fact, i)
  BY DEF PageInit
<1>4. PICK v \in Around(p).views, e \in Around(q).edits : \E i \in DOMAIN e.calls :
        \E fact \in v.facts \cap e.calls[i] : edit = Bearing(q, e, v.key, fact, i)
  BY <1>3
<1>5. PICK i \in DOMAIN e.calls : \E fact \in v.facts \cap e.calls[i] :
        edit = Bearing(q, e, v.key, fact, i)
  BY <1>4
<1>6. PICK fact \in v.facts \cap e.calls[i] : edit = Bearing(q, e, v.key, fact, i)
  BY <1>5
<1>7. EditKnown
  BY <1>1, <1>6, BearingKnown, PagesKeep, EditsCall DEF EditKnown
<1>. QED BY <1>1, <1>2, <1>7 DEF PageInv, Followed

\* For every page and edit of the frontend, and every order of visits, scrolls, polls,
\* failures and answers: an entry that an edit is to change never shows what was before it
\* once the edit has settled (EditsShown), but where `cut` tells that a mark was lost.
THEOREM EditsAlwaysShown == PageSpec => []EditsShown
BY PageInitFollowed, PageStep, FollowedShown, PTL DEF PageSpec
=============================================================================
