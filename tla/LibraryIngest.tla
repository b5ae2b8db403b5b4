---------------------------- MODULE LibraryIngest ----------------------------
(***************************************************************************)
(* How items enter and leave the libraries of users:                        *)
(* cf/worker/src/lib/ingest.ts (addUrlToLibrary, recomputePriority),          *)
(* db.ts (upsertItem), the requests of routes/items.ts and routes/admin.ts,    *)
(* and what the pipeline does to library rows when an item ends               *)
(* (pipeline/consumer.ts).                                                   *)
(*                                                                         *)
(* An item is a row per URL; URLs of one video share an external id, which    *)
(* is known if its metadata could be fetched.  One step is one D1 statement,  *)
(* or a few that read.  The pipeline takes any item that waits and has a      *)
(* message; how it does is in ItemPipeline.  An item that is sent back while   *)
(* a run of it goes on has two runs later, which end one after the other.     *)
(***************************************************************************)
EXTENDS Naturals, FiniteSets

CONSTANTS
  Urls,
  Video,        \* the external id of each URL
  Users,
  Operations,   \* requests and imports that run at a time
  MaxOperations, \* bound: requests and imports
  MaxLive,      \* bound: runs of an item at a time
  NoUrl, NoUser

ASSUME IngestAssumption ==
  /\ NoUrl \notin Urls /\ NoUser \notin Users
  /\ IsFiniteSet(Urls) /\ IsFiniteSet(Users)
  /\ MaxOperations \in Nat /\ MaxLive \in Nat

VARIABLES
  item,        \* status of the item of a URL
  external,    \* items whose external id is stored
  live,        \* runs of an item that go on
  ending,      \* <<item, status>> -> runs that have ended it so and not settled its rows
  library,     \* personal_status of user_item
  interest,    \* item_interest
  requests,    \* item.request_count
  interests,   \* item.interest_count
  nudged,      \* items a process message was sent for
  account,     \* user -> "here", "leaving" while it is deleted, "gone"
  op,          \* state of every operation
  started,
  raced,       \* history: items of which an operation has written what it read before a change
  reopened,    \* history: items sent back, and not ended since by a run of their own
  uncounted    \* history: items that have lost rows, and have not been counted since

rowVars == <<item, external, live, ending, nudged>>
demandVars == <<library, interest, requests, interests, account>>
historyVars == <<raced, reopened, uncounted>>
ingestVars == <<rowVars, demandVars, historyVars, op, started>>

-----------------------------------------------------------------------------
(* Rows and operations *)

ItemStatuses == {"none", "queued", "summarizing", "running", "done", "error", "excluded"}
Ends == {"done", "excluded"}
Op == [pc: {"idle", "insert", "save", "count", "score", "nudge"},
       user: Users \cup {NoUser}, url: Urls \cup {NoUrl}, fetched: BOOLEAN,
       status: ItemStatuses, adds: BOOLEAN, requests: Nat, interests: Nat, stale: BOOLEAN]
IdleOp == [pc |-> "idle", user |-> NoUser, url |-> NoUrl, fetched |-> FALSE,
           status |-> "none", adds |-> FALSE, requests |-> 0, interests |-> 0, stale |-> FALSE]

Owners(u) == {w \in Users : library[<<w, u>>] # "none"}
Fans(u) == {w \in Users : <<w, u>> \in interest}
Saved(w) == {u \in Urls : library[<<w, u>>] # "none"}
Liked(w) == {u \in Urls : <<w, u>> \in interest}

On(o, point) == op[o].pc = point
Request == started < MaxOperations /\ started' = started + 1
StartOp(o) == On(o, "idle") /\ Request

\* Operation o goes on; the others on item u hold what is no longer so.
Proceed(o, state) == op' = [op EXCEPT ![o] = state]
Outdating(o, state, u) ==
  op' = [p \in Operations |-> IF p = o THEN state
                              ELSE IF op[p].url = u THEN [op[p] EXCEPT !.stale = TRUE] ELSE op[p]]
Outdated(us) ==
  op' = [p \in Operations |-> IF op[p].url \in us THEN [op[p] EXCEPT !.stale = TRUE] ELSE op[p]]

-----------------------------------------------------------------------------
(* addUrlToLibrary *)

\* upsertItem looks for the external id, if the metadata could be fetched.
FindItem(o, w, u, fetched) ==
  /\ StartOp(o) /\ account[w] # "gone"
  /\ LET twins == {v \in external : Video[v] = Video[u]}
         add == [IdleOp EXCEPT !.user = w, !.fetched = fetched, !.adds = TRUE]
     IN IF fetched /\ twins # {}
        THEN \E v \in twins :
               Proceed(o, [add EXCEPT !.pc = "save", !.url = v, !.status = item[v]])
        ELSE Proceed(o, [add EXCEPT !.pc = "insert", !.url = u])
  /\ UNCHANGED <<rowVars, demandVars, historyVars>>

\* It inserts the item unless the URL has one, and reads it.
InsertItem(o) ==
  LET u == op[o].url IN
  /\ On(o, "insert")
  /\ item' = [item EXCEPT ![u] = IF @ = "none" THEN "queued" ELSE @]
  /\ external' = IF op[o].fetched /\ item[u] = "none" THEN external \cup {u} ELSE external
  /\ Proceed(o, [op[o] EXCEPT !.pc = "save", !.status = item'[u], !.stale = FALSE])
  /\ UNCHANGED <<live, ending, nudged, demandVars, historyVars, started>>

\* The metadata is stored, then the library row, by the status read before; an
\* excluded item is not attached, and nothing to a user who has been deleted.
SaveItem(o) ==
  LET w == op[o].user u == op[o].url IN
  /\ On(o, "save")
  /\ external' = IF op[o].fetched /\ op[o].status # "excluded" THEN external \cup {u} ELSE external
  /\ IF op[o].status = "excluded" \/ account[w] = "gone"
     THEN Proceed(o, IdleOp) /\ UNCHANGED <<library, raced>>
     ELSE /\ library' = [library EXCEPT ![<<w, u>>] =
               IF @ # "none" THEN @ ELSE IF op[o].status = "done" THEN "done" ELSE "waiting"]
          /\ raced' = IF op[o].stale THEN raced \cup {u} ELSE raced
          /\ Outdating(o, [op[o] EXCEPT !.pc = "count"], u)
  /\ UNCHANGED <<item, live, ending, nudged, interest, requests, interests, account,
                 reopened, uncounted, started>>

\* recomputePriority counts ...
Count(o) ==
  LET u == op[o].url IN
  /\ On(o, "count")
  /\ Proceed(o, [op[o] EXCEPT !.pc = "score", !.stale = FALSE,
                !.requests = Cardinality(Owners(u)), !.interests = Cardinality(Fans(u))])
  /\ UNCHANGED <<rowVars, demandVars, historyVars, started>>

\* ... and stores the counts.
Score(o) ==
  LET u == op[o].url IN
  /\ On(o, "score")
  /\ requests' = [requests EXCEPT ![u] = op[o].requests]
  /\ interests' = [interests EXCEPT ![u] = op[o].interests]
  /\ raced' = IF op[o].stale THEN raced \cup {u} ELSE raced
  /\ uncounted' = IF op[o].stale THEN uncounted ELSE uncounted \ {u}
  /\ Proceed(o, IF op[o].adds THEN [op[o] EXCEPT !.pc = "nudge"] ELSE IdleOp)
  /\ UNCHANGED <<rowVars, library, interest, account, reopened, started>>

\* A message is sent by the status read last.
Nudge(o) ==
  LET u == op[o].url IN
  /\ On(o, "nudge")
  /\ nudged' = IF item[u] \in {"queued", "error"} THEN nudged \cup {u} ELSE nudged
  /\ Proceed(o, IdleOp)
  /\ UNCHANGED <<item, external, live, ending, demandVars, historyVars, started>>

-----------------------------------------------------------------------------
(* Requests *)

\* Mutant: the counts are left as they are.
RemoveItemUncounted(o, w, u) ==
  /\ StartOp(o) /\ library[<<w, u>>] # "none"
  /\ library' = [library EXCEPT ![<<w, u>>] = "none"]
  /\ Outdating(o, IdleOp, u)
  /\ UNCHANGED <<rowVars, interest, requests, interests, account, historyVars>>

\* DELETE /items/:id.
RemoveItem(o, w, u) ==
  /\ StartOp(o) /\ library[<<w, u>>] # "none"
  /\ library' = [library EXCEPT ![<<w, u>>] = "none"]
  /\ Outdating(o, [IdleOp EXCEPT !.pc = "count", !.user = w, !.url = u], u)
  /\ UNCHANGED <<rowVars, interest, requests, interests, account, historyVars>>

\* POST /items/:id/interest.
ToggleInterest(o, w, u) ==
  /\ StartOp(o) /\ item[u] # "none" /\ account[w] # "gone"
  /\ interest' = IF <<w, u>> \in interest THEN interest \ {<<w, u>>} ELSE interest \cup {<<w, u>>}
  /\ Outdating(o, [IdleOp EXCEPT !.pc = "count", !.user = w, !.url = u], u)
  /\ UNCHANGED <<rowVars, library, requests, interests, account, historyVars>>

\* A follow, or an item that finds its channel, counts the item again.
Recount(o, u) ==
  /\ StartOp(o) /\ item[u] # "none"
  /\ Proceed(o, [IdleOp EXCEPT !.pc = "count", !.url = u])
  /\ UNCHANGED <<rowVars, demandVars, historyVars>>

\* POST /items/:id/retry, /items/:id/regenerate, the administrator's retry and repair
\* of summaries: whatever its status, the item waits again, and the message is sent,
\* which may fail.  Library rows are left as they are.
Reopen(u) ==
  /\ Request /\ item[u] # "none"
  /\ \E status \in {"queued", "summarizing"} : item' = [item EXCEPT ![u] = status]
  /\ nudged' \in {nudged, nudged \cup {u}}
  /\ Outdated({u})
  /\ reopened' = reopened \cup {u}
  /\ UNCHANGED <<external, live, ending, demandVars, raced, uncounted>>

\* DELETE /admin/users/:id deletes the library rows first ...
DeleteAccount(w) ==
  /\ Request /\ account[w] = "here"
  /\ account' = [account EXCEPT ![w] = "leaving"]
  /\ library' = [k \in DOMAIN library |-> IF k[1] = w THEN "none" ELSE library[k]]
  /\ Outdated(Saved(w))
  /\ uncounted' = uncounted \cup Saved(w)
  /\ UNCHANGED <<rowVars, interest, requests, interests, raced, reopened>>

\* ... and the interest at the end, with the user and what has come since.  The
\* demand of the items is not counted again.
ForgetAccount(w) ==
  /\ account[w] = "leaving"
  /\ account' = [account EXCEPT ![w] = "gone"]
  /\ library' = [k \in DOMAIN library |-> IF k[1] = w THEN "none" ELSE library[k]]
  /\ interest' = {k \in interest : k[1] # w}
  /\ Outdated(Saved(w) \cup Liked(w))
  /\ uncounted' = uncounted \cup Saved(w) \cup Liked(w)
  /\ UNCHANGED <<rowVars, requests, interests, raced, reopened, started>>

\* DELETE /admin/queue/:id: the item goes with all its rows.  What operations and runs
\* still write of it finds no row; the URL may be added again, as a new item.
PurgeItem(u) ==
  /\ Request /\ item[u] # "none"
  /\ item' = [item EXCEPT ![u] = "none"]
  /\ external' = external \ {u} /\ nudged' = nudged \ {u}
  /\ live' = [live EXCEPT ![u] = 0]
  /\ ending' = [e \in DOMAIN ending |-> IF e[1] = u THEN 0 ELSE ending[e]]
  /\ library' = [k \in DOMAIN library |-> IF k[2] = u THEN "none" ELSE library[k]]
  /\ interest' = {k \in interest : k[2] # u}
  /\ requests' = [requests EXCEPT ![u] = 0] /\ interests' = [interests EXCEPT ![u] = 0]
  /\ op' = [p \in Operations |-> IF op[p].url = u /\ op[p].pc # "insert" THEN IdleOp ELSE op[p]]
  /\ raced' = raced \ {u} /\ reopened' = reopened \ {u} /\ uncounted' = uncounted \ {u}
  /\ UNCHANGED account

-----------------------------------------------------------------------------
(* The pipeline *)

Unsettled(u) == \E status \in Ends : ending[<<u, status>>] > 0

\* A message has an item that waits, or one that had failed, taken.
TakeItem(u) ==
  /\ item[u] \in {"queued", "summarizing", "error"} /\ u \in nudged
  /\ live[u] < MaxLive /\ ~Unsettled(u)
  /\ item' = [item EXCEPT ![u] = "running"]
  /\ live' = [live EXCEPT ![u] = @ + 1]
  /\ nudged' = nudged \ {u}
  /\ Outdated({u})
  /\ UNCHANGED <<external, ending, demandVars, historyVars, started>>

\* A run ends the item as done or excluded, fails it for good, or has it wait for
\* another attempt, whatever the status is by then.  Its metadata, with the external
\* id, is stored if it has got so far.
EndItem(u) ==
  /\ live[u] > 0
  /\ live' = [live EXCEPT ![u] = @ - 1]
  /\ \E status \in Ends \cup {"error", "queued", "summarizing"} :
       /\ item' = [item EXCEPT ![u] = status]
       /\ nudged' = IF status \in {"queued", "summarizing"} THEN nudged \cup {u} ELSE nudged
       /\ IF status \in Ends
          THEN /\ ending' = [ending EXCEPT ![<<u, status>>] = @ + 1]
               /\ external' = external \cup {u}
               /\ reopened' = IF live[u] = 1 /\ ~Unsettled(u) THEN reopened \ {u} ELSE reopened
          ELSE UNCHANGED <<ending, external, reopened>>
  /\ Outdated({u})
  /\ UNCHANGED <<demandVars, raced, uncounted, started>>

\* Mutant: only the rows of the item's first user.
SettleOne(u) ==
  \E status \in Ends :
    /\ ending[<<u, status>>] > 0
    /\ ending' = [ending EXCEPT ![<<u, status>>] = @ - 1]
    /\ \E w \in Users :
         /\ Owners(u) # {} => w \in Owners(u)
         /\ library' = [library EXCEPT ![<<w, u>>] =
              IF @ = "none" \/ status = "excluded" THEN "none" ELSE "done"]
    /\ Outdated({u})
    /\ uncounted' = IF status = "excluded" THEN uncounted \cup {u} ELSE uncounted
    /\ UNCHANGED <<item, external, live, nudged, interest, requests, interests, account,
                   raced, reopened, started>>

\* By what the run has come to, the library rows are marked done, or deleted and not
\* counted.
Settle(u) ==
  \E status \in Ends :
    /\ ending[<<u, status>>] > 0
    /\ ending' = [ending EXCEPT ![<<u, status>>] = @ - 1]
    /\ library' = [k \in DOMAIN library |->
         IF k[2] # u \/ library[k] = "none" THEN library[k]
         ELSE IF status = "excluded" THEN "none" ELSE "done"]
    /\ Outdated({u})
    /\ uncounted' = IF status = "excluded" THEN uncounted \cup {u} ELSE uncounted
    /\ UNCHANGED <<item, external, live, nudged, interest, requests, interests, account,
                   raced, reopened, started>>

-----------------------------------------------------------------------------
(* The specification *)

IngestInit ==
  /\ item = [u \in Urls |-> "none"] /\ external = {}
  /\ live = [u \in Urls |-> 0] /\ ending = [e \in Urls \X Ends |-> 0]
  /\ library = [k \in Users \X Urls |-> "none"] /\ interest = {}
  /\ requests = [u \in Urls |-> 0] /\ interests = [u \in Urls |-> 0]
  /\ nudged = {} /\ account = [w \in Users |-> "here"] /\ started = 0
  /\ raced = {} /\ reopened = {} /\ uncounted = {}
  /\ op = [o \in Operations |-> IdleOp]

OperationStep(o) ==
  InsertItem(o) \/ SaveItem(o) \/ Count(o) \/ Score(o) \/ Nudge(o)

StartOperation(o) ==
  \/ \E w \in Users : \E u \in Urls :
       \/ \E fetched \in BOOLEAN : FindItem(o, w, u, fetched)
       \/ RemoveItem(o, w, u) \/ ToggleInterest(o, w, u)
  \/ \E u \in Urls : Recount(o, u)

PipelineStep(u) == TakeItem(u) \/ EndItem(u) \/ Settle(u)

IngestNext ==
  \/ \E o \in Operations : OperationStep(o) \/ StartOperation(o)
  \/ \E w \in Users : DeleteAccount(w) \/ ForgetAccount(w)
  \/ \E u \in Urls : Reopen(u) \/ PurgeItem(u) \/ PipelineStep(u)

IngestSpec == IngestInit /\ [][IngestNext]_ingestVars

-----------------------------------------------------------------------------
(* Properties *)

\* Every variable keeps its type.
IngestTypeOK ==
  /\ item \in [Urls -> ItemStatuses]
  /\ external \subseteq Urls /\ nudged \subseteq Urls
  /\ live \in [Urls -> Nat] /\ ending \in [Urls \X Ends -> Nat]
  /\ library \in [Users \X Urls -> {"none", "waiting", "done"}]
  /\ interest \subseteq Users \X Urls
  /\ requests \in [Urls -> Nat] /\ interests \in [Urls -> Nat]
  /\ account \in [Users -> {"here", "leaving", "gone"}]
  /\ op \in [Operations -> Op] /\ started \in 0 .. MaxOperations
  /\ raced \subseteq Urls /\ reopened \subseteq Urls /\ uncounted \subseteq Urls

Settled(u) == ~Unsettled(u) /\ \A o \in Operations : op[o].url # u

\* "waiting if still processing, done if already complete" (ingest.ts:183), as far as
\* it is so: once nothing is under way an excluded item is in no library and all the
\* rows of an item that is done say so, whatever runs of it have come to before, and a
\* row says done of no other item but one that was sent back since, which keeps the
\* rows it had; unless an operation has written what it had read before a change.
LibraryReflects ==
  \A u \in Urls : Settled(u) /\ u \notin raced =>
    /\ item[u] = "excluded" => Owners(u) = {}
    /\ \A w \in Owners(u) :
         /\ item[u] = "done" => library[<<w, u>>] = "done"
         /\ library[<<w, u>>] = "done" => item[u] = "done" \/ u \in reopened

\* "Recompute ... from current state" (ingest.ts): the stored demand is the demand,
\* unless operations on one item have overlapped, or it has lost rows by an exclusion
\* or with a deleted user, which count nothing, and nothing has counted it since.
DemandCounted ==
  \A u \in Urls : Settled(u) /\ u \notin raced \cup uncounted =>
    requests[u] = Cardinality(Owners(u)) /\ interests[u] = Cardinality(Fans(u))
=============================================================================
