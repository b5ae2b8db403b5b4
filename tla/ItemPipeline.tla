---------------------------- MODULE ItemPipeline ----------------------------
(***************************************************************************)
(* The item pipeline of the hosted edition: the queue consumer             *)
(* cf/worker/src/pipeline/consumer.ts, the routes that reset items, and the *)
(* cron that pumps the queue.                                              *)
(*                                                                         *)
(* One step is one D1 statement (D1 serialises statements; the code uses    *)
(* no transaction here), so everything between two awaits of an invocation  *)
(* may be interleaved with the other invocations, with a request handler,   *)
(* with the cron, or cut off by the eviction of the invocation.             *)
(*                                                                         *)
(* There is no clock.  started_at is a stamp that only equality tests tell  *)
(* apart; "older than the 20 minute cutoff" is a flag that AgeLease and     *)
(* AgeProgress raise, never while an invocation that could still touch the  *)
(* item is alive (an invocation is killed after 15 minutes).                *)
(***************************************************************************)
EXTENDS Naturals, FiniteSets

CONSTANTS
  Items,          \* rows of the D1 table "item"
  Workers,        \* concurrent queue-consumer invocations
  Stamps,         \* values isoNow() returns, as far as the code compares them
  MaxRetries,     \* MAX_RETRIES
  MaxReclaim,     \* MAX_RECLAIM
  MaxClaimTries,  \* rounds of the claim loop
  MaxDeliveries,  \* queue max_retries + 1; afterwards the dead-letter queue
  Broken,         \* items whose every pipeline run fails
  Stages,         \* statuses a heartbeat can report (STAGE_STATUS)
  FaultKinds,     \* kinds of faults the instance contains: eviction of an
                  \* invocation, a content failure, a container-capacity failure
  Requests,       \* kinds of user and admin requests the instance contains
  MaxFaults,      \* bound: evictions, failed runs and failed statements
  MaxRequests,    \* bound: user and admin requests
  NoStamp, NoItem, NoWorker

ASSUME BudgetAssumption ==
  /\ MaxRetries \in Nat /\ MaxReclaim \in Nat
  /\ MaxReclaim < MaxRetries
  /\ MaxClaimTries \in Nat \ {0}
  /\ MaxDeliveries \in Nat \ {0}
  /\ MaxFaults \in Nat /\ MaxRequests \in Nat
ASSUME NullAssumption ==
  /\ NoStamp \notin Stamps /\ NoItem \notin Items /\ NoWorker \notin Workers
  /\ Broken \subseteq Items
  /\ Stages \subseteq {"fetching", "transcribing", "summarizing"}

VARIABLES
  item,        \* the columns of D1 item that control processing
  transcript,  \* items that have a transcript row
  summary,     \* the invocation that wrote the summary row, or NoWorker
  chunks,      \* the invocations whose chunk rows are stored
  library,     \* user_item.personal_status, "none" without a row
  queue,       \* messages waiting for delivery
  inv,         \* state of every consumer invocation
  faults,      \* faults so far
  requests,    \* requests so far
  disturbed,   \* history: items reset or taken while an invocation ran them
  revivals     \* history: how often an item was taken again, or sent back by
               \* repair-summaries, with its attempts used up

rows == <<item, transcript, summary, chunks, library>>
marks == <<disturbed, revivals>>
vars == <<item, transcript, summary, chunks, library, queue, inv, faults, requests,
          disturbed, revivals>>

-----------------------------------------------------------------------------
(* Rows, messages and invocations *)

InProgress == {"fetching", "transcribing", "summarizing"}
Status == InProgress \cup {"queued", "done", "error", "excluded"}

\* aged: started_at is older than staleCutoff().  progress: progress_updated_at
\* is NULL, younger or older than the cutoff.
Row == [status: Status, startedAt: Stamps \cup {NoStamp}, aged: BOOLEAN,
        retry: Nat, progress: {"none", "fresh", "old"}]

Message == [kind: {"process", "resummarize"}, id: Items \cup {NoItem},
            attempt: 1 .. MaxDeliveries]
ProcessMsg(i) == [kind |-> "process", id |-> i, attempt |-> 1]
ResummarizeMsg(i) == [kind |-> "resummarize", id |-> i, attempt |-> 1]
PumpMsg == ProcessMsg(NoItem)      \* {kind: "process", item_id: 0}

\* Program points between claiming an item and being through with it ...
Running == {"continue", "resume", "pipeline", "summary", "dropChunks",
            "addChunks", "markDone", "markLibrary", "markExcluded",
            "dropLibrary", "failRead", "failWrite"}
\* ... those inside the try block of processClaimedItem ...
Trying == Running \ {"continue", "resume", "failRead", "failWrite"}
\* ... and the rest.
Points == Running \cup {"idle", "reap", "strand", "select", "claim",
                        "recoverRead", "recoverClaim", "resummarizeClaim", "ack"}

\* live is a history: an invocation was running the item when it was read.
Snapshot == [status: Status, startedAt: Stamps \cup {NoStamp}, live: BOOLEAN]
NoSnapshot == [status |-> "queued", startedAt |-> NoStamp, live |-> FALSE]

Invocation == [pc: Points, msg: Message, id: Items \cup {NoItem}, tries: Nat,
               resume: BOOLEAN, seen: Snapshot, attempts: Nat,
               failure: {"none", "content", "transient"}]
Idle == [pc |-> "idle", msg |-> PumpMsg, id |-> NoItem, tries |-> 0,
         resume |-> FALSE, seen |-> NoSnapshot, attempts |-> 0, failure |-> "none"]

\* (An invocation at "continue" has claimed an item unless its id is NoItem.)
Runs(w, i) == inv[w].id = i /\ inv[w].pc \in Running
HasRunner(i) == \E w \in Workers : Runs(w, i)

\* isoNow(): later than every stamp in use.  The code compares started_at only
\* with the snapshots of recoverRetriedProcessItem, so a stamp no snapshot of
\* another invocation holds stands for every later one.
Later(w, i) ==
  {t \in Stamps : \A v \in Workers \ {w} : inv[v].id = i => inv[v].seen.startedAt # t}
Now(w, i) == CHOOSE t \in Stamps : t \in Later(w, i)

\* Histories.  A write that is not kept off by the lease disturbs a run of the
\* item; one that ignores retry_count revives an item that has used it up.
Disturb(i) == disturbed' = IF HasRunner(i) THEN disturbed \cup {i} ELSE disturbed
CountRevival(i) ==
  revivals' = [revivals EXCEPT ![i] = IF item[i].retry > MaxRetries THEN @ + 1 ELSE @]

-----------------------------------------------------------------------------
(* The SQL predicates *)

Leased(r) == r.startedAt # NoStamp

\* Mutant: a row that waits for its resummarize message is nobody's to claim.
ClaimableLeasedOnly(r) ==
  \/ r.status = "queued"
  \/ r.status \in InProgress /\ Leased(r) /\ r.aged /\ r.retry < MaxReclaim

Claimable(r) ==
  \/ r.status = "queued"
  \/ /\ r.status \in InProgress
     /\ \/ ~Leased(r) /\ r.retry < MaxRetries
        \/ Leased(r) /\ r.aged /\ r.retry < MaxReclaim

Strandable(r) ==
  /\ r.status \in InProgress
  /\ \/ ~Leased(r) /\ r.retry >= MaxRetries
     \/ Leased(r) /\ r.aged /\ r.retry >= MaxReclaim

Silent(r) ==
  /\ r.status \in InProgress /\ Leased(r)
  /\ IF r.progress = "none" THEN r.aged ELSE r.progress = "old"

ClaimableItems == {i \in Items : Claimable(item[i])}

\* CLAIM_ORDER: queued items first.  The priority columns that order the rest
\* are not modelled; any item may come out on top.
Best == LET queued == {i \in ClaimableItems : item[i].status = "queued"}
        IN  IF queued # {} THEN queued ELSE ClaimableItems

\* Mutant: started_at = COALESCE(started_at, ?).
ClaimedRowKeepsStart(r, t, retry) ==
  [r EXCEPT !.status = "fetching", !.startedAt = IF Leased(r) THEN @ ELSE t,
            !.progress = "none", !.retry = retry]

\* The row after a claim; a claim of anything but a queued row is an attempt.
ClaimedRow(r, t, retry) ==
  [r EXCEPT !.status = "fetching", !.startedAt = t, !.aged = FALSE,
            !.progress = "none", !.retry = retry]

\* The row waiting, unleased, in status s.
WaitingRow(s, retry) ==
  [status |-> s, startedAt |-> NoStamp, aged |-> FALSE,
   retry |-> retry, progress |-> "none"]

FinishedRow(r, s, retry) ==
  [r EXCEPT !.status = s, !.progress = "none", !.retry = retry]

StrandAll == [i \in Items |-> IF Strandable(item[i])
                              THEN FinishedRow(item[i], "error", item[i].retry)
                              ELSE item[i]]

-----------------------------------------------------------------------------
(* Queue and invocation helpers *)

Send(m) == queue' = queue \cup {m}

\* message.retry(): redelivered until max_retries, then dead-lettered.
Redelivery(m) ==
  IF m # PumpMsg /\ m.attempt < MaxDeliveries THEN {[m EXCEPT !.attempt = @ + 1]} ELSE {}

Become(w, state) == inv' = [inv EXCEPT ![w] = state]
Goto(w, point) == Become(w, [inv[w] EXCEPT !.pc = point])
Return(w) == Become(w, [Idle EXCEPT !.pc = "ack", !.msg = inv[w].msg])
Throw(w) ==
  /\ queue' = queue \cup Redelivery(inv[w].msg)
  /\ Become(w, Idle)

At(w, point) == inv[w].pc = point
Fault(kind) == kind \in FaultKinds /\ faults < MaxFaults /\ faults' = faults + 1

-----------------------------------------------------------------------------
(* Delivery and claiming *)

\* handleMessage: a redelivered process message that names an item recovers
\* that item instead of claiming the next one.
EntryPoint(m) ==
  IF m.kind = "resummarize" THEN "resummarizeClaim"
  ELSE IF m.attempt > 1 /\ m.id # NoItem THEN "recoverRead"
  ELSE "reap"

Deliver(w, m) ==
  /\ At(w, "idle") /\ m \in queue
  /\ queue' = queue \ {m}
  /\ Become(w, [Idle EXCEPT !.pc = EntryPoint(m), !.msg = m])
  /\ UNCHANGED <<rows, faults, requests, marks>>

\* Mutant: every row that has aged is reaped, whatever its status and progress.
ReapAged(w) ==
  /\ At(w, "reap")
  /\ item' = [i \in Items |->
                IF item[i].aged
                THEN WaitingRow("queued", item[i].retry + 1)
                ELSE item[i]]
  /\ Goto(w, "strand")
  /\ UNCHANGED <<transcript, summary, chunks, library, queue, faults, requests, marks>>

\* reapSilentItems
Reap(w) ==
  /\ At(w, "reap")
  /\ item' = [i \in Items |->
                IF Silent(item[i])
                THEN WaitingRow(item[i].status, item[i].retry + 1)
                ELSE item[i]]
  /\ Goto(w, "strand")
  /\ UNCHANGED <<transcript, summary, chunks, library, queue, faults, requests, marks>>

\* failStrandedItems
FailStranded(w) ==
  /\ At(w, "strand")
  /\ item' = StrandAll
  /\ Goto(w, "select")
  /\ UNCHANGED <<transcript, summary, chunks, library, queue, faults, requests, marks>>

\* The SELECTs of claimNextQueuedItem: the item the message prefers, on the
\* first try and if it is claimable, else the best one.
Candidates(w) ==
  IF inv[w].tries = 0 /\ inv[w].msg.id \in ClaimableItems
  THEN {inv[w].msg.id} ELSE Best

Select(w) ==
  /\ At(w, "select")
  /\ \/ \E i \in Candidates(w) :
          Become(w, [inv[w] EXCEPT !.pc = "claim", !.id = i])
     \/ Candidates(w) = {} /\ Goto(w, "continue")
  /\ UNCHANGED <<rows, queue, faults, requests, marks>>

\* The conditional UPDATE of claimNextQueuedItem; when it changes no row the
\* loop selects again.
Claim(w) ==
  LET i == inv[w].id IN
  /\ At(w, "claim")
  /\ IF Claimable(item[i])
     THEN /\ Later(w, i) # {}
          /\ item' = [item EXCEPT ![i] =
                        ClaimedRow(@, Now(w, i), IF @.status = "queued" THEN @.retry
                                              ELSE @.retry + 1)]
          /\ Goto(w, "continue")
     ELSE /\ Become(w, [inv[w] EXCEPT
                         !.pc = IF inv[w].tries + 1 < MaxClaimTries
                                THEN "select" ELSE "continue",
                         !.id = NoItem, !.tries = @ + 1])
          /\ UNCHANGED item
  /\ UNCHANGED <<transcript, summary, chunks, library, queue, faults, requests, marks>>

\* enqueueNextIfWork: keep the chain going before processing, so that it
\* survives the eviction of this invocation.
Continue(w) ==
  /\ At(w, "continue")
  /\ \/ \E i \in Best : Send(ProcessMsg(i))
     \/ Best = {} /\ UNCHANGED queue
  /\ Become(w, IF inv[w].id = NoItem THEN Idle
               ELSE [inv[w] EXCEPT !.pc = "resume", !.tries = 0])
  /\ UNCHANGED <<rows, faults, requests, marks>>

\* hasTranscript: resume from the stored transcript.
Resume(w) ==
  /\ At(w, "resume")
  /\ Become(w, [inv[w] EXCEPT !.pc = "pipeline", !.resume = inv[w].id \in transcript])
  /\ UNCHANGED <<rows, queue, faults, requests, marks>>

\* Mutant: only excluded items are left alone.
RecoverReadDone(w) ==
  LET i == inv[w].msg.id IN
  /\ At(w, "recoverRead")
  /\ Become(w, IF item[i].status = "excluded" THEN Idle
               ELSE [inv[w] EXCEPT !.pc = "recoverClaim", !.id = i,
                                   !.resume = i \in transcript,
                                   !.seen = [status |-> item[i].status,
                                             startedAt |-> item[i].startedAt,
                                             live |-> HasRunner(i)]])
  /\ UNCHANGED <<rows, queue, faults, requests, marks>>

\* recoverRetriedProcessItem, the reads.
RecoverRead(w) ==
  LET i == inv[w].msg.id IN
  /\ At(w, "recoverRead")
  /\ Become(w, IF item[i].status \in {"done", "excluded"} THEN Idle
               ELSE [inv[w] EXCEPT !.pc = "recoverClaim", !.id = i,
                                   !.resume = i \in transcript,
                                   !.seen = [status |-> item[i].status,
                                             startedAt |-> item[i].startedAt,
                                             live |-> HasRunner(i)]])
  /\ UNCHANGED <<rows, queue, faults, requests, marks>>

\* Mutant: the lease compares the status alone.
RecoverClaimByStatus(w) ==
  LET i == inv[w].id IN
  /\ At(w, "recoverClaim")
  /\ IF item[i].status = inv[w].seen.status
     THEN /\ Later(w, i) # {}
          /\ item' = [item EXCEPT ![i] = ClaimedRow(@, Now(w, i), @.retry)]
          /\ Become(w, [inv[w] EXCEPT !.pc = "pipeline", !.seen = NoSnapshot])
          /\ IF inv[w].seen.live THEN Disturb(i) ELSE UNCHANGED disturbed
          /\ CountRevival(i)
     ELSE /\ Become(w, Idle)
          /\ UNCHANGED <<item, marks>>
  /\ UNCHANGED <<transcript, summary, chunks, library, queue, faults, requests>>

\* recoverRetriedProcessItem, the optimistic lease: the row must still have
\* the status and the started_at that were read, so that a claim in between
\* makes it miss.
RecoverClaim(w) ==
  LET i == inv[w].id IN
  /\ At(w, "recoverClaim")
  /\ IF /\ item[i].status = inv[w].seen.status
        /\ item[i].startedAt = inv[w].seen.startedAt
     THEN /\ Later(w, i) # {}
          /\ item' = [item EXCEPT ![i] = ClaimedRow(@, Now(w, i), @.retry)]
          /\ Become(w, [inv[w] EXCEPT !.pc = "pipeline", !.seen = NoSnapshot])
          /\ IF inv[w].seen.live THEN Disturb(i) ELSE UNCHANGED disturbed
          /\ CountRevival(i)
     ELSE /\ Become(w, Idle)
          /\ UNCHANGED <<item, marks>>
  /\ UNCHANGED <<transcript, summary, chunks, library, queue, faults, requests>>

\* processItem for a resummarize message.
ResummarizeClaim(w) ==
  LET i == inv[w].msg.id IN
  /\ At(w, "resummarizeClaim")
  /\ IF /\ item[i].status = "summarizing"
        /\ inv[w].msg.attempt > 1 \/ ~Leased(item[i])
     THEN /\ Later(w, i) # {}
          /\ item' = [item EXCEPT ![i] =
                        [ClaimedRow(@, Now(w, i), @.retry) EXCEPT !.status = "summarizing"]]
          /\ Become(w, [inv[w] EXCEPT !.pc = "pipeline", !.id = i, !.resume = TRUE])
          /\ IF inv[w].msg.attempt > 1 THEN Disturb(i) ELSE UNCHANGED disturbed
          /\ CountRevival(i)
     ELSE /\ Become(w, Idle)
          /\ UNCHANGED <<item, marks>>
  /\ UNCHANGED <<transcript, summary, chunks, library, queue, faults, requests>>

-----------------------------------------------------------------------------
(* Processing a claimed item *)

\* persistProgressHeartbeat: keyed by the item alone.
Heartbeat(w) ==
  LET i == inv[w].id IN
  /\ At(w, "pipeline")
  /\ \E s \in IF inv[w].resume THEN {"summarizing"} ELSE Stages :
       item' = [item EXCEPT ![i] = [@ EXCEPT !.status = s, !.progress = "fresh"]]
  /\ UNCHANGED <<transcript, summary, chunks, library, queue, inv, faults, requests, marks>>

\* persistPipelinePartial: the transcript is stored while the run goes on.
PartialTranscript(w) ==
  /\ At(w, "pipeline") /\ ~inv[w].resume
  /\ transcript' = transcript \cup {inv[w].id}
  /\ UNCHANGED <<item, summary, chunks, library, queue, inv, faults, requests, marks>>

\* Mutant: the row is marked done before the result is stored.
RunReturnsDone(w) ==
  /\ At(w, "pipeline") /\ inv[w].id \notin Broken
  /\ \E point \in {"markDone", "markExcluded"} :
       Become(w, [inv[w] EXCEPT !.pc = point, !.resume = FALSE])
  /\ UNCHANGED <<rows, queue, faults, requests, marks>>

\* executePipeline returns a valid summary, or an exclusion.
RunReturns(w) ==
  /\ At(w, "pipeline") /\ inv[w].id \notin Broken
  /\ \E point \in {"summary", "markExcluded"} :
       Become(w, [inv[w] EXCEPT !.pc = point, !.resume = FALSE])
  /\ UNCHANGED <<rows, queue, faults, requests, marks>>

\* persistResult: the transcript (if the result carries one) and the summary
\* are upserted, then the chunk rows are replaced.  A crash between the two
\* upserts leaves what a PartialTranscript before it would have left.
PersistSummary(w) ==
  /\ At(w, "summary")
  /\ transcript' \in {transcript, transcript \cup {inv[w].id}}
  /\ summary' = [summary EXCEPT ![inv[w].id] = w]
  /\ Goto(w, "dropChunks")
  /\ UNCHANGED <<item, chunks, library, queue, faults, requests, marks>>

\* Mutant: the chunks of earlier runs are not deleted.
DropNoChunks(w) ==
  /\ At(w, "dropChunks")
  /\ Goto(w, "addChunks")
  /\ UNCHANGED <<rows, queue, faults, requests, marks>>

DropChunks(w) ==
  /\ At(w, "dropChunks")
  /\ chunks' = [chunks EXCEPT ![inv[w].id] = {}]
  /\ Goto(w, "addChunks")
  /\ UNCHANGED <<item, transcript, summary, library, queue, faults, requests, marks>>

\* embedChunks follows: it fills in the vectors of these rows, and when it
\* throws the invocation is at markDone as far as this module goes.
AddChunks(w) ==
  /\ At(w, "addChunks")
  /\ chunks' = [chunks EXCEPT ![inv[w].id] = @ \cup {w}]
  /\ Goto(w, "markDone")
  /\ UNCHANGED <<item, transcript, summary, library, queue, faults, requests, marks>>

\* markItemDone, its two statements.
MarkDone(w) ==
  LET i == inv[w].id IN
  /\ At(w, "markDone")
  /\ item' = [item EXCEPT ![i] = FinishedRow(@, "done", @.retry)]
  /\ Goto(w, "markLibrary")
  /\ UNCHANGED <<transcript, summary, chunks, library, queue, faults, requests, marks>>

MarkLibrary(w) ==
  LET i == inv[w].id IN
  /\ At(w, "markLibrary")
  /\ library' = [library EXCEPT ![i] = IF @ = "none" THEN @ ELSE "done"]
  /\ Return(w)
  /\ UNCHANGED <<item, transcript, summary, chunks, queue, faults, requests, marks>>

\* persistExcludedResult: the row, then the library rows (comments and
\* highlights go the same way).
MarkExcluded(w) ==
  LET i == inv[w].id IN
  /\ At(w, "markExcluded")
  /\ item' = [item EXCEPT ![i] = [@ EXCEPT !.status = "excluded", !.retry = MaxReclaim]]
  /\ Goto(w, "dropLibrary")
  /\ UNCHANGED <<transcript, summary, chunks, library, queue, faults, requests, marks>>

DropLibrary(w) ==
  /\ At(w, "dropLibrary")
  /\ library' = [library EXCEPT ![inv[w].id] = "none"]
  /\ Return(w)
  /\ UNCHANGED <<item, transcript, summary, chunks, queue, faults, requests, marks>>

\* The message is acknowledged after the last statement.
Ack(w) ==
  /\ At(w, "ack")
  /\ Become(w, Idle)
  /\ UNCHANGED <<rows, queue, faults, requests, marks>>

-----------------------------------------------------------------------------
(* Failures *)

\* Anything in the try block throws: the run itself, with a capacity or a
\* content error, or a later statement.
Fails(w) ==
  /\ inv[w].pc \in Trying
  /\ \E kind \in IF At(w, "pipeline") THEN {"content", "transient"} ELSE {"content"} :
       /\ IF inv[w].id \in Broken /\ kind = "content" THEN UNCHANGED faults ELSE Fault(kind)
       /\ Become(w, [inv[w] EXCEPT !.pc = "failRead", !.failure = kind, !.resume = FALSE])
  /\ UNCHANGED <<rows, queue, requests, marks>>

\* Mutant: the failed attempt is not counted.
FailReadUncounted(w) ==
  LET i == inv[w].id IN
  /\ At(w, "failRead")
  /\ Become(w, [inv[w] EXCEPT !.pc = "failWrite", !.resume = i \in transcript,
                              !.attempts = item[i].retry])
  /\ UNCHANGED <<rows, queue, faults, requests, marks>>

\* handlePipelineFailure, the reads.
FailRead(w) ==
  LET i == inv[w].id IN
  /\ At(w, "failRead")
  /\ Become(w, [inv[w] EXCEPT !.pc = "failWrite", !.resume = i \in transcript,
                              !.attempts = item[i].retry + 1])
  /\ UNCHANGED <<rows, queue, faults, requests, marks>>

\* handlePipelineFailure, the write: requeueTransientPipelineItem and
\* requeueForRetry rethrow, markItemErrored does not.
FailWrite(w) ==
  LET i == inv[w].id
      waiting == IF inv[w].resume THEN "summarizing" ELSE "queued"
  IN
  /\ At(w, "failWrite")
  /\ \/ /\ inv[w].failure = "transient"
        /\ item' = [item EXCEPT ![i] = WaitingRow(waiting, @.retry)]
        /\ Throw(w)
     \/ /\ inv[w].failure = "content" /\ inv[w].attempts < MaxRetries
        /\ item' = [item EXCEPT ![i] = WaitingRow(waiting, inv[w].attempts)]
        /\ Throw(w)
     \/ /\ inv[w].failure = "content" /\ inv[w].attempts >= MaxRetries
        /\ item' = [item EXCEPT ![i] = FinishedRow(@, "error", @.retry + 1)]
        /\ Return(w)
        /\ UNCHANGED queue
  /\ UNCHANGED <<transcript, summary, chunks, library, faults, requests, marks>>

\* The invocation is evicted, or a statement outside the try block throws:
\* the message is redelivered.
Crash(w) ==
  /\ ~At(w, "idle")
  /\ Fault("crash")
  /\ Throw(w)
  /\ UNCHANGED <<rows, requests, marks>>

-----------------------------------------------------------------------------
(* Time, cron and requests *)

\* Invocations that an ageing lease proves dead.
Holds(w, i) == inv[w].id = i /\ inv[w].pc \in Running \cup {"claim"}

\* started_at falls behind the cutoff; so does COALESCE(progress_updated_at,
\* started_at) when nothing was reported.
AgeLease(i) ==
  /\ Leased(item[i]) /\ ~item[i].aged /\ item[i].status \in InProgress
  /\ \A w \in Workers : ~Holds(w, i)
  /\ item' = [item EXCEPT ![i].aged = TRUE]
  /\ UNCHANGED <<transcript, summary, chunks, library, queue, inv, faults, requests, marks>>

\* progress_updated_at, written after started_at, falls behind it too.
AgeProgress(i) ==
  /\ item[i].progress = "fresh" /\ item[i].aged /\ item[i].status \in InProgress
  /\ \A w \in Workers : ~Holds(w, i)
  /\ item' = [item EXCEPT ![i].progress = "old"]
  /\ UNCHANGED <<transcript, summary, chunks, library, queue, inv, faults, requests, marks>>

\* scheduled(): sweep (not in the 04:00 run) and pump.
CronSweep ==
  /\ item' = StrandAll
  /\ UNCHANGED <<transcript, summary, chunks, library, queue, inv, faults, requests, marks>>

\* The pump message is sent every 15 minutes whatever the state, so that one
\* may always be the next to be delivered; a redelivered one acts like it.
CronPump(w) ==
  /\ At(w, "idle")
  /\ Become(w, [inv[w] EXCEPT !.pc = "reap", !.msg = PumpMsg])
  /\ UNCHANGED <<rows, queue, faults, requests, marks>>

Request(kind) ==
  kind \in Requests /\ requests < MaxRequests /\ requests' = requests + 1

\* The request handler may die between its UPDATE and its send.
SendUnlessKilled(m) == queue' \in {queue, queue \cup {m}}

\* POST /items/:id/retry and /admin/queue/:id/retry
Retry(i) ==
  /\ Request("retry")
  /\ item' = [item EXCEPT ![i] = WaitingRow("queued", 0)]
  /\ SendUnlessKilled(ProcessMsg(i))
  /\ Disturb(i) /\ revivals' = [revivals EXCEPT ![i] = 0]
  /\ UNCHANGED <<transcript, summary, chunks, library, inv, faults>>

\* POST /items/:id/regenerate
Regenerate(i) ==
  /\ Request("regenerate")
  /\ IF i \in transcript
     THEN /\ item' = [item EXCEPT ![i] = WaitingRow("summarizing", 0)]
          /\ SendUnlessKilled(ResummarizeMsg(i))
     ELSE /\ item' = [item EXCEPT ![i] = WaitingRow("queued", 0)]
          /\ SendUnlessKilled(ProcessMsg(i))
  /\ Disturb(i) /\ revivals' = [revivals EXCEPT ![i] = 0]
  /\ UNCHANGED <<transcript, summary, chunks, library, inv, faults>>

\* POST /admin/repair-summaries, for one item: started_at keeps its value.
RepairSummary(i) ==
  /\ Request("repair") /\ summary[i] # NoWorker
  /\ item' = [item EXCEPT ![i].status = "summarizing"]
  /\ SendUnlessKilled(ResummarizeMsg(i))
  /\ Disturb(i) /\ CountRevival(i)
  /\ UNCHANGED <<transcript, summary, chunks, library, inv, faults>>

\* POST /admin/queue/:id/bump, and addUrlToLibrary for an item that exists:
\* a message and nothing else.
Nudge(i) ==
  /\ Request("nudge")
  /\ Send(ProcessMsg(i))
  /\ UNCHANGED <<rows, inv, faults, marks>>

-----------------------------------------------------------------------------
(* The specification *)

FreshRow == [status |-> "queued", startedAt |-> NoStamp, aged |-> FALSE,
             retry |-> 0, progress |-> "none"]

\* addUrlToLibrary has just stored the items and sent a message for each.
Init ==
  /\ item = [i \in Items |-> FreshRow]
  /\ transcript = {}
  /\ summary = [i \in Items |-> NoWorker]
  /\ chunks = [i \in Items |-> {}]
  /\ library = [i \in Items |-> "waiting"]
  /\ queue = {ProcessMsg(i) : i \in Items}
  /\ inv = [w \in Workers |-> Idle]
  /\ faults = 0 /\ requests = 0
  /\ disturbed = {} /\ revivals = [i \in Items |-> 0]

Process(w) ==
  \/ Resume(w) \/ RunReturns(w)
  \/ PersistSummary(w) \/ DropChunks(w) \/ AddChunks(w)
  \/ MarkDone(w) \/ MarkLibrary(w)
  \/ MarkExcluded(w) \/ DropLibrary(w)
  \/ FailRead(w) \/ FailWrite(w) \/ Ack(w)

ClaimNext(w) ==
  \/ Reap(w) \/ FailStranded(w) \/ Select(w) \/ Claim(w) \/ Continue(w)
  \/ RecoverRead(w) \/ RecoverClaim(w) \/ ResummarizeClaim(w)

Worker(w) ==
  \/ CronPump(w) \/ \E m \in queue : Deliver(w, m)
  \/ ClaimNext(w) \/ Process(w)
  \/ Heartbeat(w) \/ PartialTranscript(w)
  \/ Fails(w) \/ Crash(w)

Environment ==
  \/ CronSweep
  \/ \E i \in Items : AgeLease(i) \/ AgeProgress(i)
  \/ \E i \in Items : Retry(i) \/ Regenerate(i) \/ RepairSummary(i) \/ Nudge(i)

Next == (\E w \in Workers : Worker(w)) \/ Environment

Spec == Init /\ [][Next]_vars

\* The runtime delivers messages, every invocation makes progress until it is
\* through or is evicted, a broken item's run fails, time passes, and the cron
\* fires.  Nothing makes a fault or a request happen, nor a heartbeat.
Fairness ==
  /\ WF_vars(\E w \in Workers : \E m \in queue : Deliver(w, m))
  /\ \A w \in Workers :
       /\ WF_vars(ClaimNext(w)) /\ WF_vars(Process(w))
       /\ WF_vars(inv[w].id \in Broken /\ Fails(w))
  /\ \A i \in Items : WF_vars(AgeLease(i)) /\ WF_vars(AgeProgress(i))
  /\ WF_vars(CronSweep) /\ WF_vars(\E w \in Workers : CronPump(w))

FairSpec == Spec /\ Fairness

-----------------------------------------------------------------------------
(* Properties *)

\* Every variable keeps its type.
TypeOK ==
  /\ item \in [Items -> Row]
  /\ transcript \in SUBSET Items
  /\ summary \in [Items -> Workers \cup {NoWorker}]
  /\ chunks \in [Items -> SUBSET Workers]
  /\ library \in [Items -> {"none", "waiting", "done"}]
  /\ queue \in SUBSET Message
  /\ inv \in [Workers -> Invocation]
  /\ faults \in 0 .. MaxFaults /\ requests \in 0 .. MaxRequests
  /\ disturbed \in SUBSET Items /\ revivals \in [Items -> Nat]

\* An item shown as done has a stored summary, whatever evictions, redeliveries,
\* failed statements and resets came between the run and markItemDone.
DoneIsSummarised ==
  \A i \in Items : item[i].status = "done" => summary[i] # NoWorker

\* No two invocations process one item at a time ("the old behavior raced two
\* jobs for one item, doubling LLM pressure", consumer.ts:829).
SingleRunner ==
  \A i \in Items : \A w1, w2 \in Workers : Runs(w1, i) /\ Runs(w2, i) => w1 = w2

\* What the code keeps of that under every redelivery and every request: two
\* invocations meet on an item only after a redelivery that read or took the
\* row of a live run, or a request that reset it.  Claims, the reaper, the
\* sweep, redeliveries after an eviction, and redeliveries that raced another
\* claim (the optimistic lease, consumer.ts:240-266) never bring that about.
OneRunner ==
  \A i \in Items \ disturbed :
    \A w1, w2 \in Workers : Runs(w1, i) /\ Runs(w2, i) => w1 = w2

\* While an undisturbed invocation processes an item, and until its last write
\* of the row, the item is out of reach of claims, of the reaper and of the
\* sweep.
RunnerHoldsLease ==
  \A w \in Workers : \A i \in Items \ disturbed :
    Runs(w, i) /\ item[i].status \notin {"done", "excluded"} =>
      ~Claimable(item[i]) /\ ~Strandable(item[i]) /\ ~Silent(item[i])

\* The search index of a finished item holds the chunks of the run that wrote
\* its summary, once each, although persistResult uses no transaction and its
\* statements may be cut off, redelivered and sent back, as long as no run of
\* the item was disturbed.
IndexMatchesSummary ==
  \A i \in Items \ disturbed :
    item[i].status = "done" /\ ~HasRunner(i) => chunks[i] = {summary[i]}

\* Claims and the reaper count attempts, so retry_count stays bounded and an
\* orphaned item cannot loop forever (consumer.ts:87-89): it passes the budget
\* by one for the last failure, and by one for each time a redelivery or
\* repair-summaries ignored that it was used up.
RetryBudget ==
  \A i \in Items \ disturbed : item[i].retry <= MaxRetries + 1 + revivals[i]

\* Once faults and requests have ceased, every item ends done, failed or
\* excluded, and no invocation works on it any more.
Settles ==
  \A i \in Items :
    <>[](item[i].status \in {"done", "error", "excluded"} /\ ~HasRunner(i))

\* An item whose every run fails is given up, and stays given up
\* (consumer.ts:94-96, wrangler.jsonc:143-145).
GivesUp == \A i \in Broken : <>[](item[i].status = "error")

\* The pipeline as a set of leases: an item is held by the invocation that
\* runs it; what it is left as counts once nobody runs it.
ItemHolder == [i \in Items |->
                 IF i \notin disturbed /\ HasRunner(i)
                 THEN CHOOSE w \in Workers : Runs(w, i) ELSE NoWorker]
Final == {"done", "error", "excluded"}
ItemOutcome == [i \in Items |->
                  IF i \in disturbed THEN "disturbed"
                  ELSE IF ~HasRunner(i) /\ item[i].status \in Final THEN item[i].status
                  ELSE "open"]
Flight == INSTANCE SingleFlight WITH
            Jobs <- Items, Agents <- Workers, Outcomes <- Final, Failures <- {"error"},
            Nobody <- NoWorker,
            holder <- ItemHolder, outcome <- ItemOutcome, asked <- requests

\* The pipeline is single-flight under every redelivery and request: one
\* invocation per item until a run is disturbed; done and excluded stay until
\* a request, and a failed item is taken again by a redelivery at most
\* (consumer.ts:181-182, 827-830).
ImplementsSingleFlight == Flight!Spec
=============================================================================
