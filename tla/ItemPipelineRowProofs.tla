----------------------- MODULE ItemPipelineRowProofs -----------------------
(***************************************************************************)
(* What the lease buys, as long as no run of the item was disturbed: the   *)
(* search index of a finished item holds one run's chunks, attempts stay    *)
(* bounded, and the pipeline implements SingleFlight.  All three follow     *)
(* from two facts: which steps write a row (RowStep) and how an invocation  *)
(* moves (WorkerAdvances).                                                 *)
(***************************************************************************)
EXTENDS ItemPipelineProofs

-----------------------------------------------------------------------------
(* How an item is taken up *)

Claims(w, i) == Claim(w) /\ inv[w].id = i /\ Claimable(item[i])
TakesAgain(w, i) ==
  /\ inv'[w].pc = "pipeline"
  /\ \/ RecoverClaim(w) /\ inv[w].id = i
     \/ ResummarizeClaim(w) /\ inv[w].msg.id = i
TakesUp(w, i) == Claims(w, i) \/ TakesAgain(w, i)

Revived(i) == IF item[i].retry > MaxRetries THEN revivals[i] + 1 ELSE revivals[i]

\* A redelivery that takes an item takes one that is not finished; if a run held
\* it undisturbed, that run is disturbed now.
LEMMA TakenAgainRow ==
  ASSUME LeaseInv, NEW w \in Workers, NEW i \in Items, TakesAgain(w, i)
  PROVE  /\ inv' = [inv EXCEPT ![w] = inv'[w]] /\ inv'[w].id = i
         /\ inv[w].pc \in {"recoverClaim", "resummarizeClaim"}
         /\ \E t \in Stamps : \E s \in {"fetching", "summarizing"} :
              item' = [item EXCEPT ![i] =
                         [ClaimedRow(item[i], t, item[i].retry) EXCEPT !.status = s]]
         /\ item[i].status \notin {"done", "excluded"}
         /\ disturbed' = disturbed \/ Disturb(i)
         /\ i \notin disturbed' => ~HasRunner(i)
         /\ CountRevival(i)
         /\ requests' = requests
<1>0. /\ inv \in [Workers -> Invocation] /\ inv[w] \in Invocation /\ item[i] \in Row
      /\ Idle.pc = "idle" /\ LeaseFacts
  BY DEF LeaseInv, WellFormed, TypeOK, Idle
<1>1. CASE RecoverClaim(w) /\ inv[w].id = i
  <2>. DEFINE v == [inv[w] EXCEPT !.pc = "pipeline", !.seen = NoSnapshot]
              t == Now(w, i)
              r == ClaimedRow(item[i], t, item[i].retry)
  <2>1. item[i].status = inv[w].seen.status /\ item[i].startedAt = inv[w].seen.startedAt
    BY <1>0, <1>1 DEF RecoverClaim, TakesAgain, Become
  <2>2. /\ Later(w, i) # {} /\ item' = [item EXCEPT ![i] = r] /\ Become(w, v)
        /\ inv[w].pc = "recoverClaim"
    BY <1>1, <2>1 DEF RecoverClaim, At
  <2>3. v.id = i
    BY <1>0, <1>1 DEF Invocation
  <2>4. inv' = [inv EXCEPT ![w] = inv'[w]] /\ inv'[w].id = i
    <3>. HIDE DEF v
    <3>. QED BY <1>0, <2>2, <2>3 DEF Become
  <2>5. t \in Stamps /\ r = [r EXCEPT !.status = "fetching"]
    <3>1. t \in Stamps
      BY <2>2, NowLater
    <3>. HIDE DEF t
    <3>. QED BY <1>0, <3>1 DEF ClaimedRow, Row
  <2>6. /\ CountRevival(i) /\ requests' = requests
        /\ IF inv[w].seen.live THEN Disturb(i) ELSE UNCHANGED disturbed
    BY <1>1, <2>1 DEF RecoverClaim
  <2>7. item[i].status \notin {"done", "excluded"}
    BY <1>0, <2>1, <2>2 DEF LeaseFacts, Noticed
  <2>8. i \notin disturbed' => ~HasRunner(i)
    <3>1. CASE inv[w].seen.live
      BY <2>6, <3>1 DEF Disturb
    <3>2. CASE ~inv[w].seen.live
      BY <1>0, <1>1, <2>1, <2>2, <2>6, <3>2 DEF LeaseFacts, Noticed
    <3>. QED BY <3>1, <3>2
  <2>. HIDE DEF t
  <2>. QED BY <2>2, <2>4, <2>5, <2>6, <2>7, <2>8
<1>2. CASE ResummarizeClaim(w) /\ inv[w].msg.id = i
  <2>. DEFINE v == [inv[w] EXCEPT !.pc = "pipeline", !.id = i, !.resume = TRUE]
              t == Now(w, i)
              r == [ClaimedRow(item[i], t, item[i].retry) EXCEPT !.status = "summarizing"]
  <2>1. item[i].status = "summarizing" /\ (inv[w].msg.attempt > 1 \/ ~Leased(item[i]))
    BY <1>0, <1>2 DEF ResummarizeClaim, TakesAgain, Become
  <2>2. /\ Later(w, i) # {} /\ item' = [item EXCEPT ![i] = r] /\ Become(w, v)
        /\ inv[w].pc = "resummarizeClaim"
    BY <1>2, <2>1 DEF ResummarizeClaim, At
  <2>3. v.id = i
    BY <1>0 DEF Invocation
  <2>4. inv' = [inv EXCEPT ![w] = inv'[w]] /\ inv'[w].id = i
    <3>. HIDE DEF v
    <3>. QED BY <1>0, <2>2, <2>3 DEF Become
  <2>5. t \in Stamps
    BY <2>2, NowLater
  <2>6. /\ CountRevival(i) /\ requests' = requests
        /\ IF inv[w].msg.attempt > 1 THEN Disturb(i) ELSE UNCHANGED disturbed
    BY <1>2, <2>1 DEF ResummarizeClaim
  <2>8. i \notin disturbed' => ~HasRunner(i)
    <3>1. CASE inv[w].msg.attempt > 1
      BY <2>6, <3>1 DEF Disturb
    <3>2. CASE ~(inv[w].msg.attempt > 1)
      BY <1>0, <2>1, <2>6, <3>2 DEF LeaseFacts, RunnersHold, HasRunner, Held
    <3>. QED BY <3>1, <3>2
  <2>. HIDE DEF t
  <2>. QED BY <2>1, <2>2, <2>4, <2>5, <2>6, <2>8
<1>. QED BY <1>1, <1>2 DEF TakesAgain

\* The marks of an item change when it is taken again and when a request resets
\* it, and at no other step.
LEMMA MarksKept ==
  ASSUME LeaseInv, NEW w \in Workers, Worker(w),
         \A i \in Items : ~TakesAgain(w, i)
  PROVE  UNCHANGED <<disturbed, revivals, requests>>
<1>. USE DEF marks
<1>0. /\ inv[w].pc = "recoverClaim" => inv[w].id \in Items
      /\ inv[w].pc = "resummarizeClaim" => inv[w].msg.id \in Items
      /\ inv \in [Workers -> Invocation] /\ inv[w] \in Invocation
  BY DEF LeaseInv, WellFormed, TypeOK, NamesItem, Named
<1>1. CASE RecoverClaim(w)
  <2>. DEFINE v == [inv[w] EXCEPT !.pc = "pipeline", !.seen = NoSnapshot]
  <2>1. v.pc = "pipeline"
    BY <1>0 DEF Invocation
  <2>2. inv[w].id \in Items /\ inv'[w].pc # "pipeline"
    BY <1>0, <1>1 DEF RecoverClaim, At, TakesAgain
  <2>. HIDE DEF v
  <2>3. Become(w, v) => inv'[w].pc = "pipeline"
    BY <1>0, <2>1 DEF Become
  <2>. QED BY <1>1, <2>2, <2>3 DEF RecoverClaim, v
<1>2. CASE ResummarizeClaim(w)
  <2>. DEFINE v == [inv[w] EXCEPT !.pc = "pipeline", !.id = inv[w].msg.id, !.resume = TRUE]
  <2>1. v.pc = "pipeline"
    BY <1>0 DEF Invocation
  <2>2. inv[w].msg.id \in Items /\ inv'[w].pc # "pipeline"
    BY <1>0, <1>2 DEF ResummarizeClaim, At, TakesAgain
  <2>. HIDE DEF v
  <2>3. Become(w, v) => inv'[w].pc = "pipeline"
    BY <1>0, <2>1 DEF Become
  <2>. QED BY <1>2, <2>2, <2>3 DEF ResummarizeClaim, v
<1>3. CASE ClaimNext(w) /\ ~RecoverClaim(w) /\ ~ResummarizeClaim(w)
  BY <1>3 DEF ClaimNext, Reap, FailStranded, Select, Claim, Continue, RecoverRead
<1>4. CASE Process(w)
  BY <1>4 DEF Process, Resume, RunReturns, PersistSummary, DropChunks, AddChunks, MarkDone,
              MarkLibrary, MarkExcluded, DropLibrary, FailRead, FailWrite, Ack
<1>. QED BY <1>1, <1>2, <1>3, <1>4
         DEF Worker, CronPump, Deliver, Heartbeat, PartialTranscript, Fails, Crash

-----------------------------------------------------------------------------
(* How an invocation moves *)

\* The steps that carry an invocation through the points of Running; every
\* other step leaves it where it is, takes it out of Running, or finds no item.
Advances(w) ==
  \/ inv'[w] = inv[w]
  \/ inv'[w].pc \notin Running
  \/ inv'[w].id = NoItem
  \/ \E i \in Items :
       TakesUp(w, i) /\ inv'[w].id = i /\ inv'[w].pc \in {"continue", "pipeline"}
  \/ /\ inv'[w].id = inv[w].id
     /\ \/ inv[w].pc = "continue" /\ inv'[w].pc = "resume"
        \/ inv[w].pc = "resume" /\ inv'[w].pc = "pipeline"
        \/ inv[w].pc = "pipeline" /\ inv'[w].pc \in {"summary", "markExcluded"}
        \/ PersistSummary(w) /\ inv'[w].pc = "dropChunks"
        \/ DropChunks(w) /\ inv'[w].pc = "addChunks"
        \/ AddChunks(w) /\ inv'[w].pc = "markDone"
        \/ MarkDone(w) /\ inv'[w].pc = "markLibrary"
        \/ MarkExcluded(w) /\ inv'[w].pc = "dropLibrary"
        \/ inv[w].pc \in Trying /\ inv'[w].pc = "failRead"
        \/ inv[w].pc = "failRead" /\ inv'[w].pc = "failWrite"

LEMMA ClaimNextAdvances ==
  ASSUME LeaseInv, NEW w \in Workers, ClaimNext(w)
  PROVE  Advances(w)
<1>0. /\ inv \in [Workers -> Invocation] /\ inv[w] \in Invocation
      /\ inv[w].pc \in Unnamed => inv[w].id = NoItem
      /\ inv[w].pc \in {"claim", "recoverClaim"} => inv[w].id \in Items
      /\ inv[w].pc = "resummarizeClaim" => inv[w].msg.id \in Items
      /\ Idle.pc = "idle"
  BY DEF LeaseInv, WellFormed, TypeOK, LeaseFacts, NoneChosen, NamesItem, Named, Idle
<1>1. \A p : Goto(w, p) => inv'[w].pc = p /\ inv'[w].id = inv[w].id
  BY <1>0 DEF Goto, Become, Invocation
<1>2. CASE Reap(w) \/ FailStranded(w)
  BY <1>1, <1>2 DEF Reap, FailStranded, Advances, Running
<1>3. CASE Select(w)
  <2>1. ASSUME NEW i, Become(w, [inv[w] EXCEPT !.pc = "claim", !.id = i]) PROVE Advances(w)
    <3>1. inv'[w].pc = "claim"
      BY <1>0, <2>1 DEF Become, Invocation
    <3>. QED BY <3>1 DEF Advances, Running
  <2>2. ASSUME Goto(w, "continue") PROVE Advances(w)
    BY <1>0, <1>1, <1>3, <2>2 DEF Advances, Select, At, Unnamed
  <2>. QED BY <1>3, <2>1, <2>2 DEF Select
<1>4. CASE Claim(w)
  <2>1. CASE Claimable(item[inv[w].id])
    BY <1>0, <1>1, <1>4, <2>1 DEF Claim, At, Advances, TakesUp, Claims
  <2>2. CASE ~Claimable(item[inv[w].id])
    <3>. DEFINE p == IF inv[w].tries + 1 < MaxClaimTries THEN "select" ELSE "continue"
                v == [inv[w] EXCEPT !.pc = p, !.id = NoItem, !.tries = @ + 1]
    <3>1. Become(w, v)
      BY <1>4, <2>2 DEF Claim
    <3>2. v.id = NoItem
      BY <1>0 DEF Invocation
    <3>. HIDE DEF v
    <3>. QED BY <1>0, <3>1, <3>2 DEF Become, Advances
  <2>. QED BY <2>1, <2>2
<1>5. CASE Continue(w)
  <2>. DEFINE v == [inv[w] EXCEPT !.pc = "resume", !.tries = 0]
  <2>1. v.pc = "resume" /\ v.id = inv[w].id /\ Idle.pc = "idle"
    BY <1>0 DEF Invocation, Idle
  <2>2. inv'[w] = IF inv[w].id = NoItem THEN Idle ELSE v
    BY <1>0, <1>5 DEF Continue, Become
  <2>. HIDE DEF v
  <2>. QED BY <1>5, <2>1, <2>2 DEF Continue, At, Advances, Running
<1>6. CASE RecoverRead(w)
  <2>. DEFINE i == inv[w].msg.id
              run == HasRunner(i)
              snap == [status |-> item[i].status, startedAt |-> item[i].startedAt,
                       live |-> run]
              stored == i \in transcript
              v == [inv[w] EXCEPT !.pc = "recoverClaim", !.id = i,
                                  !.resume = stored, !.seen = snap]
  <2>1. v.pc = "recoverClaim"
    BY <1>0 DEF Invocation
  <2>2. inv'[w] \in {Idle, v}
    BY <1>0, <1>6 DEF RecoverRead, Become
  <2>. HIDE DEF v
  <2>. QED BY <1>0, <2>1, <2>2 DEF Advances, Running
<1>7. CASE RecoverClaim(w) \/ ResummarizeClaim(w)
  <2>1. CASE \E i \in Items : TakesAgain(w, i)
    <3>1. PICK i \in Items : TakesAgain(w, i)
      BY <2>1
    <3>. QED BY <3>1, TakenAgainRow DEF TakesAgain, TakesUp, Advances
  <2>2. CASE \A i \in Items : ~TakesAgain(w, i)
    <3>1. inv'[w].pc # "pipeline"
      BY <1>0, <1>7, <2>2 DEF RecoverClaim, ResummarizeClaim, At, TakesAgain
    <3>. DEFINE v1 == [inv[w] EXCEPT !.pc = "pipeline", !.seen = NoSnapshot]
                v2 == [inv[w] EXCEPT !.pc = "pipeline", !.id = inv[w].msg.id, !.resume = TRUE]
    <3>2. v1.pc = "pipeline" /\ v2.pc = "pipeline"
      BY <1>0 DEF Invocation
    <3>. HIDE DEF v1, v2
    <3>3. inv'[w] \in {Idle, v1, v2}
      BY <1>0, <1>7 DEF RecoverClaim, ResummarizeClaim, Become, v1, v2
    <3>. QED BY <1>0, <3>1, <3>2, <3>3 DEF Advances, Running
  <2>. QED BY <2>1, <2>2
<1>. QED BY <1>2, <1>3, <1>4, <1>5, <1>6, <1>7 DEF ClaimNext

LEMMA ProcessAdvances ==
  ASSUME LeaseInv, NEW w \in Workers, Process(w)
  PROVE  Advances(w)
<1>0. inv \in [Workers -> Invocation] /\ inv[w] \in Invocation
  BY DEF LeaseInv, WellFormed, TypeOK
<1>1. \A p : Goto(w, p) => inv'[w].pc = p /\ inv'[w].id = inv[w].id
  BY <1>0 DEF Goto, Become, Invocation
<1>2. Become(w, Idle) \/ Return(w) => inv'[w].pc \notin Running
  <2>. DEFINE acked == [Idle EXCEPT !.pc = "ack", !.msg = inv[w].msg]
  <2>1. Idle.pc = "idle" /\ acked.pc = "ack"
    BY DEF Idle
  <2>. HIDE DEF acked
  <2>2. Become(w, Idle) \/ Return(w) => inv'[w] \in {Idle, acked}
    BY <1>0 DEF Become, Return, acked
  <2>. QED BY <2>1, <2>2 DEF Running
<1>3. CASE Resume(w)
  <2>. DEFINE stored == inv[w].id \in transcript
              v == [inv[w] EXCEPT !.pc = "pipeline", !.resume = stored]
  <2>1. v.pc = "pipeline" /\ v.id = inv[w].id
    BY <1>0 DEF Invocation
  <2>2. inv'[w] = v
    BY <1>0, <1>3 DEF Resume, Become
  <2>. HIDE DEF v
  <2>. QED BY <1>3, <2>1, <2>2 DEF Resume, At, Advances
<1>4. CASE RunReturns(w)
  <2>1. PICK p \in {"summary", "markExcluded"} :
          Become(w, [inv[w] EXCEPT !.pc = p, !.resume = FALSE])
    BY <1>4 DEF RunReturns
  <2>2. inv'[w].pc = p /\ inv'[w].id = inv[w].id
    BY <1>0, <2>1 DEF Become, Invocation
  <2>. QED BY <1>4, <2>2 DEF RunReturns, At, Advances
<1>5. CASE PersistSummary(w) \/ DropChunks(w) \/ AddChunks(w) \/ MarkDone(w) \/ MarkExcluded(w)
  BY <1>1, <1>5 DEF PersistSummary, DropChunks, AddChunks, MarkDone, MarkExcluded, Advances
<1>6. CASE FailRead(w)
  <2>. DEFINE stored == inv[w].id \in transcript
              n == item[inv[w].id].retry + 1
              v == [inv[w] EXCEPT !.pc = "failWrite", !.resume = stored, !.attempts = n]
  <2>1. v.pc = "failWrite" /\ v.id = inv[w].id
    BY <1>0 DEF Invocation
  <2>2. inv'[w] = v
    BY <1>0, <1>6 DEF FailRead, Become
  <2>. HIDE DEF v
  <2>. QED BY <1>6, <2>1, <2>2 DEF FailRead, At, Advances
<1>7. CASE MarkLibrary(w) \/ DropLibrary(w) \/ FailWrite(w) \/ Ack(w)
  BY <1>2, <1>7 DEF MarkLibrary, DropLibrary, FailWrite, Throw, Ack, Advances
<1>. QED BY <1>3, <1>4, <1>5, <1>6, <1>7 DEF Process

LEMMA WorkerAdvances ==
  ASSUME LeaseInv, NEW w \in Workers, Worker(w)
  PROVE  /\ Advances(w)
         /\ \A u \in Workers \ {w} : inv'[u] = inv[u]
<1>0. inv \in [Workers -> Invocation] /\ inv[w] \in Invocation
  BY DEF LeaseInv, WellFormed, TypeOK
<1>1. \A u \in Workers \ {w} : inv'[u] = inv[u]
  BY <1>0 DEF Worker, ClaimNext, Process, CronPump, Deliver, Reap, FailStranded, Select,
              Claim, Continue, RecoverRead, RecoverClaim, ResummarizeClaim, Resume,
              RunReturns, PersistSummary, DropChunks, AddChunks, MarkDone, MarkLibrary,
              MarkExcluded, DropLibrary, FailRead, FailWrite, Ack, Heartbeat,
              PartialTranscript, Fails, Crash, Become, Goto, Return, Throw
<1>2. CASE CronPump(w)
  <2>1. inv'[w].pc = "reap"
    BY <1>0, <1>2 DEF CronPump, Become, Invocation
  <2>. QED BY <1>1, <2>1 DEF Advances, Running
<1>3. ASSUME NEW m \in queue, Deliver(w, m) PROVE Advances(w)
  <2>1. inv'[w].pc = EntryPoint(m)
    BY <1>0, <1>3 DEF Deliver, Become, Idle
  <2>. QED BY <2>1 DEF EntryPoint, Advances, Running
<1>4. CASE Heartbeat(w) \/ PartialTranscript(w)
  BY <1>1, <1>4 DEF Heartbeat, PartialTranscript, Advances
<1>5. CASE Fails(w)
  <2>1. PICK kind : Become(w, [inv[w] EXCEPT !.pc = "failRead", !.failure = kind, !.resume = FALSE])
    BY <1>5 DEF Fails
  <2>2. inv'[w].pc = "failRead" /\ inv'[w].id = inv[w].id
    BY <1>0, <2>1 DEF Become, Invocation
  <2>. QED BY <1>1, <1>5, <2>2 DEF Fails, Advances
<1>6. CASE Crash(w)
  BY <1>0, <1>1, <1>6 DEF Crash, Throw, Become, Idle, Advances, Running
<1>. QED BY <1>1, <1>2, <1>3, <1>4, <1>5, <1>6, ClaimNextAdvances, ProcessAdvances DEF Worker

LEMMA EnvironmentStays ==
  ASSUME Environment \/ UNCHANGED vars
  PROVE  inv' = inv /\ summary' = summary /\ chunks' = chunks
BY DEF Environment, vars, rows, CronSweep, AgeLease, AgeProgress, Retry, Regenerate,
       RepairSummary, Nudge

-----------------------------------------------------------------------------
(* Which steps write a row *)

\* One step's effect on the row of item i: its own run, a claim of a claimable
\* row, the reaper, the sweep and time write it quietly; beside these, a
\* redelivery takes it again and a request resets it.
ClaimsRow(i) ==
  /\ Claimable(item[i]) /\ item[i].status \in InProgress \cup {"queued"}
  /\ \E t \in Stamps :
       item'[i] = ClaimedRow(item[i], t, IF item[i].status = "queued" THEN item[i].retry
                                         ELSE item[i].retry + 1)
ReapsRow(i) ==
  Silent(item[i]) /\ item'[i] = WaitingRow(item[i].status, item[i].retry + 1)
StrandsRow(i) ==
  /\ Strandable(item[i]) /\ item'[i] = FinishedRow(item[i], "error", item[i].retry)
  /\ \A w \in Workers : inv'[w] # inv[w] => inv[w].pc = "strand"
AgesRow(i) ==
  \/ item'[i] = [item[i] EXCEPT !.aged = TRUE]
  \/ item'[i] = [item[i] EXCEPT !.progress = "old"]
ReportsOn(w, i) ==
  /\ inv[w].pc = "pipeline"
  /\ \E s \in InProgress : item'[i] = [item[i] EXCEPT !.status = s, !.progress = "fresh"]
FinishesRow(w, i) ==
  \/ MarkDone(w) /\ item'[i] = FinishedRow(item[i], "done", item[i].retry)
  \/ item'[i] = [item[i] EXCEPT !.status = "excluded", !.retry = MaxReclaim]
SendsBack(w, i) ==
  /\ inv'[w].pc \notin Running
  /\ \/ \E s \in {"summarizing", "queued"} :
          \/ item'[i] = WaitingRow(s, item[i].retry)
          \/ item'[i] = WaitingRow(s, inv[w].attempts) /\ inv[w].attempts < MaxRetries
     \/ item'[i] = FinishedRow(item[i], "error", item[i].retry + 1)
OwnRowStep(i) ==
  \E w \in Workers :
    Runs(w, i) /\ (ReportsOn(w, i) \/ FinishesRow(w, i) \/ SendsBack(w, i))
QuietStep(i) ==
  \/ item'[i] = item[i]
  \/ ClaimsRow(i) \/ ReapsRow(i) \/ StrandsRow(i) \/ AgesRow(i)
  \/ OwnRowStep(i)
TakenAgain(i) ==
  /\ \E t \in Stamps : \E s \in {"fetching", "summarizing"} :
       item'[i] = [ClaimedRow(item[i], t, item[i].retry) EXCEPT !.status = s]
  /\ revivals'[i] = Revived(i)
Requested(i) ==
  \/ \E s \in {"queued", "summarizing"} : item'[i] = WaitingRow(s, 0)
  \/ item'[i] = [item[i] EXCEPT !.status = "summarizing"] /\ revivals'[i] = Revived(i)
RowStep(i) ==
  \/ QuietStep(i) /\ revivals'[i] = revivals[i]
  \/ TakenAgain(i) \/ Requested(i)

LEMMA ClaimNextRowStep ==
  ASSUME LeaseInv, NEW w \in Workers, ClaimNext(w), NEW i \in Items, ~TakesAgain(w, i)
  PROVE  QuietStep(i)
<1>0. /\ item \in [Items -> Row] /\ item[i] \in Row
      /\ inv \in [Workers -> Invocation] /\ inv[w] \in Invocation
      /\ inv[w].pc = "claim" => inv[w].id \in Items
  BY DEF LeaseInv, WellFormed, TypeOK, NamesItem, Named
<1>1. CASE Reap(w)
  BY <1>0, <1>1 DEF Reap, QuietStep, ReapsRow
<1>2. CASE FailStranded(w)
  <2>1. \A u \in Workers : inv'[u] # inv[u] => inv[u].pc = "strand"
    BY <1>0, <1>2 DEF FailStranded, At, Goto, Become
  <2>. QED BY <1>0, <1>2, <2>1 DEF FailStranded, StrandAll, QuietStep, StrandsRow
<1>3. CASE Claim(w)
  <2>. DEFINE j == inv[w].id
              n == IF item[j].status = "queued" THEN item[j].retry ELSE item[j].retry + 1
  <2>1. CASE Claimable(item[j])
    <3>1. Now(w, j) \in Stamps /\ item' = [item EXCEPT ![j] = ClaimedRow(item[j], Now(w, j), n)]
      BY <1>3, <2>1, NowLater DEF Claim
    <3>2. CASE i = j
      <4>1. item'[i] = ClaimedRow(item[j], Now(w, j), n)
        BY <1>0, <3>1, <3>2
      <4>2. item[i].status \in InProgress \cup {"queued"}
        BY <2>1, <3>2 DEF Claimable
      <4>. QED BY <2>1, <3>1, <3>2, <4>1, <4>2 DEF QuietStep, ClaimsRow
    <3>3. CASE i # j
      BY <1>0, <3>1, <3>3 DEF QuietStep
    <3>. QED BY <3>2, <3>3
  <2>2. CASE ~Claimable(item[j])
    BY <1>3, <2>2 DEF Claim, QuietStep
  <2>. QED BY <2>1, <2>2
<1>4. CASE Select(w) \/ Continue(w) \/ RecoverRead(w)
  BY <1>4 DEF Select, Continue, RecoverRead, rows, QuietStep
<1>5. CASE RecoverClaim(w)
  <2>. DEFINE v == [inv[w] EXCEPT !.pc = "pipeline", !.seen = NoSnapshot]
  <2>1. v.pc = "pipeline"
    BY <1>0 DEF Invocation
  <2>. HIDE DEF v
  <2>2. Become(w, v) => inv'[w].pc = "pipeline"
    BY <1>0, <2>1 DEF Become
  <2>3. item' = item \/ (Become(w, v) /\ \E r : item' = [item EXCEPT ![inv[w].id] = r])
    BY <1>5 DEF RecoverClaim, v
  <2>4. inv'[w].pc = "pipeline" => inv[w].id # i
    BY <1>5 DEF TakesAgain
  <2>. QED BY <1>0, <2>2, <2>3, <2>4 DEF QuietStep
<1>6. CASE ResummarizeClaim(w)
  <2>. DEFINE v == [inv[w] EXCEPT !.pc = "pipeline", !.id = inv[w].msg.id, !.resume = TRUE]
  <2>1. v.pc = "pipeline"
    BY <1>0 DEF Invocation
  <2>. HIDE DEF v
  <2>2. Become(w, v) => inv'[w].pc = "pipeline"
    BY <1>0, <2>1 DEF Become
  <2>3. item' = item \/ (Become(w, v) /\ \E r : item' = [item EXCEPT ![inv[w].msg.id] = r])
    BY <1>6 DEF ResummarizeClaim, v
  <2>4. inv'[w].pc = "pipeline" => inv[w].msg.id # i
    BY <1>6 DEF TakesAgain
  <2>. QED BY <1>0, <2>2, <2>3, <2>4 DEF QuietStep
<1>. QED BY <1>1, <1>2, <1>3, <1>4, <1>5, <1>6 DEF ClaimNext

LEMMA ProcessRowStep ==
  ASSUME LeaseInv, NEW w \in Workers, Process(w), NEW i \in Items
  PROVE  QuietStep(i)
<1>0. /\ item \in [Items -> Row] /\ item[i] \in Row /\ inv[w] \in Invocation
      /\ inv \in [Workers -> Invocation]
      /\ inv[w].pc \in Running \ {"continue"} => inv[w].id \in Items
  BY DEF LeaseInv, WellFormed, TypeOK, NamesItem, Named
<1>1. CASE MarkDone(w)
  BY <1>0, <1>1 DEF MarkDone, At, QuietStep, OwnRowStep, FinishesRow, Runs, Running
<1>2. CASE MarkExcluded(w)
  BY <1>0, <1>2 DEF MarkExcluded, At, QuietStep, OwnRowStep, FinishesRow, Runs, Running
<1>3. CASE FailWrite(w)
  <2>. DEFINE j == inv[w].id
              s == IF inv[w].resume THEN "summarizing" ELSE "queued"
  <2>1. CASE i = j
    <3>1. Runs(w, i)
      BY <1>3, <2>1 DEF FailWrite, At, Runs, Running
    <3>2. inv'[w].pc \notin Running
      <4>. DEFINE acked == [Idle EXCEPT !.pc = "ack", !.msg = inv[w].msg]
      <4>1. Idle.pc = "idle" /\ acked.pc = "ack"
        BY DEF Idle
      <4>2. inv' = [inv EXCEPT ![w] = Idle] \/ inv' = [inv EXCEPT ![w] = acked]
        BY <1>3 DEF FailWrite, Throw, Return, Become
      <4>. HIDE DEF acked
      <4>. QED BY <1>0, <4>1, <4>2 DEF Running
    <3>3. \/ item'[i] = WaitingRow(s, item[i].retry)
          \/ item'[i] = WaitingRow(s, inv[w].attempts) /\ inv[w].attempts < MaxRetries
          \/ item'[i] = FinishedRow(item[i], "error", item[i].retry + 1)
      BY <1>0, <1>3, <2>1 DEF FailWrite
    <3>4. s \in {"summarizing", "queued"}
      OBVIOUS
    <3>. HIDE DEF s
    <3>. QED BY <3>1, <3>2, <3>3, <3>4 DEF QuietStep, OwnRowStep, SendsBack
  <2>2. CASE i # j
    BY <1>0, <1>3, <2>2 DEF FailWrite, QuietStep
  <2>. QED BY <2>1, <2>2
<1>. QED BY <1>1, <1>2, <1>3
         DEF Process, Resume, RunReturns, PersistSummary, DropChunks, AddChunks, MarkLibrary,
             DropLibrary, FailRead, Ack, rows, QuietStep

LEMMA WorkerRowStep ==
  ASSUME LeaseInv, NEW w \in Workers, Worker(w), NEW i \in Items, ~TakesAgain(w, i)
  PROVE  QuietStep(i)
<1>0. /\ item \in [Items -> Row] /\ item[i] \in Row
      /\ inv[w].pc = "pipeline" => inv[w].id \in Items
  BY DEF LeaseInv, WellFormed, TypeOK, NamesItem, Named, Running
<1>1. CASE Heartbeat(w)
  <2>1. PICK s \in InProgress :
          item' = [item EXCEPT ![inv[w].id] =
                     [item[inv[w].id] EXCEPT !.status = s, !.progress = "fresh"]]
    BY <1>1, NullAssumption DEF Heartbeat, InProgress
  <2>. QED BY <1>0, <1>1, <2>1
           DEF Heartbeat, At, QuietStep, OwnRowStep, ReportsOn, Runs, Running
<1>. QED BY <1>1, ClaimNextRowStep, ProcessRowStep
         DEF Worker, CronPump, Deliver, PartialTranscript, Fails, Crash, rows, QuietStep

LEMMA EnvironmentRowStep ==
  ASSUME LeaseInv, NEW i \in Items,
         CronSweep \/ \E j \in Items : AgeLease(j) \/ AgeProgress(j) \/ Nudge(j)
  PROVE  QuietStep(i) /\ UNCHANGED <<disturbed, revivals>>
<1>. USE DEF marks
<1>0. item \in [Items -> Row] /\ item[i] \in Row
  BY DEF LeaseInv, WellFormed, TypeOK
<1>1. CASE CronSweep
  BY <1>0, <1>1 DEF CronSweep, StrandAll, QuietStep, StrandsRow
<1>2. ASSUME NEW j \in Items, AgeLease(j) \/ AgeProgress(j)
      PROVE  QuietStep(i) /\ UNCHANGED <<disturbed, revivals>>
  BY <1>0, <1>2 DEF AgeLease, AgeProgress, QuietStep, AgesRow
<1>3. ASSUME NEW j \in Items, Nudge(j)
      PROVE  QuietStep(i) /\ UNCHANGED <<disturbed, revivals>>
  BY <1>3 DEF Nudge, rows, QuietStep
<1>. QED BY <1>1, <1>2, <1>3

\* A request resets one row, and disturbs the run it meets.
Resets(j) == Retry(j) \/ Regenerate(j) \/ RepairSummary(j)
LEMMA ResetRow ==
  ASSUME LeaseInv, NEW j \in Items, Resets(j)
  PROVE  /\ inv' = inv /\ Disturb(j) /\ requests' = requests + 1
         /\ item'[j].status \in {"queued", "summarizing"} /\ Requested(j)
         /\ \A i \in Items \ {j} : item'[i] = item[i] /\ revivals'[i] = revivals[i]
<1>0. /\ item \in [Items -> Row] /\ item[j] \in Row
      /\ revivals \in [Items -> Nat]
  BY DEF LeaseInv, WellFormed, TypeOK
<1>1. inv' = inv /\ Disturb(j) /\ requests' = requests + 1
  BY DEF Resets, Retry, Regenerate, RepairSummary, Request
<1>2. CASE Retry(j) \/ Regenerate(j)
  <2>1. PICK s \in {"queued", "summarizing"} : item' = [item EXCEPT ![j] = WaitingRow(s, 0)]
    BY <1>2 DEF Retry, Regenerate
  <2>2. revivals' = [revivals EXCEPT ![j] = 0]
    BY <1>2 DEF Retry, Regenerate
  <2>. QED BY <1>0, <1>1, <2>1, <2>2, RowsStatus DEF Requested
<1>3. CASE RepairSummary(j)
  <2>1. item' = [item EXCEPT ![j] = [item[j] EXCEPT !.status = "summarizing"]] /\ CountRevival(j)
    BY <1>3 DEF RepairSummary
  <2>. QED BY <1>0, <1>1, <2>1 DEF Requested, Revived, CountRevival, Row
<1>. QED BY <1>2, <1>3 DEF Resets

LEMMA NextRowStep ==
  ASSUME LeaseInv, [Next]_vars, NEW i \in Items
  PROVE  RowStep(i)
<1>0. item \in [Items -> Row] /\ revivals \in [Items -> Nat]
  BY DEF LeaseInv, WellFormed, TypeOK
<1>1. ASSUME NEW w \in Workers, Worker(w) PROVE RowStep(i)
  <2>1. ASSUME NEW j \in Items, TakesAgain(w, j) PROVE RowStep(i)
    <3>1. PICK t \in Stamps, s \in {"fetching", "summarizing"} :
            item' = [item EXCEPT ![j] =
                       [ClaimedRow(item[j], t, item[j].retry) EXCEPT !.status = s]]
      BY <2>1, TakenAgainRow
    <3>2. CountRevival(j)
      BY <2>1, TakenAgainRow
    <3>. DEFINE r == [ClaimedRow(item[j], t, item[j].retry) EXCEPT !.status = s]
    <3>3. item' = [item EXCEPT ![j] = r]
      BY <3>1
    <3>4. CASE i = j
      <4>1. item'[i] = r
        BY <1>0, <3>3, <3>4
      <4>2. revivals'[i] = Revived(i)
        BY <1>0, <3>2, <3>4 DEF CountRevival, Revived
      <4>. QED BY <3>4, <4>1, <4>2 DEF RowStep, TakenAgain
    <3>5. CASE i # j
      <4>1. item'[i] = item[i]
        BY <1>0, <3>3, <3>5
      <4>2. revivals'[i] = revivals[i]
        BY <1>0, <3>2, <3>5 DEF CountRevival
      <4>. QED BY <4>1, <4>2 DEF RowStep, QuietStep
    <3>. QED BY <3>4, <3>5
  <2>2. CASE \A j \in Items : ~TakesAgain(w, j)
    BY <1>1, <2>2, WorkerRowStep, MarksKept DEF RowStep
  <2>. QED BY <2>1, <2>2
<1>2. CASE Environment
  <2>1. CASE CronSweep \/ \E j \in Items : AgeLease(j) \/ AgeProgress(j) \/ Nudge(j)
    BY <2>1, EnvironmentRowStep DEF RowStep
  <2>2. ASSUME NEW j \in Items, Resets(j) PROVE RowStep(i)
    BY <2>2, ResetRow DEF RowStep, QuietStep
  <2>. QED BY <1>2, <2>1, <2>2 DEF Environment, Resets
<1>. QED BY <1>1, <1>2 DEF Next, vars, RowStep, QuietStep

-----------------------------------------------------------------------------
(* Attempts are bounded *)

LEMMA DisturbedGrows ==
  ASSUME LeaseInv, [Next]_vars
  PROVE  disturbed \subseteq disturbed'
<1>1. ASSUME NEW w \in Workers, Worker(w) PROVE disturbed \subseteq disturbed'
  <2>1. ASSUME NEW i \in Items, TakesAgain(w, i) PROVE disturbed \subseteq disturbed'
    BY <2>1, TakenAgainRow DEF Disturb
  <2>. QED BY <1>1, <2>1, MarksKept
<1>2. CASE Environment
  <2>1. CASE CronSweep \/ \E j \in Items : AgeLease(j) \/ AgeProgress(j) \/ Nudge(j)
    BY <2>1 DEF CronSweep, AgeLease, AgeProgress, Nudge, marks
  <2>2. ASSUME NEW j \in Items, Resets(j) PROVE disturbed \subseteq disturbed'
    BY <2>2, ResetRow DEF Disturb
  <2>. QED BY <1>2, <2>1, <2>2 DEF Environment, Resets
<1>. QED BY <1>1, <1>2 DEF Next, vars

\* RetryBudget is not inductive: the reaper and a failed run count one more
\* attempt on a leased row, so a row that is leased, or may be leased by its
\* next claim, must be one attempt below the bound.
LeasedBudget ==
  \A i \in Items \ disturbed :
    item[i].status # "error" /\ (Leased(item[i]) \/ item[i].status = "queued")
      => item[i].retry <= MaxRetries + revivals[i]
BudgetInv == LeaseInv /\ RetryBudget /\ LeasedBudget

Bounded(s, n) ==
  /\ s.retry <= MaxRetries + 1 + n
  /\ s.status # "error" /\ (Leased(s) \/ s.status = "queued") => s.retry <= MaxRetries + n

\* A step of the run, a claim, the reaper, the sweep or time keeps the bound.
LEMMA QuietBudget ==
  ASSUME BudgetInv, NEW i \in Items \ disturbed, QuietStep(i)
  PROVE  Bounded(item'[i], revivals[i])
<1>. DEFINE r == item[i]
            n == revivals[i]
<1>0. /\ r \in Row /\ r.retry \in Nat /\ n \in Nat /\ Bounded(r, n)
      /\ MaxRetries \in Nat /\ MaxReclaim \in Nat /\ MaxReclaim < MaxRetries
  BY BudgetAssumption
     DEF BudgetInv, LeaseInv, WellFormed, TypeOK, RetryBudget, LeasedBudget, Row, Bounded
<1>1. CASE ClaimsRow(i)
  <2>1. PICK t \in Stamps :
          item'[i] = ClaimedRow(r, t, IF r.status = "queued" THEN r.retry ELSE r.retry + 1)
    BY <1>1 DEF ClaimsRow
  <2>2. item'[i].retry = IF r.status = "queued" THEN r.retry ELSE r.retry + 1
    BY <1>0, <2>1 DEF ClaimedRow, Row
  <2>3. r.status # "queued" => r.retry < MaxRetries
    BY <1>0, <1>1 DEF ClaimsRow, Claimable
  <2>. QED BY <1>0, <2>2, <2>3 DEF Bounded
<1>2. CASE ReapsRow(i)
  <2>1. r.retry <= MaxRetries + n
    BY <1>0, <1>2 DEF ReapsRow, Silent, InProgress, Bounded
  <2>2. item'[i].retry = r.retry + 1 /\ ~Leased(item'[i]) /\ item'[i].status # "queued"
    BY <1>2 DEF ReapsRow, WaitingRow, Leased, Silent, InProgress
  <2>. QED BY <1>0, <2>1, <2>2 DEF Bounded
<1>3. CASE StrandsRow(i)
  <2>1. item'[i].retry = r.retry /\ item'[i].status = "error"
    BY <1>0, <1>3 DEF StrandsRow, FinishedRow, Row
  <2>. QED BY <1>0, <2>1 DEF Bounded
<1>4. CASE AgesRow(i)
  <2>1. item'[i].retry = r.retry /\ item'[i].status = r.status
        /\ item'[i].startedAt = r.startedAt
    BY <1>0, <1>4 DEF AgesRow, Row
  <2>. QED BY <1>0, <2>1 DEF Bounded, Leased
<1>5. CASE OwnRowStep(i)
  <2>1. PICK w \in Workers :
          Runs(w, i) /\ (ReportsOn(w, i) \/ FinishesRow(w, i) \/ SendsBack(w, i))
    BY <1>5 DEF OwnRowStep
  <2>2. r.retry <= MaxRetries + n
    BY <1>0, <2>1 DEF BudgetInv, LeaseInv, LeaseFacts, RunnersHold, Held, InProgress, Bounded
  <2>3. CASE ReportsOn(w, i)
    <3>1. item'[i].retry = r.retry
      BY <1>0, <2>3 DEF ReportsOn, Row
    <3>. QED BY <1>0, <2>2, <3>1 DEF Bounded
  <2>4. CASE FinishesRow(w, i)
    <3>1. item'[i].retry = r.retry \/ item'[i].retry = MaxReclaim
      BY <1>0, <2>4 DEF FinishesRow, FinishedRow, Row
    <3>. QED BY <1>0, <2>2, <3>1 DEF Bounded
  <2>5. CASE SendsBack(w, i)
    <3>1. ASSUME NEW s, item'[i] = WaitingRow(s, r.retry) PROVE Bounded(item'[i], n)
      BY <1>0, <2>2, <3>1 DEF WaitingRow, Bounded
    <3>2. ASSUME NEW s, item'[i] = WaitingRow(s, inv[w].attempts), inv[w].attempts < MaxRetries
          PROVE  Bounded(item'[i], n)
      <4>1. item'[i].retry = inv[w].attempts /\ inv[w].attempts \in Nat
        BY <3>2 DEF WaitingRow, BudgetInv, LeaseInv, WellFormed, TypeOK, Invocation
      <4>. QED BY <1>0, <3>2, <4>1 DEF Bounded
    <3>3. CASE item'[i] = FinishedRow(r, "error", r.retry + 1)
      <4>1. item'[i].retry = r.retry + 1 /\ item'[i].status = "error"
        BY <1>0, <3>3 DEF FinishedRow, Row
      <4>. QED BY <1>0, <2>2, <4>1 DEF Bounded
    <3>. QED BY <2>5, <3>1, <3>2, <3>3 DEF SendsBack
  <2>. QED BY <2>1, <2>3, <2>4, <2>5
<1>6. CASE item'[i] = item[i]
  BY <1>0, <1>6
<1>. QED BY <1>1, <1>2, <1>3, <1>4, <1>5, <1>6 DEF QuietStep

LEMMA BudgetStep ==
  ASSUME BudgetInv, LeaseInv', [Next]_vars, NEW i \in Items \ disturbed'
  PROVE  Bounded(item'[i], revivals'[i])
<1>. DEFINE r == item[i]
            n == revivals[i]
<1>0. i \in Items \ disturbed
  BY DisturbedGrows DEF BudgetInv
<1>1. /\ r \in Row /\ r.retry \in Nat /\ n \in Nat /\ Bounded(r, n)
      /\ MaxRetries \in Nat /\ revivals'[i] \in Nat
  BY <1>0, BudgetAssumption
     DEF BudgetInv, LeaseInv, WellFormed, TypeOK, RetryBudget, LeasedBudget, Row, Bounded
<1>2. CASE QuietStep(i) /\ revivals'[i] = n
  BY <1>0, <1>2, QuietBudget
<1>3. ASSUME item'[i].retry = r.retry, revivals'[i] = Revived(i)
      PROVE  Bounded(item'[i], revivals'[i])
  BY <1>1, <1>3 DEF Bounded, Revived
<1>4. CASE TakenAgain(i)
  <2>1. item'[i].retry = r.retry
    BY <1>1, <1>4 DEF TakenAgain, ClaimedRow, Row
  <2>. QED BY <1>3, <1>4, <2>1 DEF TakenAgain
<1>5. CASE Requested(i)
  <2>1. ASSUME NEW s, item'[i] = WaitingRow(s, 0) PROVE Bounded(item'[i], revivals'[i])
    BY <1>1, <2>1 DEF WaitingRow, Bounded
  <2>2. CASE item'[i] = [r EXCEPT !.status = "summarizing"] /\ revivals'[i] = Revived(i)
    <3>1. item'[i].retry = r.retry
      BY <1>1, <2>2 DEF Row
    <3>. QED BY <1>3, <2>2, <3>1
  <2>. QED BY <1>5, <2>1, <2>2 DEF Requested
<1>. QED BY <1>2, <1>4, <1>5, NextRowStep DEF RowStep, BudgetInv

\* However often a message is redelivered and whatever users and admins ask
\* for, an item whose runs were not disturbed counts no more than
\* MAX_RETRIES + 1 attempts, and one for each time its budget was ignored.
THEOREM RetryBudgetAlways == Spec => []RetryBudget
<1>1. Init => BudgetInv
  <2> SUFFICES ASSUME Init PROVE RetryBudget /\ LeasedBudget
    BY InitLease DEF BudgetInv
  <2>. QED BY BudgetAssumption DEF Init, FreshRow, RetryBudget, LeasedBudget
<1>2. BudgetInv /\ [Next]_vars => BudgetInv'
  <2> SUFFICES ASSUME BudgetInv, [Next]_vars PROVE BudgetInv'
    OBVIOUS
  <2>1. LeaseInv'
    BY LeaseInvStep DEF BudgetInv
  <2>2. \A i \in Items \ disturbed' : Bounded(item'[i], revivals'[i])
    BY <2>1, BudgetStep
  <2>. QED BY <2>1, <2>2 DEF BudgetInv, RetryBudget, LeasedBudget, Bounded, Leased
<1>3. BudgetInv => RetryBudget
  BY DEF BudgetInv
<1>. QED BY <1>1, <1>2, <1>3, PTL DEF Spec

-----------------------------------------------------------------------------
(* The index of a finished item *)

\* A run's item is not done before it marks it done, and from the upsert of
\* the summary to that point the index holds what the run has written.
BeforeDone ==
  {"continue", "resume", "pipeline", "summary", "dropChunks", "addChunks", "markDone"}
NotYetDone ==
  \A i \in Items \ disturbed : \A w \in Workers :
    Runs(w, i) /\ inv[w].pc \in BeforeDone => item[i].status # "done"
IndexWritten ==
  \A i \in Items \ disturbed : \A w \in Workers : Runs(w, i) =>
    /\ inv[w].pc \in {"dropChunks", "addChunks", "markDone"} => summary[i] = w
    /\ inv[w].pc = "addChunks" => chunks[i] = {}
    /\ inv[w].pc = "markDone" => chunks[i] = {w}
\* Whoever runs a done item has nothing to write but its library rows.
IndexKept ==
  \A i \in Items \ disturbed : item[i].status = "done" => chunks[i] = {summary[i]}

IndexInv == LeaseInv /\ NotYetDone /\ IndexWritten /\ IndexKept

WritesIndex(w, i) ==
  /\ inv[w].id = i
  /\ \/ PersistSummary(w) /\ summary'[i] = w /\ chunks'[i] = chunks[i]
     \/ DropChunks(w) /\ summary'[i] = summary[i] /\ chunks'[i] = {}
     \/ AddChunks(w) /\ summary'[i] = summary[i] /\ chunks'[i] = chunks[i] \cup {w}

LEMMA IndexWriters ==
  ASSUME LeaseInv, [Next]_vars, NEW i \in Items
  PROVE  \/ summary'[i] = summary[i] /\ chunks'[i] = chunks[i]
         \/ \E w \in Workers : WritesIndex(w, i)
<1>0. summary \in [Items -> Workers \cup {NoWorker}] /\ chunks \in [Items -> SUBSET Workers]
  BY DEF LeaseInv, WellFormed, TypeOK
<1>1. ASSUME NEW w \in Workers, PersistSummary(w) \/ DropChunks(w) \/ AddChunks(w)
      PROVE  WritesIndex(w, i) \/ (summary'[i] = summary[i] /\ chunks'[i] = chunks[i])
  BY <1>0, <1>1 DEF PersistSummary, DropChunks, AddChunks, WritesIndex
<1>2. ASSUME NEW w \in Workers, Worker(w), ~PersistSummary(w), ~DropChunks(w), ~AddChunks(w)
      PROVE  summary' = summary /\ chunks' = chunks
  BY <1>2 DEF Worker, ClaimNext, Process, CronPump, Deliver, Reap, FailStranded, Select, Claim,
              Continue, RecoverRead, RecoverClaim, ResummarizeClaim, Resume, RunReturns,
              MarkDone, MarkLibrary, MarkExcluded, DropLibrary, FailRead, FailWrite, Ack,
              Heartbeat, PartialTranscript, Fails, Crash, rows
<1>. QED BY <1>1, <1>2, EnvironmentStays DEF Next

LEMMA TakenUpStatus ==
  ASSUME LeaseInv, NEW w \in Workers, NEW i \in Items, TakesUp(w, i)
  PROVE  item'[i].status \in {"fetching", "summarizing"}
<1>0. item \in [Items -> Row] /\ item[i] \in Row
  BY DEF LeaseInv, WellFormed, TypeOK
<1>1. CASE Claims(w, i)
  <2>. DEFINE n == IF item[i].status = "queued" THEN item[i].retry ELSE item[i].retry + 1
  <2>1. item' = [item EXCEPT ![i] = ClaimedRow(item[i], Now(w, i), n)]
    BY <1>1 DEF Claims, Claim
  <2>. HIDE DEF n
  <2>. QED BY <1>0, <2>1, RowsStatus
<1>2. CASE TakesAgain(w, i)
  <2>1. PICK t \in Stamps, s \in {"fetching", "summarizing"} :
          item' = [item EXCEPT ![i] =
                     [ClaimedRow(item[i], t, item[i].retry) EXCEPT !.status = s]]
    BY <1>2, TakenAgainRow
  <2>2. [ClaimedRow(item[i], t, item[i].retry) EXCEPT !.status = s].status = s
    BY <1>0, RowsStatus
  <2>. QED BY <1>0, <2>1, <2>2
<1>. QED BY <1>1, <1>2 DEF TakesUp

LEMMA IndexStep ==
  ASSUME IndexInv, [Next]_vars
  PROVE  NotYetDone' /\ IndexWritten' /\ IndexKept'
<1>0. LeaseInv /\ NotYetDone /\ IndexWritten /\ IndexKept /\ OneRunner /\ WellFormed
      /\ inv \in [Workers -> Invocation] /\ item \in [Items -> Row]
      /\ disturbed \subseteq disturbed'
  BY DisturbedGrows DEF IndexInv, LeaseInv, LeaseFacts, WellFormed, TypeOK
<1>1. ASSUME NEW w \in Workers PROVE Advances(w)
  <2>1. CASE \E u \in Workers : Worker(u)
    BY <1>0, <2>1, WorkerAdvances DEF Advances
  <2>2. CASE Environment \/ UNCHANGED vars
    BY <2>2, EnvironmentStays DEF Advances
  <2>. QED BY <2>1, <2>2 DEF Next
<1>2. ASSUME NEW w \in Workers, MarkDone(w)
      PROVE  inv[w].pc = "markDone" /\ inv'[w].pc = "markLibrary"
  BY <1>0, <1>2 DEF MarkDone, At, Goto, Become, Invocation
<1>3. ASSUME NEW w \in Workers
      PROVE  /\ DropChunks(w) => inv[w].pc = "dropChunks" /\ inv'[w].pc = "addChunks"
             /\ AddChunks(w) => inv[w].pc = "addChunks" /\ inv'[w].pc = "markDone"
             /\ PersistSummary(w) => inv[w].pc = "summary" /\ inv'[w].pc = "dropChunks"
  BY <1>0 DEF PersistSummary, DropChunks, AddChunks, At, Goto, Become, Invocation
<1>4. ASSUME NEW i \in Items, NEW w \in Workers, WritesIndex(w, i)
      PROVE  Runs(w, i) /\ inv[w].pc \in {"summary", "dropChunks", "addChunks"}
  BY <1>3, <1>4 DEF WritesIndex, Runs, Running
\* A run is not done before its own markItemDone.
<1>5. ASSUME NEW i \in Items \ disturbed', NEW w \in Workers, Runs(w, i)',
             inv'[w].pc \in BeforeDone
      PROVE  item'[i].status # "done"
  <2>1. ASSUME NEW j \in Items, TakesUp(w, j), inv'[w].id = j PROVE item'[i].status # "done"
    <3>1. j = i
      BY <1>5, <2>1 DEF Runs
    <3>. QED BY <1>0, <2>1, <3>1, TakenUpStatus
  <2>2. CASE Runs(w, i) /\ inv[w].pc \in BeforeDone
    <3>1. item[i].status # "done"
      BY <1>0, <2>2 DEF NotYetDone
    <3>2. ASSUME item'[i].status = "done" PROVE FALSE
      <4>1. PICK u \in Workers : MarkDone(u) /\ inv[u].id = i
        BY <1>0, <3>1, <3>2, DoneOnlyByMarkDone
      <4>2. u = w
        BY <1>0, <1>2, <2>2, <4>1 DEF OneRunner, Runs, Running
      <4>. QED BY <1>2, <1>5, <4>1, <4>2 DEF BeforeDone
    <3>. QED BY <3>2
  <2>. QED BY <1>1, <1>3, <1>5, <2>1, <2>2, NullAssumption
           DEF Advances, Runs, BeforeDone, Running
\* What a run has written stays until it goes on: nobody else writes the index.
<1>6. ASSUME NEW i \in Items \ disturbed', NEW w \in Workers, Runs(w, i)',
             inv'[w].pc \in {"dropChunks", "addChunks", "markDone"}
      PROVE  /\ summary'[i] = w
             /\ inv'[w].pc = "addChunks" => chunks'[i] = {}
             /\ inv'[w].pc = "markDone" => chunks'[i] = {w}
  <2>1. ASSUME NEW u \in Workers, WritesIndex(u, i), Runs(w, i) PROVE u = w
    BY <1>0, <1>4, <2>1 DEF OneRunner
  <2>2. CASE inv'[w] = inv[w]
    <3>1. Runs(w, i) /\ inv[w].pc \in {"dropChunks", "addChunks", "markDone"}
      BY <1>6, <2>2 DEF Runs
    <3>2. ~WritesIndex(w, i)
      BY <1>3, <2>2, <3>1 DEF WritesIndex
    <3>3. summary'[i] = summary[i] /\ chunks'[i] = chunks[i]
      BY <1>0, <2>1, <3>1, <3>2, IndexWriters
    <3>. QED BY <1>0, <2>2, <3>1, <3>3 DEF IndexWritten
  <2>3. CASE inv'[w].id = inv[w].id /\ (PersistSummary(w) \/ DropChunks(w) \/ AddChunks(w))
    <3>1. inv[w].id = i /\ Runs(w, i)
      BY <1>3, <1>6, <2>3 DEF Runs, Running
    <3>2. WritesIndex(w, i)
      <4>1. summary \in [Items -> Workers \cup {NoWorker}] /\ chunks \in [Items -> SUBSET Workers]
        BY <1>0 DEF WellFormed, TypeOK
      <4>. QED BY <2>3, <3>1, <4>1 DEF WritesIndex, PersistSummary, DropChunks, AddChunks
    <3>3. CASE PersistSummary(w)
      BY <1>3, <3>2, <3>3 DEF WritesIndex
    <3>4. CASE DropChunks(w)
      BY <1>0, <1>3, <3>1, <3>2, <3>4 DEF WritesIndex, IndexWritten
    <3>5. CASE AddChunks(w)
      BY <1>0, <1>3, <3>1, <3>2, <3>5 DEF WritesIndex, IndexWritten
    <3>. QED BY <2>3, <3>3, <3>4, <3>5
  <2>. QED BY <1>1, <1>6, <2>2, <2>3, NullAssumption DEF Advances, Runs, Running
<1>7. ASSUME NEW i \in Items \ disturbed', item'[i].status = "done" PROVE chunks'[i] = {summary'[i]}
  <2>1. CASE item[i].status = "done"
    <3>1. \A w \in Workers : ~WritesIndex(w, i)
      BY <1>0, <1>4, <2>1 DEF NotYetDone, BeforeDone
    <3>. QED BY <1>0, <2>1, <3>1, IndexWriters DEF IndexKept
  <2>2. CASE item[i].status # "done"
    <3>1. PICK w \in Workers : MarkDone(w) /\ inv[w].id = i
      BY <1>0, <1>7, <2>2, DoneOnlyByMarkDone
    <3>2. Runs(w, i) /\ inv[w].pc = "markDone"
      BY <1>2, <3>1 DEF Runs, Running
    <3>3. summary[i] = w /\ chunks[i] = {w}
      BY <1>0, <3>2 DEF IndexWritten
    <3>. QED BY <3>1, <3>3 DEF MarkDone
  <2>. QED BY <2>1, <2>2
<1>. QED BY <1>5, <1>6, <1>7 DEF NotYetDone, IndexWritten, IndexKept

\* The chunks of a finished item are those of the run that wrote its summary,
\* once each, whatever evictions cut persistResult's statements apart and
\* whatever redeliveries and requests do, as long as no run was disturbed.
THEOREM IndexAlwaysMatchesSummary == Spec => []IndexMatchesSummary
<1>1. Init => IndexInv
  <2> SUFFICES ASSUME Init PROVE NotYetDone /\ IndexWritten /\ IndexKept
    BY InitLease DEF IndexInv
  <2>. QED BY DEF Init, FreshRow, Idle, Runs, Running, NotYetDone, IndexWritten, IndexKept
<1>2. IndexInv /\ [Next]_vars => IndexInv'
  BY LeaseInvStep, IndexStep DEF IndexInv
<1>3. IndexInv => IndexMatchesSummary
  BY DEF IndexInv, IndexKept, IndexMatchesSummary
<1>. QED BY <1>1, <1>2, <1>3, PTL DEF Spec

-----------------------------------------------------------------------------
(* The pipeline implements SingleFlight *)

LEMMA HolderOf ==
  ASSUME OneRunner, NEW i \in Items
  PROVE  /\ i \notin disturbed => \A w \in Workers : Runs(w, i) => ItemHolder[i] = w
         /\ i \in disturbed \/ ~HasRunner(i) => ItemHolder[i] = NoWorker
BY DEF OneRunner, HasRunner, ItemHolder

LEMMA HolderOfNext ==
  ASSUME OneRunner', NEW i \in Items
  PROVE  /\ i \notin disturbed' => \A w \in Workers : Runs(w, i)' => ItemHolder'[i] = w
         /\ i \in disturbed' \/ ~HasRunner(i)' => ItemHolder'[i] = NoWorker
BY DEF OneRunner, HasRunner, ItemHolder

LEMMA HolderIsFunction ==
  /\ ItemHolder = [i \in Items |-> ItemHolder[i]]
  /\ ItemHolder' = [i \in Items |-> ItemHolder'[i]]
  /\ ItemOutcome = [i \in Items |-> ItemOutcome[i]]
  /\ ItemOutcome' = [i \in Items |-> ItemOutcome'[i]]
BY DEF ItemHolder, ItemOutcome

LEMMA OutcomeOf ==
  ASSUME NEW i \in Items
  PROVE  /\ i \in disturbed => ItemOutcome[i] = "disturbed"
         /\ i \notin disturbed /\ (HasRunner(i) \/ item[i].status \notin Final)
              => ItemOutcome[i] = "open"
         /\ i \notin disturbed /\ ~HasRunner(i) /\ item[i].status \in Final
              => ItemOutcome[i] = item[i].status
         /\ i \in disturbed' => ItemOutcome'[i] = "disturbed"
         /\ i \notin disturbed' /\ (HasRunner(i)' \/ item'[i].status \notin Final)
              => ItemOutcome'[i] = "open"
         /\ i \notin disturbed' /\ ~HasRunner(i)' /\ item'[i].status \in Final
              => ItemOutcome'[i] = item'[i].status
BY DEF ItemOutcome

\* An item whose runs and mark stay as they are keeps its holder; it keeps its
\* outcome too if it is run, disturbed, or as final as it was.
SameRuns(i) ==
  /\ i \in disturbed' <=> i \in disturbed
  /\ \A w \in Workers : Runs(w, i)' <=> Runs(w, i)
SameEnd(i) ==
  \/ HasRunner(i) \/ i \in disturbed
  \/ item'[i].status = item[i].status
  \/ item'[i].status \notin Final /\ item[i].status \notin Final

LEMMA HolderKept ==
  ASSUME OneRunner, OneRunner', NEW i \in Items, SameRuns(i)
  PROVE  /\ ItemHolder'[i] = ItemHolder[i]
         /\ SameEnd(i) => ItemOutcome'[i] = ItemOutcome[i]
<1>1. (i \in disturbed' <=> i \in disturbed) /\ (HasRunner(i)' <=> HasRunner(i))
  BY DEF SameRuns, HasRunner
<1>2. ItemHolder'[i] = ItemHolder[i]
  <2>1. CASE i \notin disturbed /\ HasRunner(i)
    <3>1. PICK w \in Workers : Runs(w, i) /\ Runs(w, i)'
      BY <2>1 DEF HasRunner, SameRuns
    <3>. QED BY <1>1, <2>1, <3>1, HolderOf, HolderOfNext
  <2>2. CASE i \in disturbed \/ ~HasRunner(i)
    BY <1>1, <2>2, HolderOf, HolderOfNext
  <2>. QED BY <2>1, <2>2
<1>3. ASSUME SameEnd(i) PROVE ItemOutcome'[i] = ItemOutcome[i]
  BY <1>1, <1>3, OutcomeOf DEF SameEnd
<1>. QED BY <1>2, <1>3

\* Nothing but the sweep and a request gives an item that nobody runs another end.
LEMMA EndKept ==
  ASSUME LeaseInv, NEW i \in Items, QuietStep(i), ~StrandsRow(i)
  PROVE  SameEnd(i)
<1>0. item[i] \in Row
  BY DEF LeaseInv, WellFormed, TypeOK
<1>1. CASE ClaimsRow(i)
  <2>1. item'[i].status = "fetching"
    BY <1>0, <1>1, RowsStatus DEF ClaimsRow
  <2>. QED BY <1>1, <2>1 DEF ClaimsRow, InProgress, Final, SameEnd
<1>2. CASE ReapsRow(i)
  BY <1>2 DEF ReapsRow, WaitingRow, SameEnd
<1>3. CASE AgesRow(i)
  <2>1. item'[i].status = item[i].status
    BY <1>0, <1>3 DEF AgesRow, Row
  <2>. QED BY <2>1 DEF SameEnd
<1>. QED BY <1>1, <1>2, <1>3 DEF QuietStep, OwnRowStep, HasRunner, SameEnd

\* As long as nobody takes an item or lets go of it and no request is made, the
\* sweep is all there is.
LEMMA SweepGivesUp ==
  ASSUME LeaseInv, LeaseInv', requests' = requests,
         \A i \in Items : QuietStep(i) /\ SameRuns(i)
  PROVE  [Flight!Next]_<<ItemHolder, ItemOutcome, requests>>
<1>. DEFINE S == {i \in Items \ disturbed : StrandsRow(i)}
<1>0. OneRunner /\ OneRunner' /\ RunnersHold /\ item \in [Items -> Row]
  BY DEF LeaseInv, LeaseFacts, WellFormed, TypeOK
<1>1. ASSUME NEW i \in Items PROVE ItemHolder'[i] = ItemHolder[i]
  BY <1>0, HolderKept
<1>2. ASSUME NEW i \in S
      PROVE  ItemHolder[i] = NoWorker /\ ItemOutcome[i] = "open" /\ ItemOutcome'[i] = "error"
  <2>1. Strandable(item[i]) /\ item'[i].status = "error"
    BY <1>0, <1>2, RowsStatus DEF StrandsRow
  <2>2. i \notin disturbed /\ ~HasRunner(i)
    BY <1>0, <2>1, HeldOutOfReach DEF HasRunner, RunnersHold
  <2>3. i \notin disturbed' /\ ~HasRunner(i)'
    BY <2>2 DEF SameRuns, HasRunner
  <2>4. item[i].status \notin Final /\ "error" \in Final
    BY <2>1 DEF Strandable, InProgress, Final
  <2>. QED BY <1>0, <2>1, <2>2, <2>3, <2>4, HolderOf, OutcomeOf
<1>3. ASSUME NEW i \in Items \ S PROVE ItemOutcome'[i] = ItemOutcome[i]
  <2>1. SameEnd(i)
    BY <1>3, EndKept DEF SameEnd
  <2>. QED BY <1>0, <2>1, HolderKept
<1>4. ItemHolder' = ItemHolder
  BY <1>1, HolderIsFunction
<1>5. ItemOutcome' = [i \in Items |-> IF i \in S THEN "error" ELSE ItemOutcome[i]]
  <2>. HIDE DEF S
  <2>. QED BY <1>2, <1>3, HolderIsFunction
<1>6. S \in SUBSET Items /\ "error" \in {"error"}
  OBVIOUS
<1>7. Flight!GiveUp(S)
  <2>. HIDE DEF S
  <2>. QED BY <1>2, <1>4, <1>5, <1>6 DEF Flight!GiveUp, Flight!NoOutcome
<1>. QED BY <1>6, <1>7 DEF Flight!Next

LEMMA HeldOrRun ==
  ASSUME LeaseInv, NEW i \in Items \ disturbed, Claimable(item[i])
  PROVE  ~HasRunner(i)
BY HeldOutOfReach DEF LeaseInv, LeaseFacts, WellFormed, TypeOK, HasRunner, RunnersHold

\* An item that is taken up, by a claim or by a redelivery, is open or failed
\* and nobody holds it, or the run that held it is disturbed.
LEMMA TakeUpAcquires ==
  ASSUME LeaseInv, LeaseInv', [Next]_vars, NEW w \in Workers, NEW i \in Items,
         Worker(w), TakesUp(w, i), inv'[w].id = i, inv'[w].pc \in {"continue", "pipeline"}
  PROVE  [Flight!Next]_<<ItemHolder, ItemOutcome, requests>>
<1>0. /\ OneRunner /\ OneRunner' /\ item \in [Items -> Row] /\ item[i] \in Row
      /\ inv \in [Workers -> Invocation]
  BY DEF LeaseInv, LeaseFacts, WellFormed, TypeOK
<1>1. /\ \A u \in Workers \ {w} : inv'[u] = inv[u]
      /\ inv[w].pc \notin Running
  BY WorkerAdvances, TakenAgainRow DEF TakesUp, Claims, Claim, At, Running
<1>2. Runs(w, i)'
  BY DEF Runs, Running
<1>3. /\ \A j \in Items \ {i} : item'[j] = item[j]
      /\ requests' = requests
      /\ disturbed' = disturbed \/ Disturb(i)
      /\ i \notin disturbed' => ~HasRunner(i)
      /\ item[i].status \notin {"done", "excluded"}
      /\ item'[i].status \in {"fetching", "summarizing"}
  <2>1. CASE Claims(w, i)
    <3>1. /\ \A j \in Items \ {i} : item'[j] = item[j]
          /\ requests' = requests /\ disturbed' = disturbed
      BY <1>0, <2>1 DEF Claims, Claim, marks
    <3>2. item[i].status \notin {"done", "excluded"}
      BY <2>1 DEF Claims, Claimable, InProgress
    <3>. QED BY <2>1, <3>1, <3>2, HeldOrRun, TakenUpStatus DEF Claims
  <2>2. CASE TakesAgain(w, i)
    <3>1. \A j \in Items \ {i} : item'[j] = item[j]
      <4>1. PICK r : item' = [item EXCEPT ![i] = r]
        BY <2>2, TakenAgainRow
      <4>. QED BY <1>0, <4>1
    <3>. QED BY <2>2, <3>1, TakenAgainRow, TakenUpStatus
  <2>. QED BY <2>1, <2>2 DEF TakesUp
<1>4. ASSUME NEW j \in Items \ {i} PROVE SameRuns(j) /\ SameEnd(j)
  <2>1. ~Runs(w, j) /\ ~Runs(w, j)'
    BY <1>1, <1>4 DEF Runs
  <2>2. \A u \in Workers \ {w} : Runs(u, j)' <=> Runs(u, j)
    BY <1>1 DEF Runs
  <2>3. j \in disturbed' <=> j \in disturbed
    BY <1>3, <1>4 DEF Disturb
  <2>. QED BY <1>3, <1>4, <2>1, <2>2, <2>3 DEF SameRuns, SameEnd
<1>5. ASSUME NEW j \in Items \ {i}
      PROVE  ItemHolder'[j] = ItemHolder[j] /\ ItemOutcome'[j] = ItemOutcome[j]
  BY <1>0, <1>4, <1>5, HolderKept
<1>6. CASE i \in disturbed
  <2>1. i \in disturbed'
    BY <1>6, <1>3 DEF Disturb
  <2>2. ItemHolder'[i] = ItemHolder[i] /\ ItemOutcome'[i] = ItemOutcome[i]
    BY <1>0, <1>6, <2>1, HolderOf, HolderOfNext, OutcomeOf
  <2>3. ItemHolder' = ItemHolder /\ ItemOutcome' = ItemOutcome
    BY <1>5, <2>2, HolderIsFunction
  <2>. QED BY <1>3, <2>3
<1>7. CASE i \notin disturbed /\ i \in disturbed'
  <2>1. HasRunner(i)
    BY <1>3, <1>7 DEF Disturb
  <2>2. ItemHolder[i] # NoWorker
    <3>1. PICK u \in Workers : Runs(u, i)
      BY <2>1 DEF HasRunner
    <3>. QED BY <1>0, <1>7, <3>1, HolderOf, NullAssumption
  <2>3. ItemHolder'[i] = NoWorker /\ ItemOutcome'[i] = "disturbed"
    BY <1>0, <1>7, HolderOfNext, OutcomeOf
  <2>4. /\ ItemHolder' = [ItemHolder EXCEPT ![i] = NoWorker]
        /\ ItemOutcome' = [ItemOutcome EXCEPT ![i] = "disturbed"]
    BY <1>5, <2>3, HolderIsFunction
  <2>5. Flight!Disturb(i)
    BY <1>3, <2>2, <2>4 DEF Flight!Disturb, Flight!Disturbed
  <2>. QED BY <2>5 DEF Flight!Next
<1>8. CASE i \notin disturbed'
  <2>1. i \notin disturbed /\ ~HasRunner(i)
    BY <1>3, <1>8 DEF Disturb
  <2>2. ItemHolder[i] = NoWorker /\ ItemOutcome[i] \in {"error", "open"}
    BY <1>0, <1>3, <2>1, HolderOf, OutcomeOf DEF Final
  <2>3. ItemHolder'[i] = w /\ ItemOutcome'[i] = "open"
    BY <1>0, <1>2, <1>8, HolderOfNext, OutcomeOf DEF HasRunner
  <2>4. /\ ItemHolder' = [ItemHolder EXCEPT ![i] = w]
        /\ ItemOutcome' = [ItemOutcome EXCEPT ![i] = "open"]
    BY <1>5, <2>3, HolderIsFunction
  <2>5. Flight!Acquire(w, i)
    BY <1>3, <2>2, <2>4 DEF Flight!Acquire, Flight!NoOutcome
  <2>. QED BY <2>5 DEF Flight!Next
<1>. QED BY <1>6, <1>7, <1>8

\* Whatever ends a run, be it its last statement, a failure or an eviction,
\* lets go of its item.
LEMMA RunLetsGo ==
  ASSUME LeaseInv, LeaseInv', NEW w \in Workers, NEW i \in Items,
         Runs(w, i), ~Runs(w, i)',
         \A u \in Workers \ {w} : inv'[u] = inv[u],
         \A j \in Items \ {i} : ~Runs(w, j)' /\ QuietStep(j),
         UNCHANGED <<disturbed, requests>>
  PROVE  [Flight!Next]_<<ItemHolder, ItemOutcome, requests>>
<1>0. OneRunner /\ OneRunner'
  BY DEF LeaseInv, LeaseFacts
<1>1. ASSUME NEW j \in Items \ {i}
      PROVE  ItemHolder'[j] = ItemHolder[j] /\ ItemOutcome'[j] = ItemOutcome[j]
  <2>1. SameRuns(j)
    BY <1>1 DEF SameRuns, Runs
  <2>2. ~StrandsRow(j)
    <3>1. inv'[w] # inv[w] /\ inv[w].pc # "strand"
      BY DEF Runs, Running
    <3>. QED BY <3>1 DEF StrandsRow
  <2>3. SameEnd(j)
    BY <1>1, <2>2, EndKept
  <2>. QED BY <1>0, <1>1, <2>1, <2>3, HolderKept
<1>2. CASE i \in disturbed
  <2>1. ItemHolder'[i] = ItemHolder[i] /\ ItemOutcome'[i] = ItemOutcome[i]
    BY <1>0, <1>2, HolderOf, HolderOfNext, OutcomeOf
  <2>2. ItemHolder' = ItemHolder /\ ItemOutcome' = ItemOutcome
    BY <1>1, <2>1, HolderIsFunction
  <2>. QED BY <2>2
<1>3. CASE i \notin disturbed
  <2>1. \A u \in Workers : ~Runs(u, i)'
    BY <1>0, <1>3 DEF OneRunner, Runs
  <2>2. ItemHolder[i] = w /\ ItemHolder'[i] = NoWorker
    BY <1>0, <1>3, <2>1, HolderOf, HolderOfNext DEF HasRunner
  <2>3. ItemOutcome'[i] \in Final \cup {"open"}
    BY <1>3, OutcomeOf
  <2>4. /\ ItemHolder' = [ItemHolder EXCEPT ![i] = NoWorker]
        /\ ItemOutcome' = [ItemOutcome EXCEPT ![i] = ItemOutcome'[i]]
    BY <1>1, <2>2, HolderIsFunction
  <2>5. Flight!LetGo(w, i)
    BY <2>2, <2>3, <2>4 DEF Flight!LetGo, Flight!NoOutcome
  <2>. QED BY <2>5 DEF Flight!Next
<1>. QED BY <1>2, <1>3

\* A request that resets a row reopens its item, or disturbs the run it meets.
LEMMA ResetAsks ==
  ASSUME LeaseInv, LeaseInv', NEW j \in Items, Resets(j)
  PROVE  Flight!Next
<1>0. OneRunner /\ OneRunner'
  BY DEF LeaseInv, LeaseFacts
<1>1. /\ inv' = inv /\ Disturb(j) /\ requests' = requests + 1
      /\ item'[j].status \in {"queued", "summarizing"}
      /\ \A i \in Items \ {j} : item'[i] = item[i]
  BY ResetRow
<1>2. \A i \in Items : \A w \in Workers : Runs(w, i)' <=> Runs(w, i)
  BY <1>1 DEF Runs
<1>3. HasRunner(j)' <=> HasRunner(j)
  BY <1>2 DEF HasRunner
<1>4. ASSUME NEW i \in Items \ {j}
      PROVE  ItemHolder'[i] = ItemHolder[i] /\ ItemOutcome'[i] = ItemOutcome[i]
  <2>1. SameRuns(i) /\ SameEnd(i)
    BY <1>1, <1>2, <1>4 DEF SameRuns, SameEnd, Disturb
  <2>. QED BY <1>0, <1>4, <2>1, HolderKept
<1>5. CASE j \in disturbed
  <2>1. ItemHolder'[j] = ItemHolder[j] /\ ItemOutcome'[j] = ItemOutcome[j]
    BY <1>0, <1>1, <1>5, HolderOf, HolderOfNext, OutcomeOf DEF Disturb
  <2>2. ItemHolder' = ItemHolder /\ ItemOutcome' = ItemOutcome
    BY <1>4, <2>1, HolderIsFunction
  <2>. QED BY <1>1, <2>2 DEF Flight!Next, Flight!Ask
<1>6. CASE j \notin disturbed /\ HasRunner(j)
  <2>1. ItemHolder[j] # NoWorker
    <3>1. PICK u \in Workers : Runs(u, j)
      BY <1>6 DEF HasRunner
    <3>. QED BY <1>0, <1>6, <3>1, HolderOf, NullAssumption
  <2>2. j \in disturbed'
    BY <1>1, <1>6 DEF Disturb
  <2>3. ItemHolder'[j] = NoWorker /\ ItemOutcome'[j] = "disturbed"
    BY <1>0, <2>2, HolderOfNext, OutcomeOf
  <2>4. /\ ItemHolder' = [ItemHolder EXCEPT ![j] = NoWorker]
        /\ ItemOutcome' = [ItemOutcome EXCEPT ![j] = "disturbed"]
    BY <1>4, <2>3, HolderIsFunction
  <2>5. Flight!Disturb(j)
    BY <1>1, <2>1, <2>4 DEF Flight!Disturb, Flight!Disturbed
  <2>. QED BY <2>5 DEF Flight!Next
<1>7. CASE j \notin disturbed /\ ~HasRunner(j)
  <2>1. j \notin disturbed'
    BY <1>1, <1>7 DEF Disturb
  <2>2. ItemHolder[j] = NoWorker /\ ItemHolder'[j] = NoWorker
    BY <1>0, <1>3, <1>7, HolderOf, HolderOfNext
  <2>3. ItemOutcome[j] # "disturbed" /\ ItemOutcome'[j] = "open"
    BY <1>1, <1>7, <2>1, OutcomeOf DEF Final
  <2>4. ItemHolder' = ItemHolder /\ ItemOutcome' = [ItemOutcome EXCEPT ![j] = "open"]
    BY <1>4, <2>2, <2>3, HolderIsFunction
  <2>5. Flight!Ask
    BY <1>1, <2>2, <2>3, <2>4 DEF Flight!Ask, Flight!NoOutcome, Flight!Disturbed
  <2>. QED BY <2>5 DEF Flight!Next
<1>. QED BY <1>5, <1>6, <1>7

LEMMA WorkerFlies ==
  ASSUME LeaseInv, LeaseInv', [Next]_vars, NEW w \in Workers, Worker(w)
  PROVE  [Flight!Next]_<<ItemHolder, ItemOutcome, requests>>
<1>0. Advances(w) /\ \A u \in Workers \ {w} : inv'[u] = inv[u]
  BY WorkerAdvances
<1>1. ASSUME NEW i \in Items, TakesUp(w, i), inv'[w].id = i,
             inv'[w].pc \in {"continue", "pipeline"}
      PROVE  [Flight!Next]_<<ItemHolder, ItemOutcome, requests>>
  BY <1>1, TakeUpAcquires
<1>2. CASE \A i \in Items : ~(/\ TakesUp(w, i) /\ inv'[w].id = i
                               /\ inv'[w].pc \in {"continue", "pipeline"})
  <2>1. \A i \in Items : ~TakesAgain(w, i)
    BY <1>2, TakenAgainRow DEF TakesUp, TakesAgain
  <2>2. UNCHANGED <<disturbed, requests>> /\ \A i \in Items : QuietStep(i)
    BY <2>1, MarksKept, WorkerRowStep
  <2>3. ASSUME NEW i \in Items, Runs(w, i), ~Runs(w, i)'
        PROVE  [Flight!Next]_<<ItemHolder, ItemOutcome, requests>>
    <3>1. \A j \in Items \ {i} : ~Runs(w, j)'
      BY <1>0, <1>2, <2>3, NullAssumption DEF Advances, Runs, Running
    <3>. QED BY <1>0, <2>2, <2>3, <3>1, RunLetsGo
  <2>4. CASE \A i \in Items : Runs(w, i) => Runs(w, i)'
    <3>1. ASSUME NEW i \in Items, Runs(w, i)' PROVE Runs(w, i)
      <4>1. inv'[w] = inv[w] \/ (inv'[w].id = inv[w].id /\ inv[w].pc \in Running)
        BY <1>0, <1>2, <3>1, NullAssumption
           DEF Advances, Runs, PersistSummary, DropChunks, AddChunks, MarkDone, MarkExcluded,
               At, Trying, Running
      <4>. QED BY <3>1, <4>1 DEF Runs
    <3>2. \A i \in Items : \A u \in Workers : Runs(u, i)' <=> Runs(u, i)
      BY <1>0, <2>4, <3>1 DEF Runs
    <3>. QED BY <2>2, <3>2, SweepGivesUp DEF SameRuns
  <2>. QED BY <2>3, <2>4
<1>. QED BY <1>1, <1>2

LEMMA FlightStep ==
  ASSUME LeaseInv, LeaseInv', [Next]_vars
  PROVE  [Flight!Next]_<<ItemHolder, ItemOutcome, requests>>
<1>1. CASE CronSweep \/ \E j \in Items : AgeLease(j) \/ AgeProgress(j)
  <2>1. inv' = inv /\ requests' = requests /\ disturbed' = disturbed
    BY <1>1 DEF CronSweep, AgeLease, AgeProgress, marks
  <2>2. \A i \in Items : SameRuns(i)
    BY <2>1 DEF SameRuns, Runs
  <2>3. \A i \in Items : QuietStep(i)
    BY <1>1, EnvironmentRowStep
  <2>. QED BY <2>1, <2>2, <2>3, SweepGivesUp
<1>2. ASSUME NEW j \in Items, Nudge(j) PROVE Flight!Next
  <2>1. UNCHANGED <<item, inv, disturbed>> /\ requests' = requests + 1
    BY <1>2 DEF Nudge, Request, rows, marks
  <2>2. \A i \in Items : SameRuns(i) /\ SameEnd(i)
    BY <2>1 DEF SameRuns, SameEnd, Runs
  <2>3. OneRunner /\ OneRunner'
    BY DEF LeaseInv, LeaseFacts
  <2>4. ItemHolder' = ItemHolder /\ ItemOutcome' = ItemOutcome
    BY <2>2, <2>3, HolderKept, HolderIsFunction
  <2>. QED BY <2>1, <2>4 DEF Flight!Next, Flight!Ask
<1>3. CASE UNCHANGED vars
  <2>1. ItemHolder' = ItemHolder /\ ItemOutcome' = ItemOutcome /\ requests' = requests
    BY <1>3 DEF vars, ItemHolder, ItemOutcome, HasRunner, Runs
  <2>. QED BY <2>1
<1>. QED BY <1>1, <1>2, <1>3, WorkerFlies, ResetAsks DEF Next, Environment, Resets

\* The pipeline implements SingleFlight for any number of items, invocations,
\* deliveries, faults and requests: claims, sweeps, failures, evictions, ageing
\* leases and redeliveries never show two undisturbed runs of one item, and what
\* a run left done or excluded stays that way until a request.
THEOREM PipelineImplementsSingleFlight == Spec => ImplementsSingleFlight
<1>1. Init => Flight!Init
  <2> SUFFICES ASSUME Init PROVE Flight!Init
    OBVIOUS
  <2>1. \A i \in Items : i \notin disturbed /\ ~HasRunner(i) /\ item[i].status = "queued"
    BY DEF Init, FreshRow, HasRunner, Runs, Running, Idle
  <2>2. requests = 0
    BY DEF Init
  <2>. QED BY <2>1, <2>2 DEF Flight!Init, Flight!NoOutcome, ItemHolder, ItemOutcome, Final
<1>2. LeaseInv /\ [Next]_vars => LeaseInv'
  BY LeaseInvStep
<1>3. LeaseInv /\ LeaseInv' /\ [Next]_vars
        => [Flight!Next]_<<ItemHolder, ItemOutcome, requests>>
  BY FlightStep
<1>. QED BY <1>1, <1>2, <1>3, InitLease, PTL DEF Spec, ImplementsSingleFlight, Flight!Spec
=============================================================================
