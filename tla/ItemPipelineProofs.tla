------------------------- MODULE ItemPipelineProofs -------------------------
(***************************************************************************)
(* Theorems about ItemPipeline, for every number of items, invocations,    *)
(* retries, deliveries, faults and requests: its types, the summaries of    *)
(* done items, and its leases.                                             *)
(***************************************************************************)
EXTENDS ItemPipeline, TLAPS

-----------------------------------------------------------------------------
(* Rows and messages keep their types *)

LEMMA RowsTyped ==
  ASSUME NEW r \in Row, NEW t \in Stamps \cup {NoStamp}, NEW s \in Status,
         NEW n \in Nat
  PROVE  /\ ClaimedRow(r, t, n) \in Row
         /\ WaitingRow(s, n) \in Row
         /\ FinishedRow(r, s, n) \in Row
BY DEF Row, Status, InProgress, ClaimedRow, WaitingRow, FinishedRow

LEMMA RowsStatus ==
  ASSUME NEW r \in Row, NEW t, NEW s, NEW n
  PROVE  /\ ClaimedRow(r, t, n).status = "fetching"
         /\ [ClaimedRow(r, t, n) EXCEPT !.status = s].status = s
         /\ WaitingRow(s, n).status = s
         /\ FinishedRow(r, s, n).status = s
BY DEF Row, ClaimedRow, WaitingRow, FinishedRow

LEMMA MessagesTyped ==
  /\ PumpMsg \in Message
  /\ \A i \in Items : ProcessMsg(i) \in Message /\ ResummarizeMsg(i) \in Message
  /\ \A m \in Message : Redelivery(m) \subseteq Message
<1>1. 1 \in 1 .. MaxDeliveries
  BY BudgetAssumption
<1>2. ASSUME NEW m \in Message
      PROVE  Redelivery(m) \subseteq Message
  <2>1. m.attempt < MaxDeliveries => m.attempt + 1 \in 1 .. MaxDeliveries
    BY BudgetAssumption DEF Message
  <2>. QED BY <2>1 DEF Message, Redelivery
<1>. QED BY <1>1, <1>2 DEF PumpMsg, ProcessMsg, ResummarizeMsg, Message

LEMMA IdleTyped == Idle \in Invocation
BY MessagesTyped DEF Idle, Invocation, Points, Snapshot, NoSnapshot, Status

LEMMA StrandAllTyped == item \in [Items -> Row] => StrandAll \in [Items -> Row]
<1> SUFFICES ASSUME item \in [Items -> Row], NEW i \in Items
             PROVE  FinishedRow(item[i], "error", item[i].retry) \in Row
  BY DEF StrandAll
<1>. QED BY DEF Row, Status, FinishedRow

\* One field of an invocation at a time.
LEMMA FieldsTyped ==
  ASSUME NEW v \in Invocation
  PROVE  /\ \A p \in Points : [v EXCEPT !.pc = p] \in Invocation
         /\ \A i \in Items \cup {NoItem} : [v EXCEPT !.id = i] \in Invocation
         /\ \A n \in Nat : [v EXCEPT !.tries = n] \in Invocation
         /\ \A n \in Nat : [v EXCEPT !.attempts = n] \in Invocation
         /\ \A b \in BOOLEAN : [v EXCEPT !.resume = b] \in Invocation
         /\ \A k \in Snapshot : [v EXCEPT !.seen = k] \in Invocation
         /\ \A m \in Message : [v EXCEPT !.msg = m] \in Invocation
         /\ \A f \in {"none", "content", "transient"} :
              [v EXCEPT !.failure = f] \in Invocation
BY DEF Invocation

LEMMA BecomeTyped ==
  ASSUME NEW w \in Workers, NEW v \in Invocation, TypeOK, Become(w, v)
  PROVE  inv' \in [Workers -> Invocation]
BY DEF TypeOK, Become

LEMMA ThrowTyped ==
  ASSUME NEW w \in Workers, TypeOK, Throw(w)
  PROVE  queue' \in SUBSET Message /\ inv' \in [Workers -> Invocation]
<1>1. inv[w].msg \in Message
  BY DEF TypeOK, Invocation
<1>. QED BY <1>1, MessagesTyped, IdleTyped DEF TypeOK, Throw, Become

LEMMA GotoTyped ==
  ASSUME NEW w \in Workers, NEW p \in Points, TypeOK, Goto(w, p)
  PROVE  inv' \in [Workers -> Invocation]
<1>1. [inv[w] EXCEPT !.pc = p] \in Invocation
  BY DEF TypeOK, Invocation
<1>. QED BY <1>1, BecomeTyped DEF Goto

LEMMA ReturnTyped ==
  ASSUME NEW w \in Workers, TypeOK, Return(w)
  PROVE  inv' \in [Workers -> Invocation]
<1>1. [Idle EXCEPT !.pc = "ack", !.msg = inv[w].msg] \in Invocation
  BY IdleTyped DEF TypeOK, Invocation, Points
<1>. QED BY <1>1, BecomeTyped DEF Return

LEMMA MarksTyped ==
  ASSUME TypeOK, NEW i \in Items
  PROVE  /\ Disturb(i) => disturbed' \in SUBSET Items
         /\ CountRevival(i) => revivals' \in [Items -> Nat]
         /\ revivals' = [revivals EXCEPT ![i] = 0] => revivals' \in [Items -> Nat]
BY DEF TypeOK, Disturb, CountRevival

\* isoNow(), where it succeeds, is later than what the others have read.
LEMMA NowLater ==
  ASSUME NEW w, NEW i, Later(w, i) # {}
  PROVE  Now(w, i) \in Stamps /\ Now(w, i) \in Later(w, i)
BY DEF Later, Now

-----------------------------------------------------------------------------
(* Type correctness *)

\* TypeOK is not inductive alone: a step that works on an item needs to know
\* that the invocation names one.
NamedMsg(m) == m.kind = "resummarize" => m.id \in Items
Named(v) ==
  /\ NamedMsg(v.msg)
  /\ v.pc \in {"recoverRead", "resummarizeClaim"} => v.msg.id \in Items
  /\ v.pc \in (Running \ {"continue"}) \cup {"claim", "recoverClaim"} => v.id \in Items
NamesItem ==
  /\ \A m \in queue : NamedMsg(m)
  /\ \A w \in Workers : Named(inv[w])
WellFormed == TypeOK /\ NamesItem

LEMMA ClaimNextTyped ==
  ASSUME WellFormed, NEW w \in Workers, ClaimNext(w)
  PROVE  TypeOK'
<1>. USE DEF WellFormed, marks
<1>1. ASSUME Reap(w) PROVE TypeOK'
  <2>1. item' \in [Items -> Row]
    <3>1. \A i \in Items : item[i] \in Row /\ item[i].retry + 1 \in Nat
                           /\ item[i].status \in Status
      BY DEF TypeOK, Row
    <3>. QED BY <1>1, <3>1, RowsTyped DEF Reap
  <2>. QED BY <1>1, <2>1, GotoTyped DEF Reap, TypeOK, Points
<1>2. ASSUME FailStranded(w) PROVE TypeOK'
  BY <1>2, StrandAllTyped, GotoTyped DEF FailStranded, TypeOK, Points
<1>3. ASSUME Select(w) PROVE TypeOK'
  <2>1. Candidates(w) \subseteq Items
    BY DEF Candidates, Best, ClaimableItems
  <2>2. inv' \in [Workers -> Invocation]
    <3>1. ASSUME NEW i \in Items
          PROVE  [inv[w] EXCEPT !.pc = "claim", !.id = i] \in Invocation
      <4>1. inv[w] \in Invocation /\ "claim" \in Points
        BY DEF TypeOK, Points
      <4>. QED BY <4>1, FieldsTyped
    <3>. QED BY <1>3, <2>1, <3>1, GotoTyped, BecomeTyped DEF Select, Points, Running
  <2>. QED BY <1>3, <2>2 DEF Select, TypeOK, rows
<1>4. ASSUME Claim(w) PROVE TypeOK'
  <2>1. inv' \in [Workers -> Invocation]
    <3>1. ASSUME NEW p \in {"select", "continue"}
          PROVE  [inv[w] EXCEPT !.pc = p, !.id = NoItem, !.tries = @ + 1] \in Invocation
      <4>1. inv[w] \in Invocation /\ inv[w].tries + 1 \in Nat /\ p \in Points
        BY DEF TypeOK, Invocation, Points, Running
      <4>. QED BY <4>1, FieldsTyped
    <3>. QED BY <1>4, <3>1, GotoTyped, BecomeTyped DEF Claim, Points, Running
  <2>2. item' \in [Items -> Row]
    <3>. DEFINE i == inv[w].id
    <3>1. i \in Items /\ item[i] \in Row /\ item[i].retry \in Nat
      BY <1>4 DEF Claim, At, NamesItem, Named, TypeOK, Row
    <3>2. CASE Claimable(item[i])
      <4>1. ASSUME NEW t \in Stamps, NEW n \in Nat
            PROVE  [item EXCEPT ![i] = ClaimedRow(item[i], t, n)] \in [Items -> Row]
        BY <3>1, RowsTyped DEF TypeOK, Status
      <4>. QED BY <1>4, <3>1, <3>2, <4>1, NowLater DEF Claim
    <3>3. CASE ~Claimable(item[i])
      BY <1>4, <3>3 DEF Claim, TypeOK
    <3>. QED BY <3>2, <3>3
  <2>. QED BY <1>4, <2>1, <2>2 DEF Claim, TypeOK
<1>5. ASSUME Continue(w) PROVE TypeOK'
  <2>1. Best \subseteq Items
    BY DEF Best, ClaimableItems
  <2>2. queue' \in SUBSET Message
    BY <1>5, <2>1, MessagesTyped DEF Continue, Send, TypeOK
  <2>3. inv' \in [Workers -> Invocation]
    <3>1. [inv[w] EXCEPT !.pc = "resume", !.tries = 0] \in Invocation
      <4>1. inv[w] \in Invocation /\ "resume" \in Points
        BY DEF TypeOK, Points, Running
      <4>. QED BY <4>1, FieldsTyped
    <3>. QED BY <1>5, <3>1, IdleTyped, BecomeTyped DEF Continue
  <2>. QED BY <1>5, <2>2, <2>3 DEF Continue, TypeOK, rows
<1>6. ASSUME RecoverRead(w) PROVE TypeOK'
  <2>1. inv[w].msg.id \in Items /\ item[inv[w].msg.id] \in Row
    BY <1>6 DEF RecoverRead, At, NamesItem, Named, TypeOK
  <2>2. inv' \in [Workers -> Invocation]
    <3>. DEFINE i == inv[w].msg.id
                run == HasRunner(i)
                snap == [status |-> item[i].status, startedAt |-> item[i].startedAt,
                         live |-> run]
                stored == i \in transcript
    <3>1. snap \in Snapshot
      <4>1. run \in BOOLEAN
        BY DEF HasRunner
      <4>. HIDE DEF run
      <4>. QED BY <2>1, <4>1 DEF Snapshot, Row
    <3>2. [inv[w] EXCEPT !.pc = "recoverClaim", !.id = i,
                         !.resume = stored, !.seen = snap] \in Invocation
      <4>1. inv[w] \in Invocation /\ "recoverClaim" \in Points /\ stored \in BOOLEAN
        BY DEF TypeOK, Points
      <4>. HIDE DEF snap, stored
      <4>. QED BY <2>1, <3>1, <4>1, FieldsTyped
    <3>. QED BY <1>6, <3>2, IdleTyped, BecomeTyped DEF RecoverRead
  <2>. QED BY <1>6, <2>2 DEF RecoverRead, TypeOK, rows
<1>7. ASSUME RecoverClaim(w) PROVE TypeOK'
  <2>1. inv' \in [Workers -> Invocation]
    <3>1. [inv[w] EXCEPT !.pc = "pipeline", !.seen = NoSnapshot] \in Invocation
      <4>1. inv[w] \in Invocation /\ "pipeline" \in Points /\ NoSnapshot \in Snapshot
        BY DEF TypeOK, Points, Running, NoSnapshot, Snapshot, Status
      <4>. QED BY <4>1, FieldsTyped
    <3>. QED BY <1>7, <3>1, IdleTyped, BecomeTyped DEF RecoverClaim
  <2>2. item' \in [Items -> Row]
    <3>1. inv[w].id \in Items /\ item[inv[w].id] \in Row /\ item[inv[w].id].retry \in Nat
      BY <1>7 DEF RecoverClaim, At, NamesItem, Named, TypeOK, Row
    <3>2. ASSUME NEW t \in Stamps
          PROVE  ClaimedRow(item[inv[w].id], t, item[inv[w].id].retry) \in Row
      BY <3>1, RowsTyped DEF Status
    <3>. QED BY <1>7, <3>1, <3>2, NowLater DEF RecoverClaim, TypeOK
  <2>3. disturbed' \in SUBSET Items /\ revivals' \in [Items -> Nat]
    <3>1. inv[w].id \in Items
      BY <1>7 DEF RecoverClaim, At, NamesItem, Named
    <3>2. CASE UNCHANGED marks
      BY <3>2 DEF TypeOK
    <3>3. CASE (UNCHANGED disturbed \/ Disturb(inv[w].id)) /\ CountRevival(inv[w].id)
      BY <3>1, <3>3, MarksTyped DEF TypeOK
    <3>. QED BY <1>7, <3>2, <3>3 DEF RecoverClaim
  <2>. QED BY <1>7, <2>1, <2>2, <2>3 DEF RecoverClaim, TypeOK
<1>8. ASSUME ResummarizeClaim(w) PROVE TypeOK'
  <2>. DEFINE i == inv[w].msg.id
  <2>0. i \in Items /\ item[i] \in Row /\ item[i].retry \in Nat
    BY <1>8 DEF ResummarizeClaim, At, NamesItem, Named, TypeOK, Row
  <2>1. inv' \in [Workers -> Invocation]
    <3>1. [inv[w] EXCEPT !.pc = "pipeline", !.id = i, !.resume = TRUE] \in Invocation
      <4>1. inv[w] \in Invocation /\ "pipeline" \in Points
        BY DEF TypeOK, Points, Running
      <4>. HIDE DEF i
      <4>. QED BY <2>0, <4>1, FieldsTyped
    <3>. QED BY <1>8, <3>1, IdleTyped, BecomeTyped DEF ResummarizeClaim
  <2>2. item' \in [Items -> Row]
    <3>1. ASSUME NEW t \in Stamps
          PROVE  [ClaimedRow(item[i], t, item[i].retry)
                    EXCEPT !.status = "summarizing"] \in Row
      BY <2>0 DEF ClaimedRow, Row, Status, InProgress
    <3>. QED BY <1>8, <2>0, <3>1, NowLater DEF ResummarizeClaim, TypeOK
  <2>3. disturbed' \in SUBSET Items /\ revivals' \in [Items -> Nat]
    <3>1. CASE UNCHANGED marks
      BY <3>1 DEF TypeOK
    <3>2. CASE (UNCHANGED disturbed \/ Disturb(i)) /\ CountRevival(i)
      BY <2>0, <3>2, MarksTyped DEF TypeOK
    <3>. QED BY <1>8, <3>1, <3>2 DEF ResummarizeClaim
  <2>. QED BY <1>8, <2>1, <2>2, <2>3 DEF ResummarizeClaim, TypeOK
<1>. QED BY <1>1, <1>2, <1>3, <1>4, <1>5, <1>6, <1>7, <1>8 DEF ClaimNext

LEMMA ProcessTyped ==
  ASSUME WellFormed, NEW w \in Workers, Process(w)
  PROVE  TypeOK'
<1>. USE DEF WellFormed, marks
<1>. DEFINE i == inv[w].id
<1>0. /\ inv[w] \in Invocation
      /\ inv[w].pc \in Running \ {"continue"} =>
           i \in Items /\ item[i] \in Row /\ item[i].retry \in Nat
  BY DEF TypeOK, NamesItem, Named, Row
<1>1. ASSUME Resume(w) PROVE TypeOK'
  <2>. DEFINE stored == i \in transcript
  <2>1. [inv[w] EXCEPT !.pc = "pipeline", !.resume = stored] \in Invocation
    <3>1. "pipeline" \in Points /\ stored \in BOOLEAN
      BY DEF Points, Running
    <3>. HIDE DEF stored
    <3>. QED BY <1>0, <3>1, FieldsTyped
  <2>. QED BY <1>1, <2>1, BecomeTyped DEF Resume, TypeOK, rows
<1>2. ASSUME RunReturns(w) PROVE TypeOK'
  <2>1. ASSUME NEW p \in {"summary", "markExcluded"}
        PROVE  [inv[w] EXCEPT !.pc = p, !.resume = FALSE] \in Invocation
    BY <1>0, FieldsTyped DEF Points, Running
  <2>. QED BY <1>2, <2>1, BecomeTyped DEF RunReturns, TypeOK, rows
<1>3. ASSUME PersistSummary(w) PROVE TypeOK'
  BY <1>0, <1>3, GotoTyped DEF PersistSummary, At, Running, Points, TypeOK
<1>4. ASSUME DropChunks(w) PROVE TypeOK'
  BY <1>0, <1>4, GotoTyped DEF DropChunks, At, Running, Points, TypeOK
<1>5. ASSUME AddChunks(w) PROVE TypeOK'
  BY <1>0, <1>5, GotoTyped DEF AddChunks, At, Running, Points, TypeOK
<1>6. ASSUME MarkDone(w) PROVE TypeOK'
  <2>1. i \in Items /\ FinishedRow(item[i], "done", item[i].retry) \in Row
    BY <1>0, <1>6, RowsTyped DEF MarkDone, At, Running, Status
  <2>. QED BY <1>6, <2>1, GotoTyped DEF MarkDone, Running, Points, TypeOK
<1>7. ASSUME MarkLibrary(w) PROVE TypeOK'
  BY <1>0, <1>7, ReturnTyped DEF MarkLibrary, At, Running, TypeOK
<1>8. ASSUME MarkExcluded(w) PROVE TypeOK'
  <2>1. i \in Items /\ [item[i] EXCEPT !.status = "excluded", !.retry = MaxReclaim] \in Row
    BY <1>0, <1>8, BudgetAssumption DEF MarkExcluded, At, Running, Status, Row
  <2>. QED BY <1>8, <2>1, GotoTyped DEF MarkExcluded, Running, Points, TypeOK
<1>9. ASSUME DropLibrary(w) PROVE TypeOK'
  BY <1>0, <1>9, ReturnTyped DEF DropLibrary, At, Running, TypeOK
<1>10. ASSUME FailRead(w) PROVE TypeOK'
  <2>. DEFINE stored == i \in transcript
              n == item[i].retry + 1
  <2>1. [inv[w] EXCEPT !.pc = "failWrite", !.resume = stored, !.attempts = n] \in Invocation
    <3>1. "failWrite" \in Points /\ stored \in BOOLEAN /\ n \in Nat
      BY <1>0, <1>10 DEF FailRead, At, Points, Running
    <3>. HIDE DEF stored, n
    <3>. QED BY <1>0, <3>1, FieldsTyped
  <2>. QED BY <1>10, <2>1, BecomeTyped DEF FailRead, TypeOK, rows
<1>11. ASSUME FailWrite(w) PROVE TypeOK'
  <2>1. i \in Items /\ item[i] \in Row /\ item[i].retry \in Nat /\ inv[w].attempts \in Nat
    BY <1>0, <1>11 DEF FailWrite, At, Running, Invocation
  <2>2. ASSUME NEW s \in {"summarizing", "queued"}
        PROVE  /\ WaitingRow(s, item[i].retry) \in Row
               /\ WaitingRow(s, inv[w].attempts) \in Row
    BY <2>1, RowsTyped DEF Status, InProgress
  <2>3. FinishedRow(item[i], "error", item[i].retry + 1) \in Row
    <3>1. item[i].retry + 1 \in Nat /\ "error" \in Status
      BY <2>1 DEF Status
    <3>. QED BY <2>1, <3>1, RowsTyped
  <2>4. item' \in [Items -> Row]
    BY <1>11, <2>1, <2>2, <2>3 DEF FailWrite, TypeOK
  <2>5. queue' \in SUBSET Message /\ inv' \in [Workers -> Invocation]
    BY <1>11, ThrowTyped, ReturnTyped DEF FailWrite, TypeOK
  <2>. QED BY <1>11, <2>4, <2>5 DEF FailWrite, TypeOK
<1>12. ASSUME Ack(w) PROVE TypeOK'
  BY <1>12, IdleTyped, BecomeTyped DEF Ack, TypeOK, rows
<1>. QED BY <1>1, <1>2, <1>3, <1>4, <1>5, <1>6, <1>7, <1>8, <1>9, <1>10, <1>11, <1>12
         DEF Process

LEMMA WorkerTyped ==
  ASSUME WellFormed, NEW w \in Workers, Worker(w)
  PROVE  TypeOK'
<1>. USE DEF WellFormed, marks
<1>0. inv[w] \in Invocation
  BY DEF TypeOK
<1>1. ASSUME CronPump(w) PROVE TypeOK'
  <2>1. [inv[w] EXCEPT !.pc = "reap", !.msg = PumpMsg] \in Invocation
    BY <1>0, MessagesTyped, FieldsTyped DEF Points
  <2>. QED BY <1>1, <2>1, BecomeTyped DEF CronPump, TypeOK, rows
<1>2. ASSUME NEW m \in queue, Deliver(w, m) PROVE TypeOK'
  <2>1. EntryPoint(m) \in Points /\ m \in Message
    BY DEF EntryPoint, Points, TypeOK
  <2>2. [Idle EXCEPT !.pc = EntryPoint(m), !.msg = m] \in Invocation
    BY <2>1, IdleTyped, FieldsTyped
  <2>. QED BY <1>2, <2>2, BecomeTyped DEF Deliver, TypeOK, rows
<1>3. ASSUME Heartbeat(w) PROVE TypeOK'
  <2>1. inv[w].id \in Items /\ item[inv[w].id] \in Row
    BY <1>3 DEF Heartbeat, At, NamesItem, Named, Running, TypeOK
  <2>2. ASSUME NEW s \in Stages \cup {"summarizing"}
        PROVE  [item[inv[w].id] EXCEPT !.status = s, !.progress = "fresh"] \in Row
    BY <2>1, NullAssumption DEF Row, Status, InProgress
  <2>3. PICK s \in Stages \cup {"summarizing"} :
          item' = [item EXCEPT ![inv[w].id] =
                     [item[inv[w].id] EXCEPT !.status = s, !.progress = "fresh"]]
    BY <1>3 DEF Heartbeat
  <2>4. item' \in [Items -> Row]
    BY <2>1, <2>2, <2>3 DEF TypeOK
  <2>. QED BY <1>3, <2>4 DEF Heartbeat, TypeOK
<1>4. ASSUME PartialTranscript(w) PROVE TypeOK'
  BY <1>4 DEF PartialTranscript, At, NamesItem, Named, Running, TypeOK
<1>5. ASSUME Fails(w) PROVE TypeOK'
  <2>1. ASSUME NEW k \in {"content", "transient"}
        PROVE  [inv[w] EXCEPT !.pc = "failRead", !.failure = k, !.resume = FALSE]
                 \in Invocation
    BY <1>0, FieldsTyped DEF Points, Running
  <2>2. inv' \in [Workers -> Invocation]
    BY <1>5, <2>1, BecomeTyped DEF Fails
  <2>3. faults' \in 0 .. MaxFaults
    BY <1>5, BudgetAssumption DEF Fails, Fault, TypeOK
  <2>. QED BY <1>5, <2>2, <2>3 DEF Fails, TypeOK, rows
<1>6. ASSUME Crash(w) PROVE TypeOK'
  <2>1. faults' \in 0 .. MaxFaults
    BY <1>6, BudgetAssumption DEF Crash, Fault, TypeOK
  <2>. QED BY <1>6, <2>1, ThrowTyped DEF Crash, TypeOK, rows
<1>. QED BY <1>1, <1>2, <1>3, <1>4, <1>5, <1>6, ClaimNextTyped, ProcessTyped DEF Worker

LEMMA EnvironmentTyped ==
  ASSUME WellFormed, Environment
  PROVE  TypeOK'
<1>. USE DEF WellFormed, marks
<1>1. ASSUME CronSweep PROVE TypeOK'
  BY <1>1, StrandAllTyped DEF CronSweep, TypeOK
<1>2. ASSUME NEW i \in Items, AgeLease(i) \/ AgeProgress(i) PROVE TypeOK'
  <2>1. /\ [item[i] EXCEPT !.aged = TRUE] \in Row
        /\ [item[i] EXCEPT !.progress = "old"] \in Row
    BY DEF TypeOK, Row
  <2>. QED BY <1>2, <2>1 DEF AgeLease, AgeProgress, TypeOK
<1>3. ASSUME NEW k, Request(k) PROVE requests' \in 0 .. MaxRequests
  BY <1>3, BudgetAssumption DEF Request, TypeOK
<1>4. ASSUME NEW s \in {"queued", "summarizing"} PROVE WaitingRow(s, 0) \in Row
  BY DEF WaitingRow, Row, Status, InProgress
<1>5. ASSUME NEW i \in Items, Retry(i) PROVE TypeOK'
  BY <1>3, <1>4, <1>5, MessagesTyped, MarksTyped DEF Retry, SendUnlessKilled, TypeOK
<1>6. ASSUME NEW i \in Items, Regenerate(i) PROVE TypeOK'
  <2>1. /\ disturbed' \in SUBSET Items /\ revivals' \in [Items -> Nat]
        /\ requests' \in 0 .. MaxRequests
    BY <1>3, <1>6, MarksTyped DEF Regenerate
  <2>2. queue' \in SUBSET Message
    BY <1>6, MessagesTyped DEF Regenerate, SendUnlessKilled, TypeOK
  <2>3. item' \in [Items -> Row]
    BY <1>4, <1>6 DEF Regenerate, TypeOK
  <2>. QED BY <1>6, <2>1, <2>2, <2>3 DEF Regenerate, TypeOK
<1>7. ASSUME NEW i \in Items, RepairSummary(i) PROVE TypeOK'
  <2>1. [item[i] EXCEPT !.status = "summarizing"] \in Row
    <3>1. item[i] \in Row
      BY DEF TypeOK
    <3>. QED BY <3>1 DEF Row, Status, InProgress
  <2>. QED BY <1>3, <1>7, <2>1, MessagesTyped, MarksTyped DEF RepairSummary, SendUnlessKilled, TypeOK
<1>8. ASSUME NEW i \in Items, Nudge(i) PROVE TypeOK'
  BY <1>3, <1>8, MessagesTyped DEF Nudge, Send, TypeOK, rows
<1>. QED BY <1>1, <1>2, <1>5, <1>6, <1>7, <1>8 DEF Environment

-----------------------------------------------------------------------------
(* Invocations name the item they work on *)

LEMMA IdleNamed == Named(Idle) /\ NamedMsg(PumpMsg)
BY DEF Named, NamedMsg, Idle, PumpMsg, ProcessMsg, Running

LEMMA BecomeNamed ==
  ASSUME TypeOK, NamesItem, NEW w \in Workers, NEW v, Named(v), Become(w, v),
         \A m \in queue' : NamedMsg(m)
  PROVE  NamesItem'
BY DEF NamesItem, Become, TypeOK

LEMMA SentNamed ==
  /\ \A i : NamedMsg(ProcessMsg(i))
  /\ \A i \in Items : NamedMsg(ResummarizeMsg(i))
  /\ \A m \in Message : NamedMsg(m) => \A n \in Redelivery(m) : NamedMsg(n)
<1>1. ASSUME NEW m \in Message, NamedMsg(m), NEW n \in Redelivery(m)
      PROVE  NamedMsg(n)
  <2>1. n.kind = m.kind /\ n.id = m.id
    BY DEF Redelivery, Message
  <2>. QED BY <1>1, <2>1 DEF NamedMsg
<1>. QED BY <1>1 DEF NamedMsg, ProcessMsg, ResummarizeMsg

LEMMA ThrowNamed ==
  ASSUME WellFormed, NEW w \in Workers, Throw(w)
  PROVE  NamesItem'
<1>1. inv[w].msg \in Message /\ NamedMsg(inv[w].msg)
  BY DEF WellFormed, TypeOK, NamesItem, Named, Invocation
<1>. QED BY <1>1, SentNamed, IdleNamed, BecomeNamed DEF Throw, WellFormed, NamesItem

LEMMA GotoNamed ==
  ASSUME WellFormed, NEW w \in Workers, NEW p \in Points, Goto(w, p), queue' = queue,
         p \notin {"recoverRead", "resummarizeClaim"},
         \/ p \notin (Running \ {"continue"}) \cup {"claim", "recoverClaim"}
         \/ inv[w].id \in Items
  PROVE  NamesItem'
<1>1. Named([inv[w] EXCEPT !.pc = p])
  BY DEF WellFormed, TypeOK, NamesItem, Named, Invocation
<1>. QED BY <1>1, BecomeNamed DEF Goto, WellFormed, NamesItem

LEMMA ReturnNamed ==
  ASSUME WellFormed, NEW w \in Workers, Return(w), queue' = queue
  PROVE  NamesItem'
<1>1. Named([Idle EXCEPT !.pc = "ack", !.msg = inv[w].msg])
  BY DEF WellFormed, TypeOK, NamesItem, Named, Invocation, Idle, Running
<1>. QED BY <1>1, BecomeNamed DEF Return, WellFormed, NamesItem

LEMMA ClaimNextNamed ==
  ASSUME WellFormed, NEW w \in Workers, ClaimNext(w)
  PROVE  NamesItem'
<1>0. /\ TypeOK /\ NamesItem /\ inv[w] \in Invocation /\ Named(inv[w])
      /\ \A m \in queue : NamedMsg(m)
  BY DEF WellFormed, TypeOK, NamesItem
<1>1. CASE Reap(w)
  BY <1>1, GotoNamed DEF Reap, Points, Running
<1>2. CASE FailStranded(w)
  BY <1>2, GotoNamed DEF FailStranded, Points, Running
<1>3. CASE Select(w)
  <2>1. ASSUME NEW i \in Candidates(w)
        PROVE  Named([inv[w] EXCEPT !.pc = "claim", !.id = i])
    <3>1. i \in Items
      BY DEF Candidates, Best, ClaimableItems
    <3>. QED BY <1>0, <3>1 DEF Named, Invocation, Running
  <2>. QED BY <1>0, <1>3, <2>1, BecomeNamed, GotoNamed DEF Select, Points, Running
<1>4. CASE Claim(w)
  <2>1. ASSUME NEW p \in {"select", "continue"}
        PROVE  Named([inv[w] EXCEPT !.pc = p, !.id = NoItem, !.tries = @ + 1])
    BY <1>0 DEF Named, Invocation, Running
  <2>. QED BY <1>0, <1>4, <2>1, BecomeNamed, GotoNamed DEF Claim, Points, Running
<1>5. CASE Continue(w)
  <2>1. ASSUME inv[w].id # NoItem
        PROVE  Named([inv[w] EXCEPT !.pc = "resume", !.tries = 0])
    BY <1>0, <2>1 DEF Named, Invocation, Running
  <2>2. \A m \in queue' : NamedMsg(m)
    BY <1>0, <1>5, SentNamed DEF Continue, Send
  <2>. QED BY <1>0, <1>5, <2>1, <2>2, IdleNamed, BecomeNamed DEF Continue
<1>6. CASE RecoverRead(w)
  <2>. DEFINE i == inv[w].msg.id
              snap == [status |-> item[i].status, startedAt |-> item[i].startedAt,
                       live |-> HasRunner(i)]
              stored == i \in transcript
  <2>1. Named([inv[w] EXCEPT !.pc = "recoverClaim", !.id = i, !.resume = stored,
                             !.seen = snap])
    <3>1. i \in Items
      BY <1>0, <1>6 DEF RecoverRead, At, Named
    <3>. HIDE DEF snap, stored
    <3>. QED BY <1>0, <3>1 DEF Named, Invocation, Running
  <2>. QED BY <1>0, <1>6, <2>1, IdleNamed, BecomeNamed DEF RecoverRead
<1>7. CASE RecoverClaim(w)
  <2>1. Named([inv[w] EXCEPT !.pc = "pipeline", !.seen = NoSnapshot])
    BY <1>0, <1>7 DEF RecoverClaim, At, Named, Invocation, Running
  <2>. QED BY <1>0, <1>7, <2>1, IdleNamed, BecomeNamed DEF RecoverClaim
<1>8. CASE ResummarizeClaim(w)
  <2>1. Named([inv[w] EXCEPT !.pc = "pipeline", !.id = inv[w].msg.id, !.resume = TRUE])
    BY <1>0, <1>8 DEF ResummarizeClaim, At, Named, Invocation, Running
  <2>. QED BY <1>0, <1>8, <2>1, IdleNamed, BecomeNamed DEF ResummarizeClaim
<1>. QED BY <1>1, <1>2, <1>3, <1>4, <1>5, <1>6, <1>7, <1>8 DEF ClaimNext

LEMMA ProcessNamed ==
  ASSUME WellFormed, NEW w \in Workers, Process(w)
  PROVE  NamesItem'
<1>0. /\ TypeOK /\ NamesItem /\ inv[w] \in Invocation /\ Named(inv[w])
      /\ \A m \in queue : NamedMsg(m)
      /\ inv[w].pc \in Running \ {"continue"} => inv[w].id \in Items
  BY DEF WellFormed, TypeOK, NamesItem, Named
<1>1. CASE Resume(w)
  <2>. DEFINE stored == inv[w].id \in transcript
  <2>1. Named([inv[w] EXCEPT !.pc = "pipeline", !.resume = stored])
    <3>. HIDE DEF stored
    <3>. QED BY <1>0, <1>1 DEF Resume, At, Named, Invocation, Running
  <2>. QED BY <1>0, <1>1, <2>1, BecomeNamed DEF Resume
<1>2. CASE RunReturns(w)
  <2>1. ASSUME NEW p \in {"summary", "markExcluded"}
        PROVE  Named([inv[w] EXCEPT !.pc = p, !.resume = FALSE])
    BY <1>0, <1>2 DEF RunReturns, At, Named, Invocation, Running
  <2>. QED BY <1>0, <1>2, <2>1, BecomeNamed DEF RunReturns
<1>3. CASE PersistSummary(w) \/ DropChunks(w) \/ AddChunks(w) \/ MarkDone(w) \/ MarkExcluded(w)
  BY <1>0, <1>3, GotoNamed
     DEF PersistSummary, DropChunks, AddChunks, MarkDone, MarkExcluded, At, Points, Running
<1>4. CASE MarkLibrary(w) \/ DropLibrary(w)
  BY <1>4, ReturnNamed DEF MarkLibrary, DropLibrary
<1>5. CASE FailRead(w)
  <2>. DEFINE stored == inv[w].id \in transcript
              n == item[inv[w].id].retry + 1
  <2>1. Named([inv[w] EXCEPT !.pc = "failWrite", !.resume = stored, !.attempts = n])
    <3>. HIDE DEF stored, n
    <3>. QED BY <1>0, <1>5 DEF FailRead, At, Named, Invocation, Running
  <2>. QED BY <1>0, <1>5, <2>1, BecomeNamed DEF FailRead
<1>6. CASE FailWrite(w)
  BY <1>6, ThrowNamed, ReturnNamed DEF FailWrite
<1>7. CASE Ack(w)
  BY <1>0, <1>7, IdleNamed, BecomeNamed DEF Ack
<1>. QED BY <1>1, <1>2, <1>3, <1>4, <1>5, <1>6, <1>7 DEF Process

LEMMA NextNamed ==
  ASSUME WellFormed, [Next]_vars
  PROVE  NamesItem'
<1>0. TypeOK /\ NamesItem /\ (\A m \in queue : NamedMsg(m))
  BY DEF WellFormed, NamesItem
<1>1. ASSUME NEW w \in Workers, Worker(w) PROVE NamesItem'
  <2>0. inv[w] \in Invocation /\ Named(inv[w])
    BY <1>0 DEF TypeOK, NamesItem
  <2>1. CASE CronPump(w)
    <3>1. Named([inv[w] EXCEPT !.pc = "reap", !.msg = PumpMsg])
      BY <2>0, IdleNamed DEF Named, Invocation, Running
    <3>. QED BY <1>0, <2>1, <3>1, BecomeNamed DEF CronPump
  <2>2. ASSUME NEW m \in queue, Deliver(w, m) PROVE NamesItem'
    <3>1. Named([Idle EXCEPT !.pc = EntryPoint(m), !.msg = m])
      <4>1. m \in Message /\ NamedMsg(m)
        BY <1>0 DEF TypeOK
      <4>2. EntryPoint(m) \in {"recoverRead", "resummarizeClaim"} => m.id \in Items
        BY <4>1 DEF EntryPoint, NamedMsg, Message
      <4>3. EntryPoint(m) \notin Running \cup {"claim", "recoverClaim"}
        BY DEF EntryPoint, Running
      <4>. HIDE DEF Running
      <4>. QED BY <4>1, <4>2, <4>3 DEF Idle, Named
    <3>. QED BY <1>0, <2>2, <3>1, BecomeNamed DEF Deliver
  <2>3. CASE Fails(w)
    <3>1. ASSUME NEW k
          PROVE  Named([inv[w] EXCEPT !.pc = "failRead", !.failure = k, !.resume = FALSE])
      BY <2>0, <2>3 DEF Fails, Named, Invocation, Trying, Running
    <3>. QED BY <1>0, <2>3, <3>1, BecomeNamed DEF Fails
  <2>4. CASE Crash(w)
    BY <2>4, ThrowNamed DEF Crash
  <2>5. CASE Heartbeat(w) \/ PartialTranscript(w)
    BY <1>0, <2>5 DEF Heartbeat, PartialTranscript, NamesItem
  <2>. QED BY <1>1, <2>1, <2>2, <2>3, <2>4, <2>5, ClaimNextNamed, ProcessNamed DEF Worker
<1>2. ASSUME Environment PROVE NamesItem'
  <2>1. inv' = inv
    BY <1>2 DEF Environment, CronSweep, AgeLease, AgeProgress, Retry, Regenerate,
                RepairSummary, Nudge
  <2>2. \A m \in queue' : NamedMsg(m)
    <3>1. ASSUME NEW i \in Items, Retry(i) \/ Nudge(i)
          PROVE  \A m \in queue' : NamedMsg(m)
      BY <1>0, <3>1, SentNamed DEF Retry, Nudge, Send, SendUnlessKilled
    <3>2. ASSUME NEW i \in Items, Regenerate(i) \/ RepairSummary(i)
          PROVE  \A m \in queue' : NamedMsg(m)
      BY <1>0, <3>2, SentNamed DEF Regenerate, RepairSummary, SendUnlessKilled
    <3>. QED BY <1>0, <1>2, <3>1, <3>2 DEF Environment, CronSweep, AgeLease, AgeProgress
  <2>. QED BY <1>0, <2>1, <2>2 DEF NamesItem
<1>3. ASSUME UNCHANGED vars PROVE NamesItem'
  BY <1>0, <1>3 DEF vars, NamesItem
<1>. QED BY <1>1, <1>2, <1>3 DEF Next

-----------------------------------------------------------------------------
(* The first theorem *)

LEMMA InitWellFormed == Init => WellFormed
<1> SUFFICES ASSUME Init PROVE WellFormed
  OBVIOUS
<1>1. FreshRow \in Row
  BY DEF FreshRow, Row, Status, InProgress
<1>2. \A m \in queue : NamedMsg(m) /\ m \in Message
  BY MessagesTyped, SentNamed DEF Init
<1>3. faults \in 0 .. MaxFaults /\ requests \in 0 .. MaxRequests
  BY BudgetAssumption DEF Init
<1>. QED BY <1>1, <1>2, <1>3, IdleTyped, IdleNamed DEF Init, WellFormed, TypeOK, NamesItem

LEMMA NextWellFormed == WellFormed /\ [Next]_vars => WellFormed'
<1> SUFFICES ASSUME WellFormed, [Next]_vars PROVE WellFormed'
  OBVIOUS
<1>1. TypeOK'
  <2>1. CASE UNCHANGED vars
    BY <2>1 DEF vars, WellFormed, TypeOK
  <2>. QED BY <2>1, WorkerTyped, EnvironmentTyped DEF Next
<1>. QED BY <1>1, NextNamed DEF WellFormed

\* Every reachable state of the pipeline is well typed, for every number of
\* items, concurrent invocations, deliveries, faults and requests.
THEOREM TypeCorrect == Spec => []TypeOK
<1>1. WellFormed => TypeOK
  BY DEF WellFormed
<1>. QED BY <1>1, InitWellFormed, NextWellFormed, PTL DEF Spec

-----------------------------------------------------------------------------
(* A done item has its summary *)

\* The strengthening: between writing the summary and markItemDone the
\* summary is there, because nothing ever removes one.
SummaryWritten ==
  \A w \in Workers :
    inv[w].pc \in {"dropChunks", "addChunks", "markDone"} => summary[inv[w].id] # NoWorker
SummaryInv == WellFormed /\ DoneIsSummarised /\ SummaryWritten

LEMMA SummaryKept ==
  ASSUME TypeOK, NamesItem, [Next]_vars, NEW i \in Items, summary[i] # NoWorker
  PROVE  summary'[i] # NoWorker
<1>1. ASSUME NEW w \in Workers, PersistSummary(w) PROVE summary'[i] # NoWorker
  BY <1>1, NullAssumption DEF PersistSummary, TypeOK
<1>2. CASE summary' = summary
  BY <1>2
<1>3. summary' = summary \/ \E w \in Workers : PersistSummary(w)
  BY DEF Next, vars, rows, Worker, Environment, ClaimNext, Process, CronPump, Deliver, Reap,
         FailStranded, Select, Claim, Continue, RecoverRead, RecoverClaim, ResummarizeClaim,
         Resume, RunReturns, DropChunks, AddChunks, MarkDone, MarkLibrary, MarkExcluded,
         DropLibrary, FailRead, FailWrite, Ack, Heartbeat, PartialTranscript, Fails, Crash,
         CronSweep, AgeLease, AgeProgress, Retry, Regenerate, RepairSummary, Nudge
<1>. QED BY <1>1, <1>2, <1>3

\* Only markItemDone makes an item done.
LEMMA DoneOnlyByMarkDone ==
  ASSUME WellFormed, [Next]_vars, NEW i \in Items,
         item'[i].status = "done", item[i].status # "done"
  PROVE  \E w \in Workers : MarkDone(w) /\ inv[w].id = i
<1>0. item \in [Items -> Row] /\ item[i] \in Row
  BY DEF WellFormed, TypeOK
<1>1. ASSUME NEW w \in Workers, MarkDone(w) PROVE inv[w].id = i
  BY <1>0, <1>1 DEF MarkDone
<1>2. StrandAll[i].status # "done"
  BY <1>0 DEF StrandAll, FinishedRow, Row
<1>3. ASSUME NEW w \in Workers, ClaimNext(w) PROVE FALSE
  <2>1. CASE Reap(w)
    BY <1>0, <2>1 DEF Reap, WaitingRow
  <2>2. CASE FailStranded(w)
    BY <1>2, <2>2 DEF FailStranded
  <2>3. CASE Select(w) \/ Continue(w) \/ RecoverRead(w)
    BY <2>3 DEF Select, Continue, RecoverRead, rows
  <2>4. CASE Claim(w) \/ RecoverClaim(w) \/ ResummarizeClaim(w)
    <3>1. \A t, n : [item EXCEPT ![i] = ClaimedRow(item[i], t, n)][i].status = "fetching"
      BY <1>0, RowsStatus
    <3>2. CASE Claim(w)
      BY <1>0, <3>1, <3>2 DEF Claim
    <3>3. CASE RecoverClaim(w)
      BY <1>0, <3>1, <3>3 DEF RecoverClaim
    <3>4. CASE ResummarizeClaim(w)
      <4>1. ASSUME NEW t, NEW n
            PROVE  [ClaimedRow(item[i], t, n) EXCEPT !.status = "summarizing"].status
                     = "summarizing"
        BY <1>0, RowsStatus
      <4>. DEFINE j == inv[w].msg.id
                  new == [ClaimedRow(item[j], Now(w, j), item[j].retry)
                            EXCEPT !.status = "summarizing"]
      <4>2. item' = item \/ item' = [item EXCEPT ![j] = new]
        BY <3>4 DEF ResummarizeClaim
      <4>3. j = i => new.status = "summarizing"
        BY <4>1
      <4>. HIDE DEF new, j
      <4>. QED BY <1>0, <4>2, <4>3
    <3>. QED BY <2>4, <3>2, <3>3, <3>4
  <2>. QED BY <1>3, <2>1, <2>2, <2>3, <2>4 DEF ClaimNext
<1>4. ASSUME NEW w \in Workers, Process(w), ~MarkDone(w) PROVE FALSE
  <2>1. CASE MarkExcluded(w)
    BY <1>0, <2>1 DEF MarkExcluded, Row
  <2>2. CASE FailWrite(w)
    BY <1>0, <2>2, RowsStatus DEF FailWrite
  <2>. QED BY <1>4, <2>1, <2>2
           DEF Process, Resume, RunReturns, PersistSummary, DropChunks, AddChunks,
               MarkLibrary, DropLibrary, FailRead, Ack, rows
<1>5. ASSUME NEW w \in Workers, Worker(w), ~ClaimNext(w), ~Process(w) PROVE FALSE
  <2>1. CASE Heartbeat(w)
    BY <1>0, <2>1, NullAssumption DEF Heartbeat, Row
  <2>. QED BY <1>5, <2>1 DEF Worker, CronPump, Deliver, PartialTranscript, Fails, Crash, rows
<1>6. ASSUME Environment PROVE FALSE
  <2>1. CASE CronSweep
    BY <1>2, <2>1 DEF CronSweep
  <2>2. ASSUME NEW j \in Items,
               AgeLease(j) \/ AgeProgress(j) \/ RepairSummary(j)
        PROVE  FALSE
    <3>1. item' \in {[item EXCEPT ![j].aged = TRUE], [item EXCEPT ![j].progress = "old"],
                     [item EXCEPT ![j].status = "summarizing"]}
      BY <2>2 DEF AgeLease, AgeProgress, RepairSummary
    <3>. QED BY <1>0, <3>1 DEF Row
  <2>3. ASSUME NEW j \in Items, Retry(j) \/ Regenerate(j) \/ Nudge(j)
        PROVE  FALSE
    <3>1. item' \in {item, [item EXCEPT ![j] = WaitingRow("queued", 0)],
                     [item EXCEPT ![j] = WaitingRow("summarizing", 0)]}
      BY <2>3 DEF Retry, Regenerate, Nudge, rows
    <3>. QED BY <1>0, <3>1 DEF WaitingRow
  <2>. QED BY <1>6, <2>1, <2>2, <2>3 DEF Environment
<1>. QED BY <1>1, <1>3, <1>4, <1>5, <1>6 DEF Next, vars

\* The program points after PersistSummary are entered from it alone.
LEMMA SummaryWrittenStep ==
  ASSUME SummaryInv, [Next]_vars
  PROVE  SummaryWritten'
<1> SUFFICES ASSUME NEW w \in Workers,
                    inv'[w].pc \in {"dropChunks", "addChunks", "markDone"}
             PROVE  summary'[inv'[w].id] # NoWorker
  BY DEF SummaryWritten
<1>0. TypeOK /\ NamesItem /\ inv \in [Workers -> Invocation]
      /\ summary \in [Items -> Workers \cup {NoWorker}]
  BY DEF SummaryInv, WellFormed, TypeOK
<1>1. CASE inv'[w] = inv[w]
  <2>1. summary[inv[w].id] # NoWorker
    BY <1>1 DEF SummaryInv, SummaryWritten
  <2>2. inv[w].id \in Items
    BY <1>0, <1>1 DEF NamesItem, Named, Running
  <2>. QED BY <1>0, <1>1, <2>1, <2>2, SummaryKept
<1>2. CASE PersistSummary(w)
  <2>1. inv[w].id \in Items /\ inv'[w].id = inv[w].id /\ summary'[inv[w].id] = w
    BY <1>0, <1>2 DEF PersistSummary, Goto, Become, At, NamesItem, Named, Running, Invocation
  <2>. QED BY <2>1, NullAssumption
<1>3. CASE DropChunks(w) \/ AddChunks(w)
  <2>1. inv[w].id \in Items /\ inv'[w].id = inv[w].id /\ summary[inv[w].id] # NoWorker
    BY <1>0, <1>3 DEF DropChunks, AddChunks, Goto, Become, At, NamesItem, Named, Running,
                      Invocation, SummaryInv, SummaryWritten
  <2>. QED BY <1>0, <2>1, SummaryKept
<1>4. ASSUME inv'[w] # inv[w], ~PersistSummary(w), ~DropChunks(w), ~AddChunks(w)
      PROVE  FALSE
  <2>1. Worker(w)
    <3>1. ASSUME NEW v \in Workers, Worker(v), v # w PROVE inv'[w] = inv[w]
      BY <1>0, <3>1
         DEF Worker, ClaimNext, Process, CronPump, Deliver, Reap, FailStranded, Select, Claim,
             Continue, RecoverRead, RecoverClaim, ResummarizeClaim, Resume, RunReturns,
             PersistSummary, DropChunks, AddChunks, MarkDone, MarkLibrary, MarkExcluded,
             DropLibrary, FailRead, FailWrite, Ack, Heartbeat, PartialTranscript, Fails,
             Crash, Become, Goto, Return, Throw
    <3>2. Environment \/ UNCHANGED vars => inv' = inv
      BY DEF Environment, vars, CronSweep, AgeLease, AgeProgress, Retry, Regenerate,
             RepairSummary, Nudge
    <3>. QED BY <1>4, <3>1, <3>2 DEF Next
  <2>2. /\ inv[w] \in Invocation
        /\ \A v : Become(w, v) => inv'[w] = v
    BY <1>0 DEF Become
  <2>3. \A p : Goto(w, p) => inv'[w].pc = p
    BY <2>2 DEF Goto, Invocation
  <2>4. Return(w) => inv'[w].pc = "ack"
    BY <2>2 DEF Return, Idle
  <2>5. Become(w, Idle) => inv'[w].pc = "idle"
    BY <2>2 DEF Idle
  <2>6. ~ClaimNext(w)
    <3>1. CASE Reap(w) \/ FailStranded(w)
      BY <2>3, <3>1 DEF Reap, FailStranded
    <3>2. CASE Select(w)
      BY <2>2, <2>3, <3>2 DEF Select, Invocation
    <3>3. CASE Claim(w)
      BY <2>2, <2>3, <3>3 DEF Claim, Invocation
    <3>4. CASE Continue(w)
      BY <2>2, <2>5, <3>4 DEF Continue, Invocation
    <3>5. CASE RecoverRead(w)
      BY <2>2, <2>5, <3>5 DEF RecoverRead, Invocation
    <3>6. CASE RecoverClaim(w) \/ ResummarizeClaim(w)
      BY <2>2, <2>5, <3>6 DEF RecoverClaim, ResummarizeClaim, Invocation
    <3>. QED BY <3>1, <3>2, <3>3, <3>4, <3>5, <3>6 DEF ClaimNext
  <2>7. ~Process(w)
    <3>1. CASE Resume(w)
      BY <2>2, <3>1 DEF Resume, Invocation
    <3>2. CASE RunReturns(w)
      BY <2>2, <3>2 DEF RunReturns, Invocation
    <3>3. CASE FailRead(w)
      BY <2>2, <3>3 DEF FailRead, Invocation
    <3>4. CASE FailWrite(w)
      BY <2>4, <2>5, <3>4 DEF FailWrite, Throw
    <3>. QED BY <1>4, <2>3, <2>4, <2>5, <3>1, <3>2, <3>3, <3>4
             DEF Process, MarkDone, MarkLibrary, MarkExcluded, DropLibrary, Ack
  <2>8. ~CronPump(w) /\ ~Fails(w) /\ ~Crash(w)
    BY <2>2, <2>5 DEF CronPump, Fails, Crash, Throw, Invocation
  <2>9. ASSUME NEW m \in queue, Deliver(w, m) PROVE FALSE
    <3>1. inv'[w].pc = EntryPoint(m)
      BY <2>2, <2>9 DEF Deliver, Idle
    <3>. QED BY <3>1 DEF EntryPoint
  <2>. QED BY <1>4, <2>1, <2>6, <2>7, <2>8, <2>9 DEF Worker, Heartbeat, PartialTranscript
<1>. QED BY <1>1, <1>2, <1>3, <1>4

\* An item shown as done has a stored summary, whatever evictions, redeliveries,
\* failed statements, second runners and resets came in between.
THEOREM DoneAlwaysSummarised == Spec => []DoneIsSummarised
<1>1. Init => SummaryInv
  <2>1. Init => DoneIsSummarised
    BY DEF Init, DoneIsSummarised, FreshRow
  <2>2. Init => SummaryWritten
    BY DEF Init, SummaryWritten, Idle
  <2>. QED BY <2>1, <2>2, InitWellFormed DEF SummaryInv
<1>2. SummaryInv /\ [Next]_vars => SummaryInv'
  <2> SUFFICES ASSUME SummaryInv, [Next]_vars PROVE SummaryInv'
    OBVIOUS
  <2>1. WellFormed'
    BY NextWellFormed DEF SummaryInv
  <2>2. ASSUME NEW i \in Items, item'[i].status = "done" PROVE summary'[i] # NoWorker
    <3>0. TypeOK /\ NamesItem
      BY DEF SummaryInv, WellFormed
    <3>1. summary[i] # NoWorker
      <4>1. CASE item[i].status = "done"
        BY <4>1 DEF SummaryInv, DoneIsSummarised
      <4>2. CASE item[i].status # "done"
        <5>1. PICK w \in Workers : MarkDone(w) /\ inv[w].id = i
          BY <2>2, <4>2, DoneOnlyByMarkDone DEF SummaryInv
        <5>. QED BY <5>1 DEF MarkDone, At, SummaryInv, SummaryWritten
      <4>. QED BY <4>1, <4>2
    <3>. QED BY <3>0, <3>1, SummaryKept
  <2>. QED BY <2>1, <2>2, SummaryWrittenStep DEF SummaryInv, DoneIsSummarised
<1>3. SummaryInv => DoneIsSummarised
  BY DEF SummaryInv
<1>. QED BY <1>1, <1>2, <1>3, PTL DEF Spec

-----------------------------------------------------------------------------
(* Leases.  Whatever is evicted, fails, is redelivered or sent back, two   *)
(* invocations meet on an item only after its run was disturbed.           *)

\* The row of an item that a live invocation works on.
Held(r) ==
  /\ r.status \in InProgress \cup {"done", "excluded"}
  /\ Leased(r) /\ ~r.aged /\ r.progress # "old"

Unnamed == {"idle", "reap", "strand", "select", "ack"}
NoneChosen == \A w \in Workers : inv[w].pc \in Unnamed => inv[w].id = NoItem

RunnersHold ==
  \A i \in Items \ disturbed : \A w \in Workers : Runs(w, i) => Held(item[i])

\* A run that started after a redelivery read the row has stamped it anew, so
\* that the redelivery's optimistic lease misses.
Noticed ==
  \A v \in Workers : inv[v].pc = "recoverClaim" =>
    /\ inv[v].seen.status \notin {"done", "excluded"}
    /\ \A i \in Items \ disturbed :
         inv[v].id = i /\ ~inv[v].seen.live /\ HasRunner(i)
           => item[i].startedAt # inv[v].seen.startedAt

LeaseFacts == NoneChosen /\ RunnersHold /\ OneRunner /\ Noticed
LeaseInv == WellFormed /\ LeaseFacts

-----------------------------------------------------------------------------
(* Held rows are out of reach *)

LEMMA HeldOutOfReach ==
  ASSUME NEW r \in Row, Held(r)
  PROVE  ~Claimable(r) /\ ~Strandable(r) /\ ~Silent(r)
BY DEF Held, Claimable, Strandable, Silent, InProgress, Row

LEMMA ClaimedHeld ==
  ASSUME NEW r \in Row, NEW t \in Stamps, NEW n
  PROVE  /\ Held(ClaimedRow(r, t, n)) /\ ClaimedRow(r, t, n).startedAt = t
         /\ Held([ClaimedRow(r, t, n) EXCEPT !.status = "summarizing"])
         /\ [ClaimedRow(r, t, n) EXCEPT !.status = "summarizing"].startedAt = t
BY NullAssumption DEF Held, Leased, ClaimedRow, InProgress, Row

LEMMA MarkedHeld ==
  ASSUME NEW r \in Row, Held(r), NEW n
  PROVE  /\ Held(FinishedRow(r, "done", n))
         /\ FinishedRow(r, "done", n).startedAt = r.startedAt
         /\ Held([r EXCEPT !.status = "excluded", !.retry = n])
         /\ [r EXCEPT !.status = "excluded", !.retry = n].startedAt = r.startedAt
         /\ \A s \in InProgress :
              /\ Held([r EXCEPT !.status = s, !.progress = "fresh"])
              /\ [r EXCEPT !.status = s, !.progress = "fresh"].startedAt = r.startedAt
BY DEF Held, Leased, FinishedRow, InProgress, Row

-----------------------------------------------------------------------------
(* Steps of one invocation *)

\* An invocation that moves on without starting to run an item, on rows that
\* stay held, with their stamp, where they are run.
LEMMA MoveOn ==
  ASSUME LeaseInv, NEW w \in Workers, NEW v, Become(w, v), disturbed' = disturbed,
         v.pc # "recoverClaim",
         v.pc \in Running => (v.id = inv[w].id /\ inv[w].pc \in Running) \/ v.id = NoItem,
         v.pc \in Unnamed => v.id = NoItem,
         \A i \in Items \ disturbed : \A u \in Workers :
           Runs(u, i)' => Held(item'[i]) /\ item'[i].startedAt = item[i].startedAt
  PROVE  LeaseFacts'
<1>1. inv' = [inv EXCEPT ![w] = v] /\ inv \in [Workers -> Invocation]
  BY DEF Become, LeaseInv, WellFormed, TypeOK
<1>2. NoneChosen'
  BY <1>1 DEF LeaseInv, LeaseFacts, NoneChosen
<1>3. ASSUME NEW i \in Items, NEW u \in Workers, Runs(u, i)' PROVE Runs(u, i)
  BY <1>1, <1>3, NullAssumption DEF Runs
<1>4. OneRunner'
  BY <1>3 DEF LeaseInv, LeaseFacts, OneRunner
<1>5. RunnersHold'
  BY DEF RunnersHold
<1>6. ASSUME NEW u \in Workers, inv'[u].pc = "recoverClaim"
      PROVE  /\ inv'[u].seen.status \notin {"done", "excluded"}
             /\ \A i \in Items \ disturbed' :
                  inv'[u].id = i /\ ~inv'[u].seen.live /\ HasRunner(i)'
                    => item'[i].startedAt # inv'[u].seen.startedAt
  <2>1. u # w /\ inv'[u] = inv[u]
    BY <1>1, <1>6
  <2>2. ASSUME NEW i \in Items \ disturbed, inv'[u].id = i, ~inv'[u].seen.live, HasRunner(i)'
        PROVE  item'[i].startedAt # inv'[u].seen.startedAt
    <3>1. PICK x \in Workers : Runs(x, i)'
      BY <2>2 DEF HasRunner
    <3>2. HasRunner(i) /\ item'[i].startedAt = item[i].startedAt
      BY <1>3, <3>1 DEF HasRunner
    <3>. QED BY <1>6, <2>1, <2>2, <3>2 DEF LeaseInv, LeaseFacts, Noticed
  <2>3. inv'[u].seen.status \notin {"done", "excluded"}
    BY <1>6, <2>1 DEF LeaseInv, LeaseFacts, Noticed
  <2>. QED BY <2>2, <2>3
<1>7. Noticed'
  BY <1>6 DEF Noticed
<1>. QED BY <1>2, <1>4, <1>5, <1>7 DEF LeaseFacts

\* ... in particular when the rows stay as they are.
LEMMA MoveOnSameRows ==
  ASSUME LeaseInv, NEW w \in Workers, NEW v, Become(w, v), item' = item,
         disturbed' = disturbed, v.pc # "recoverClaim",
         v.pc \in Running => (v.id = inv[w].id /\ inv[w].pc \in Running) \/ v.id = NoItem,
         v.pc \in Unnamed => v.id = NoItem
  PROVE  LeaseFacts'
<1>1. inv' = [inv EXCEPT ![w] = v] /\ inv \in [Workers -> Invocation]
  BY DEF Become, LeaseInv, WellFormed, TypeOK
<1>2. ASSUME NEW i \in Items \ disturbed, NEW u \in Workers, Runs(u, i)'
      PROVE  Held(item'[i]) /\ item'[i].startedAt = item[i].startedAt
  <2>1. Runs(u, i)
    BY <1>1, <1>2, NullAssumption DEF Runs
  <2>. QED BY <2>1 DEF LeaseInv, LeaseFacts, RunnersHold
<1>. QED BY <1>2, MoveOn

\* ... and when the only row that changes is one the invocation runs itself,
\* and either stays held, if its run was not disturbed, or is let go.
LEMMA MoveOnOwnRow ==
  ASSUME LeaseInv, NEW w \in Workers, NEW v, Become(w, v), disturbed' = disturbed,
         v.pc # "recoverClaim",
         NEW i \in Items, Runs(w, i), NEW r, item' = [item EXCEPT ![i] = r],
         v.pc \in Running => v.id = inv[w].id,
         v.pc \in Running /\ i \notin disturbed => Held(r) /\ r.startedAt = item[i].startedAt,
         v.pc \in Unnamed => v.id = NoItem
  PROVE  LeaseFacts'
<1>1. /\ inv' = [inv EXCEPT ![w] = v] /\ inv \in [Workers -> Invocation]
      /\ item \in [Items -> Row]
  BY DEF Become, LeaseInv, WellFormed, TypeOK
<1>2. ASSUME NEW j \in Items \ disturbed, NEW u \in Workers, Runs(u, j)'
      PROVE  Held(item'[j]) /\ item'[j].startedAt = item[j].startedAt
  <2>1. Runs(u, j)
    BY <1>1, <1>2 DEF Runs
  <2>2. j = i => u = w
    BY <2>1 DEF LeaseInv, LeaseFacts, OneRunner
  <2>3. CASE j = i
    BY <1>1, <1>2, <2>2, <2>3 DEF Runs
  <2>4. CASE j # i
    BY <1>1, <2>1, <2>4 DEF LeaseInv, LeaseFacts, RunnersHold
  <2>. QED BY <2>3, <2>4
<1>3. v.pc \in Running => v.id = inv[w].id /\ inv[w].pc \in Running
  BY DEF Runs
<1>. QED BY <1>2, <1>3, MoveOn

\* The sweeps leave held rows alone.
LEMMA Sweep ==
  ASSUME LeaseInv, NEW w \in Workers, NEW p \in Unnamed, Goto(w, p), inv[w].pc \in Unnamed,
         disturbed' = disturbed,
         \A i \in Items : Held(item[i]) => item'[i] = item[i]
  PROVE  LeaseFacts'
<1>. DEFINE v == [inv[w] EXCEPT !.pc = p]
<1>1. /\ inv[w] \in Invocation /\ inv' = [inv EXCEPT ![w] = v]
      /\ inv \in [Workers -> Invocation] /\ inv[w].id = NoItem
  BY DEF Goto, Become, LeaseInv, WellFormed, TypeOK, LeaseFacts, NoneChosen
<1>2. v.pc = p /\ v.id = NoItem
  BY <1>1 DEF Invocation
<1>3. p \notin Running /\ p # "recoverClaim"
  BY DEF Running, Unnamed
<1>. HIDE DEF v
<1>4. ASSUME NEW i \in Items \ disturbed, NEW u \in Workers, Runs(u, i)'
      PROVE  Held(item'[i]) /\ item'[i].startedAt = item[i].startedAt
  <2>1. Runs(u, i)
    BY <1>1, <1>2, <1>3, <1>4 DEF Runs
  <2>. QED BY <2>1 DEF LeaseInv, LeaseFacts, RunnersHold
<1>. QED BY <1>1, <1>2, <1>3, <1>4, MoveOn DEF Become

\* An item that is taken up while nobody runs it is held by the one that takes
\* it; taken while somebody does, it is disturbed.
LEMMA TakeUp ==
  ASSUME LeaseInv, NEW w \in Workers, NEW i \in Items, NEW v, NEW r, Become(w, v),
         inv[w].pc \notin Running, v.pc \in Running, v.id = i,
         item' = [item EXCEPT ![i] = r], Held(r), r.startedAt \in Later(w, i),
         disturbed \subseteq disturbed', i \notin disturbed' => ~HasRunner(i)
  PROVE  LeaseFacts'
<1>1. /\ inv' = [inv EXCEPT ![w] = v] /\ inv \in [Workers -> Invocation]
      /\ item \in [Items -> Row]
      /\ v.pc \notin Unnamed /\ v.pc # "recoverClaim"
  BY DEF Become, LeaseInv, WellFormed, TypeOK, Running, Unnamed
<1>2. ASSUME NEW j \in Items \ disturbed', NEW u \in Workers, Runs(u, j)'
      PROVE  (j = i /\ u = w) \/ (j # i /\ u # w /\ Runs(u, j))
  <2>1. CASE u = w
    BY <1>1, <1>2, <2>1 DEF Runs
  <2>2. CASE u # w
    <3>1. Runs(u, j)
      BY <1>1, <1>2, <2>2 DEF Runs
    <3>. QED BY <1>2, <2>2, <3>1 DEF HasRunner
  <2>. QED BY <2>1, <2>2
<1>3. OneRunner'
  BY <1>2 DEF LeaseInv, LeaseFacts, OneRunner
<1>4. RunnersHold'
  BY <1>1, <1>2 DEF LeaseInv, LeaseFacts, RunnersHold
<1>5. NoneChosen'
  BY <1>1 DEF LeaseInv, LeaseFacts, NoneChosen
<1>6. ASSUME NEW u \in Workers, inv'[u].pc = "recoverClaim"
      PROVE  /\ inv'[u].seen.status \notin {"done", "excluded"}
             /\ \A j \in Items \ disturbed' :
                  inv'[u].id = j /\ ~inv'[u].seen.live /\ HasRunner(j)'
                    => item'[j].startedAt # inv'[u].seen.startedAt
  <2>1. u # w /\ inv'[u] = inv[u]
    BY <1>1, <1>6
  <2>2. ASSUME NEW j \in Items \ disturbed', inv'[u].id = j, ~inv'[u].seen.live, HasRunner(j)'
        PROVE  item'[j].startedAt # inv'[u].seen.startedAt
    <3>1. CASE j = i
      <4>1. item'[j].startedAt \in Later(w, i)
        BY <1>1, <3>1
      <4>. QED BY <2>1, <2>2, <3>1, <4>1 DEF Later
    <3>2. CASE j # i
      <4>1. PICK x \in Workers : Runs(x, j)'
        BY <2>2 DEF HasRunner
      <4>2. HasRunner(j)
        BY <1>2, <3>2, <4>1 DEF HasRunner
      <4>3. item'[j] = item[j]
        BY <1>1, <3>2
      <4>. QED BY <1>6, <2>1, <2>2, <4>2, <4>3 DEF LeaseInv, LeaseFacts, Noticed
    <3>. QED BY <3>1, <3>2
  <2>3. inv'[u].seen.status \notin {"done", "excluded"}
    BY <1>6, <2>1 DEF LeaseInv, LeaseFacts, Noticed
  <2>. QED BY <2>2, <2>3
<1>7. Noticed'
  BY <1>6 DEF Noticed
<1>. QED BY <1>3, <1>4, <1>5, <1>7 DEF LeaseFacts

\* A claim succeeds only on a row no live, undisturbed invocation runs.
LEMMA ClaimLease ==
  ASSUME LeaseInv, NEW w \in Workers, Claim(w)
  PROVE  LeaseFacts'
<1>. DEFINE i == inv[w].id
<1>1. /\ inv[w] \in Invocation /\ inv[w].pc = "claim" /\ i \in Items /\ item[i] \in Row
      /\ disturbed' = disturbed
  BY DEF Claim, At, LeaseInv, WellFormed, TypeOK, NamesItem, Named, marks
<1>2. CASE ~Claimable(item[i])
  <2>. DEFINE v == [inv[w] EXCEPT
                      !.pc = IF inv[w].tries + 1 < MaxClaimTries THEN "select" ELSE "continue",
                      !.id = NoItem, !.tries = @ + 1]
  <2>1. Become(w, v) /\ item' = item
    BY <1>2 DEF Claim
  <2>2. v.id = NoItem /\ v.pc # "recoverClaim"
    BY <1>1 DEF Invocation
  <2>. HIDE DEF v
  <2>. QED BY <1>1, <2>1, <2>2, MoveOnSameRows
<1>3. CASE Claimable(item[i])
  <2>. DEFINE v == [inv[w] EXCEPT !.pc = "continue"]
              n == IF item[i].status = "queued" THEN item[i].retry ELSE item[i].retry + 1
              t == Now(w, i)
              r == ClaimedRow(item[i], t, n)
  <2>1. Become(w, v) /\ item' = [item EXCEPT ![i] = r]
    BY <1>3 DEF Claim, Goto
  <2>2. t \in Stamps /\ t \in Later(w, i)
    BY <1>3, NowLater DEF Claim
  <2>3. Held(r) /\ r.startedAt = t
    <3>. HIDE DEF n, t
    <3>. QED BY <1>1, <2>2, ClaimedHeld
  <2>4. v.pc \in Running /\ v.id = i /\ inv[w].pc \notin Running
    BY <1>1 DEF Invocation, Running
  <2>5. i \notin disturbed' => ~HasRunner(i)
    BY <1>1, <1>3, HeldOutOfReach DEF LeaseInv, LeaseFacts, RunnersHold, HasRunner
  <2>. HIDE DEF v, r, t, i
  <2>. QED BY <1>1, <2>1, <2>2, <2>3, <2>4, <2>5, TakeUp
<1>. QED BY <1>2, <1>3

LEMMA IdleLease == Idle.pc = "idle" /\ Idle.pc \notin Running /\ Idle.id = NoItem
BY DEF Idle, Running

\* A redelivery finds a row that a run holds and has stamped since the read, or
\* it has read the row of a live run.
LEMMA RecoverLease ==
  ASSUME LeaseInv, NEW w \in Workers, RecoverRead(w) \/ RecoverClaim(w)
  PROVE  LeaseFacts'
<1>0. inv[w] \in Invocation /\ item \in [Items -> Row] /\ inv \in [Workers -> Invocation]
  BY DEF LeaseInv, WellFormed, TypeOK
<1>1. ASSUME Become(w, Idle), item' = item, disturbed' = disturbed PROVE LeaseFacts'
  BY <1>1, IdleLease, MoveOnSameRows
<1>2. CASE RecoverRead(w)
  <2>. DEFINE i == inv[w].msg.id
              run == HasRunner(i)
              snap == [status |-> item[i].status, startedAt |-> item[i].startedAt,
                       live |-> run]
              stored == i \in transcript
              v == [inv[w] EXCEPT !.pc = "recoverClaim", !.id = i,
                                  !.resume = stored, !.seen = snap]
  <2>1. item' = item /\ disturbed' = disturbed
    BY <1>2 DEF RecoverRead, rows, marks
  <2>2. CASE item[i].status \in {"done", "excluded"}
    BY <1>1, <1>2, <2>1, <2>2 DEF RecoverRead
  <2>3. CASE item[i].status \notin {"done", "excluded"}
    <3>1. Become(w, v)
      BY <1>2, <2>3 DEF RecoverRead
    <3>2. /\ v.pc = "recoverClaim" /\ v.id = i /\ v.seen.live = run
          /\ v.seen.status = item[i].status
      <4>. HIDE DEF run, stored, i
      <4>. QED BY <1>0 DEF Invocation
    <3>. HIDE DEF v
    <3>3. inv' = [inv EXCEPT ![w] = v]
      BY <3>1 DEF Become
    <3>4. ASSUME NEW j \in Items, NEW u \in Workers, Runs(u, j)' PROVE Runs(u, j)
      <4>1. CASE u = w
        BY <1>0, <3>2, <3>3, <3>4, <4>1 DEF Runs, Running
      <4>2. CASE u # w
        BY <1>0, <3>3, <3>4, <4>2 DEF Runs
      <4>. QED BY <4>1, <4>2
    <3>5. OneRunner' /\ RunnersHold'
      BY <2>1, <3>4 DEF LeaseInv, LeaseFacts, OneRunner, RunnersHold
    <3>6. NoneChosen'
      BY <1>0, <3>2, <3>3 DEF LeaseInv, LeaseFacts, NoneChosen, Unnamed
    <3>7. \A j \in Items : HasRunner(j)' => HasRunner(j)
      BY <3>4 DEF HasRunner
    <3>8. ASSUME NEW u \in Workers, inv'[u].pc = "recoverClaim"
          PROVE  /\ inv'[u].seen.status \notin {"done", "excluded"}
                 /\ \A j \in Items \ disturbed' :
                      inv'[u].id = j /\ ~inv'[u].seen.live /\ HasRunner(j)'
                        => item'[j].startedAt # inv'[u].seen.startedAt
      <4>1. CASE u = w
        <5>1. inv'[u] = v
          BY <1>0, <3>3, <4>1
        <5>. QED BY <2>3, <3>2, <3>7, <5>1
      <4>2. CASE u # w
        <5>1. inv'[u] = inv[u]
          BY <1>0, <3>3, <4>2
        <5>. QED BY <2>1, <3>7, <3>8, <5>1 DEF LeaseInv, LeaseFacts, Noticed
      <4>. QED BY <4>1, <4>2
    <3>9. Noticed'
      BY <3>8 DEF Noticed
    <3>. QED BY <3>5, <3>6, <3>9 DEF LeaseFacts
  <2>. QED BY <2>2, <2>3
<1>3. CASE RecoverClaim(w)
  <2>. DEFINE i == inv[w].id
              Same == /\ item[i].status = inv[w].seen.status
                      /\ item[i].startedAt = inv[w].seen.startedAt
  <2>0. i \in Items /\ item[i] \in Row /\ inv[w].pc = "recoverClaim"
    BY <1>0, <1>3 DEF RecoverClaim, At, LeaseInv, WellFormed, NamesItem, Named
  <2>1. CASE ~Same
    BY <1>1, <1>3, <2>1 DEF RecoverClaim, marks
  <2>2. CASE Same
    <3>. DEFINE v == [inv[w] EXCEPT !.pc = "pipeline", !.seen = NoSnapshot]
                t == Now(w, i)
                r == ClaimedRow(item[i], t, item[i].retry)
    <3>1. Become(w, v) /\ item' = [item EXCEPT ![i] = r]
      BY <1>3, <2>2 DEF RecoverClaim
    <3>2. t \in Stamps /\ t \in Later(w, i)
      BY <1>3, <2>2, NowLater DEF RecoverClaim
    <3>3. Held(r) /\ r.startedAt = t
      <4>. HIDE DEF t
      <4>. QED BY <2>0, <3>2, ClaimedHeld
    <3>4. v.pc \in Running /\ v.id = i /\ inv[w].pc \notin Running
      BY <1>0, <2>0 DEF Invocation, Running
    <3>5. disturbed \subseteq disturbed' /\ (i \notin disturbed' => ~HasRunner(i))
      <4>1. CASE inv[w].seen.live
        <5>1. Disturb(i)
          BY <1>3, <2>2, <4>1 DEF RecoverClaim
        <5>. QED BY <5>1 DEF Disturb
      <4>2. CASE ~inv[w].seen.live
        <5>1. disturbed' = disturbed
          BY <1>3, <2>2, <4>2 DEF RecoverClaim
        <5>. QED BY <2>0, <2>2, <4>2, <5>1 DEF LeaseInv, LeaseFacts, Noticed
      <4>. QED BY <4>1, <4>2
    <3>. HIDE DEF v, r, t, i
    <3>. QED BY <2>0, <3>1, <3>2, <3>3, <3>4, <3>5, TakeUp
  <2>. QED BY <2>1, <2>2
<1>. QED BY <1>2, <1>3

\* A resummarize message takes an unleased row, or was delivered before.
LEMMA ResummarizeLease ==
  ASSUME LeaseInv, NEW w \in Workers, ResummarizeClaim(w)
  PROVE  LeaseFacts'
<1>. DEFINE i == inv[w].msg.id
            Open == /\ item[i].status = "summarizing"
                    /\ inv[w].msg.attempt > 1 \/ ~Leased(item[i])
<1>0. /\ inv[w] \in Invocation /\ inv[w].pc = "resummarizeClaim"
      /\ i \in Items /\ item[i] \in Row
  BY DEF ResummarizeClaim, At, LeaseInv, WellFormed, TypeOK, NamesItem, Named
<1>1. CASE ~Open
  BY <1>1, IdleLease, MoveOnSameRows DEF ResummarizeClaim, marks
<1>2. CASE Open
  <2>. DEFINE v == [inv[w] EXCEPT !.pc = "pipeline", !.id = i, !.resume = TRUE]
              t == Now(w, i)
              r == [ClaimedRow(item[i], t, item[i].retry) EXCEPT !.status = "summarizing"]
  <2>1. Become(w, v) /\ item' = [item EXCEPT ![i] = r]
    BY <1>2 DEF ResummarizeClaim
  <2>2. t \in Stamps /\ t \in Later(w, i)
    BY <1>2, NowLater DEF ResummarizeClaim
  <2>3. Held(r) /\ r.startedAt = t
    <3>. HIDE DEF t
    <3>. QED BY <1>0, <2>2, ClaimedHeld
  <2>4. v.pc \in Running /\ v.id = i /\ inv[w].pc \notin Running
    <3>. HIDE DEF i
    <3>. QED BY <1>0 DEF Invocation, Running
  <2>5. disturbed \subseteq disturbed' /\ (i \notin disturbed' => ~HasRunner(i))
    <3>1. CASE inv[w].msg.attempt > 1
      <4>1. Disturb(i)
        BY <1>2, <3>1 DEF ResummarizeClaim
      <4>. QED BY <4>1 DEF Disturb
    <3>2. CASE ~(inv[w].msg.attempt > 1)
      <4>1. disturbed' = disturbed
        BY <1>2, <3>2 DEF ResummarizeClaim
      <4>2. ~Held(item[i])
        BY <1>2, <3>2 DEF Held
      <4>. QED BY <1>0, <4>1, <4>2 DEF LeaseInv, LeaseFacts, RunnersHold, HasRunner
    <3>. QED BY <3>1, <3>2
  <2>. HIDE DEF v, r, t, i
  <2>. QED BY <1>0, <2>1, <2>2, <2>3, <2>4, <2>5, TakeUp
<1>. QED BY <1>1, <1>2

LEMMA ClaimNextLease ==
  ASSUME LeaseInv, NEW w \in Workers, ClaimNext(w)
  PROVE  LeaseFacts'
<1>. USE DEF marks
<1>0. /\ inv[w] \in Invocation /\ item \in [Items -> Row]
      /\ inv[w].pc \in Unnamed => inv[w].id = NoItem
  BY DEF LeaseInv, WellFormed, TypeOK, LeaseFacts, NoneChosen
<1>1. CASE Reap(w)
  <2>1. \A i \in Items : Held(item[i]) => item'[i] = item[i]
    BY <1>0, <1>1, HeldOutOfReach DEF Reap
  <2>. QED BY <1>1, <2>1, Sweep DEF Reap, At, Unnamed
<1>2. CASE FailStranded(w)
  <2>1. \A i \in Items : Held(item[i]) => item'[i] = item[i]
    BY <1>0, <1>2, HeldOutOfReach DEF FailStranded, StrandAll
  <2>. QED BY <1>2, <2>1, Sweep DEF FailStranded, At, Unnamed
<1>3. CASE Select(w)
  <2>1. ASSUME NEW i, Become(w, [inv[w] EXCEPT !.pc = "claim", !.id = i])
        PROVE  LeaseFacts'
    <3>. DEFINE v == [inv[w] EXCEPT !.pc = "claim", !.id = i]
    <3>1. v.pc = "claim" /\ item' = item /\ disturbed' = disturbed
      BY <1>0, <1>3 DEF Invocation, Select, rows
    <3>2. v.pc \notin Running /\ v.pc \notin Unnamed
      BY <3>1 DEF Running, Unnamed
    <3>. QED BY <2>1, <3>1, <3>2, MoveOnSameRows
  <2>2. ASSUME Goto(w, "continue") PROVE LeaseFacts'
    <3>. DEFINE v == [inv[w] EXCEPT !.pc = "continue"]
    <3>1. v.id = NoItem /\ v.pc = "continue" /\ item' = item /\ disturbed' = disturbed
      BY <1>0, <1>3 DEF Invocation, Select, At, Unnamed, rows
    <3>. QED BY <2>2, <3>1, MoveOnSameRows DEF Goto
  <2>. QED BY <1>3, <2>1, <2>2 DEF Select
<1>4. CASE Claim(w)
  BY <1>4, ClaimLease
<1>5. CASE Continue(w)
  <2>. DEFINE v == IF inv[w].id = NoItem THEN Idle
                   ELSE [inv[w] EXCEPT !.pc = "resume", !.tries = 0]
  <2>1. Become(w, v) /\ item' = item /\ disturbed' = disturbed /\ inv[w].pc \in Running
    BY <1>5 DEF Continue, At, Running, rows
  <2>2. v.id = inv[w].id
    BY <1>0 DEF Invocation, Idle
  <2>3. (v.pc \in Unnamed => v.id = NoItem) /\ v.pc # "recoverClaim"
    BY <1>0 DEF Invocation, Idle, Unnamed
  <2>. QED BY <2>1, <2>2, <2>3, MoveOnSameRows
<1>6. CASE RecoverRead(w) \/ RecoverClaim(w) \/ ResummarizeClaim(w)
  BY <1>6, RecoverLease, ResummarizeLease
<1>. QED BY <1>1, <1>2, <1>3, <1>4, <1>5, <1>6 DEF ClaimNext

LEMMA ProcessLease ==
  ASSUME LeaseInv, NEW w \in Workers, Process(w)
  PROVE  LeaseFacts'
<1>. USE DEF marks
<1>. DEFINE i == inv[w].id
            Acked == [Idle EXCEPT !.pc = "ack", !.msg = inv[w].msg]
<1>0. /\ inv[w] \in Invocation /\ item \in [Items -> Row]
      /\ inv[w].pc \in Running \ {"continue"} =>
           /\ i \in Items /\ Runs(w, i) /\ item[i] \in Row
           /\ i \notin disturbed => Held(item[i])
  BY DEF LeaseInv, WellFormed, TypeOK, NamesItem, Named, LeaseFacts, RunnersHold, Runs
<1>1. /\ Acked.pc = "ack" /\ Acked.id = NoItem
      /\ "ack" \notin Running
  BY DEF Idle, Running
<1>2. ASSUME NEW p \in Running, Goto(w, p), item' = item, disturbed' = disturbed,
             inv[w].pc \in Running
      PROVE  LeaseFacts'
  <2>. DEFINE v == [inv[w] EXCEPT !.pc = p]
  <2>1. v.pc = p /\ v.id = inv[w].id
    BY <1>0 DEF Invocation
  <2>2. p \notin Unnamed /\ p # "recoverClaim"
    BY DEF Running, Unnamed
  <2>. QED BY <1>2, <2>1, <2>2, MoveOnSameRows DEF Goto
<1>3. CASE Resume(w)
  <2>. DEFINE stored == i \in transcript
              v == [inv[w] EXCEPT !.pc = "pipeline", !.resume = stored]
  <2>1. Become(w, v) /\ item' = item /\ disturbed' = disturbed /\ inv[w].pc \in Running
    BY <1>3 DEF Resume, At, Running, rows
  <2>2. v.pc = "pipeline" /\ v.id = inv[w].id
    BY <1>0 DEF Invocation
  <2>. HIDE DEF v
  <2>. QED BY <2>1, <2>2, MoveOnSameRows DEF Unnamed
<1>4. CASE RunReturns(w)
  <2>1. PICK p \in {"summary", "markExcluded"} :
          Become(w, [inv[w] EXCEPT !.pc = p, !.resume = FALSE])
    BY <1>4 DEF RunReturns
  <2>. DEFINE v == [inv[w] EXCEPT !.pc = p, !.resume = FALSE]
  <2>2. /\ v.pc = p /\ v.id = inv[w].id /\ item' = item /\ disturbed' = disturbed
        /\ inv[w].pc \in Running
    BY <1>0, <1>4 DEF Invocation, RunReturns, At, Running, rows
  <2>. HIDE DEF v
  <2>. QED BY <2>1, <2>2, MoveOnSameRows DEF Unnamed, v
<1>5. CASE PersistSummary(w) \/ DropChunks(w) \/ AddChunks(w)
  BY <1>2, <1>5 DEF PersistSummary, DropChunks, AddChunks, At, Running
<1>6. CASE MarkDone(w)
  <2>. DEFINE v == [inv[w] EXCEPT !.pc = "markLibrary"]
              r == FinishedRow(item[i], "done", item[i].retry)
  <2>1. /\ Become(w, v) /\ item' = [item EXCEPT ![i] = r] /\ disturbed' = disturbed
        /\ i \in Items /\ Runs(w, i)
        /\ i \notin disturbed => Held(r) /\ r.startedAt = item[i].startedAt
    BY <1>0, <1>6, MarkedHeld DEF MarkDone, Goto, At, Running
  <2>2. v.pc = "markLibrary" /\ v.id = i
    BY <1>0 DEF Invocation
  <2>. HIDE DEF v, r
  <2>. QED BY <2>1, <2>2, MoveOnOwnRow DEF Unnamed
<1>7. CASE MarkExcluded(w)
  <2>. DEFINE v == [inv[w] EXCEPT !.pc = "dropLibrary"]
              r == [item[i] EXCEPT !.status = "excluded", !.retry = MaxReclaim]
  <2>1. /\ Become(w, v) /\ item' = [item EXCEPT ![i] = r] /\ disturbed' = disturbed
        /\ i \in Items /\ Runs(w, i)
        /\ i \notin disturbed => Held(r) /\ r.startedAt = item[i].startedAt
    BY <1>0, <1>7, MarkedHeld DEF MarkExcluded, Goto, At, Running
  <2>2. v.pc = "dropLibrary" /\ v.id = i
    BY <1>0 DEF Invocation
  <2>. HIDE DEF v, r
  <2>. QED BY <2>1, <2>2, MoveOnOwnRow DEF Unnamed
<1>8. CASE MarkLibrary(w) \/ DropLibrary(w)
  <2>1. Become(w, Acked) /\ item' = item /\ disturbed' = disturbed
    BY <1>8 DEF MarkLibrary, DropLibrary, Return
  <2>. HIDE DEF Acked
  <2>. QED BY <1>1, <2>1, MoveOnSameRows
<1>9. CASE FailRead(w)
  <2>. DEFINE stored == i \in transcript
              n == item[i].retry + 1
              v == [inv[w] EXCEPT !.pc = "failWrite", !.resume = stored, !.attempts = n]
  <2>1. Become(w, v) /\ item' = item /\ disturbed' = disturbed /\ inv[w].pc \in Running
    BY <1>9 DEF FailRead, At, Running, rows
  <2>2. v.pc = "failWrite" /\ v.id = inv[w].id
    BY <1>0 DEF Invocation
  <2>. HIDE DEF v
  <2>. QED BY <2>1, <2>2, MoveOnSameRows DEF Unnamed
<1>10. CASE FailWrite(w)
  <2>1. PICK r : item' = [item EXCEPT ![i] = r]
    BY <1>10 DEF FailWrite
  <2>2. i \in Items /\ Runs(w, i) /\ disturbed' = disturbed
    BY <1>0, <1>10 DEF FailWrite, At, Running
  <2>3. Become(w, Idle) \/ Become(w, Acked)
    BY <1>10 DEF FailWrite, Throw, Return
  <2>. HIDE DEF Acked
  <2>. QED BY <1>1, <2>1, <2>2, <2>3, IdleLease, MoveOnOwnRow
<1>11. CASE Ack(w)
  <2>1. Become(w, Idle) /\ item' = item /\ disturbed' = disturbed
    BY <1>11 DEF Ack, rows
  <2>. QED BY <2>1, IdleLease, MoveOnSameRows
<1>. QED BY <1>3, <1>4, <1>5, <1>6, <1>7, <1>8, <1>9, <1>10, <1>11 DEF Process

LEMMA SameLeases ==
  ASSUME LeaseInv, UNCHANGED <<item, inv, disturbed>>
  PROVE  LeaseFacts'
BY DEF LeaseInv, LeaseFacts, NoneChosen, RunnersHold, OneRunner, Noticed, HasRunner, Runs

LEMMA WorkerLease ==
  ASSUME LeaseInv, NEW w \in Workers, Worker(w)
  PROVE  LeaseFacts'
<1>. USE DEF marks
<1>. DEFINE i == inv[w].id
<1>0. /\ inv[w] \in Invocation /\ item \in [Items -> Row]
      /\ inv \in [Workers -> Invocation]
      /\ inv[w].pc \in Running \ {"continue"} =>
           /\ i \in Items /\ Runs(w, i) /\ item[i] \in Row
           /\ i \notin disturbed => Held(item[i])
  BY DEF LeaseInv, WellFormed, TypeOK, NamesItem, Named, LeaseFacts, RunnersHold, Runs
<1>1. CASE CronPump(w)
  <2>. DEFINE v == [inv[w] EXCEPT !.pc = "reap", !.msg = PumpMsg]
  <2>1. Become(w, v) /\ item' = item /\ disturbed' = disturbed /\ inv[w].id = NoItem
    BY <1>1 DEF CronPump, At, rows, LeaseInv, LeaseFacts, NoneChosen, Unnamed
  <2>2. v.id = NoItem /\ v.pc = "reap"
    BY <1>0, <2>1 DEF Invocation
  <2>. HIDE DEF v
  <2>. QED BY <2>1, <2>2, MoveOnSameRows
<1>2. ASSUME NEW m \in queue, Deliver(w, m) PROVE LeaseFacts'
  <2>. DEFINE v == [Idle EXCEPT !.pc = EntryPoint(m), !.msg = m]
  <2>1. Become(w, v) /\ item' = item /\ disturbed' = disturbed
    BY <1>2 DEF Deliver, rows
  <2>2. v.id = NoItem /\ v.pc # "recoverClaim"
    BY DEF Idle, EntryPoint
  <2>. HIDE DEF v
  <2>. QED BY <2>1, <2>2, MoveOnSameRows
<1>3. CASE ClaimNext(w)
  BY <1>3, ClaimNextLease
<1>4. CASE Process(w)
  BY <1>4, ProcessLease
<1>5. CASE Heartbeat(w)
  <2>1. PICK s \in InProgress :
          item' = [item EXCEPT ![i] = [item[i] EXCEPT !.status = s, !.progress = "fresh"]]
    BY <1>5, NullAssumption DEF Heartbeat, InProgress
  <2>. DEFINE r == [item[i] EXCEPT !.status = s, !.progress = "fresh"]
  <2>2. /\ i \in Items /\ Runs(w, i) /\ inv' = inv /\ item' = [item EXCEPT ![i] = r]
        /\ i \notin disturbed => Held(r) /\ r.startedAt = item[i].startedAt
        /\ disturbed' = disturbed
    BY <1>0, <1>5, <2>1, MarkedHeld DEF Heartbeat, At, Running
  <2>3. Become(w, inv[w])
    BY <1>0, <2>2 DEF Become
  <2>4. inv[w].pc \notin Unnamed /\ inv[w].pc # "recoverClaim"
    BY <1>5 DEF Heartbeat, At, Unnamed
  <2>. HIDE DEF r
  <2>. QED BY <2>1, <2>2, <2>3, <2>4, MoveOnOwnRow
<1>6. CASE PartialTranscript(w)
  <2>1. UNCHANGED <<item, inv, disturbed>>
    BY <1>6 DEF PartialTranscript
  <2>. QED BY <2>1, SameLeases
<1>7. CASE Fails(w)
  <2>1. PICK kind : Become(w, [inv[w] EXCEPT !.pc = "failRead", !.failure = kind, !.resume = FALSE])
    BY <1>7 DEF Fails
  <2>. DEFINE v == [inv[w] EXCEPT !.pc = "failRead", !.failure = kind, !.resume = FALSE]
  <2>2. /\ v.pc = "failRead" /\ v.id = inv[w].id /\ item' = item /\ disturbed' = disturbed
        /\ inv[w].pc \in Running
    BY <1>0, <1>7 DEF Invocation, Fails, rows, Trying
  <2>. HIDE DEF v
  <2>. QED BY <2>1, <2>2, MoveOnSameRows DEF Unnamed, v
<1>8. CASE Crash(w)
  <2>1. Become(w, Idle) /\ item' = item /\ disturbed' = disturbed
    BY <1>8 DEF Crash, Throw, rows
  <2>. QED BY <2>1, IdleLease, MoveOnSameRows
<1>. QED BY <1>1, <1>2, <1>3, <1>4, <1>5, <1>6, <1>7, <1>8 DEF Worker

-----------------------------------------------------------------------------
(* Steps of nobody *)

\* Whoever rewrites the row of a run without being its invocation disturbs it.
LEMMA Rest ==
  ASSUME LeaseInv, inv' = inv, disturbed \subseteq disturbed',
         \A i \in Items \ disturbed' : HasRunner(i) => item'[i] = item[i]
  PROVE  LeaseFacts'
<1>0. LeaseFacts
  BY DEF LeaseInv
<1>1. \A i \in Items : \A w \in Workers : Runs(w, i)' <=> Runs(w, i)
  BY DEF Runs
<1>2. \A i \in Items : HasRunner(i)' <=> HasRunner(i)
  BY <1>1 DEF HasRunner
<1>3. NoneChosen' /\ OneRunner'
  BY <1>0, <1>1 DEF LeaseFacts, NoneChosen, OneRunner
<1>4. RunnersHold'
  BY <1>0, <1>1 DEF LeaseFacts, RunnersHold, HasRunner
<1>5. Noticed'
  BY <1>0, <1>2 DEF LeaseFacts, Noticed
<1>. QED BY <1>3, <1>4, <1>5 DEF LeaseFacts

LEMMA EnvironmentLease ==
  ASSUME LeaseInv, Environment
  PROVE  LeaseFacts'
<1>. USE DEF marks
<1>0. item \in [Items -> Row] /\ RunnersHold
  BY DEF LeaseInv, WellFormed, TypeOK, LeaseFacts
<1>1. CASE CronSweep
  <2>1. ASSUME NEW i \in Items \ disturbed, HasRunner(i) PROVE item'[i] = item[i]
    <3>1. ~Strandable(item[i])
      BY <1>0, <2>1, HeldOutOfReach DEF RunnersHold, HasRunner
    <3>. QED BY <1>1, <3>1 DEF CronSweep, StrandAll
  <2>. QED BY <1>1, <2>1, Rest DEF CronSweep
<1>2. ASSUME NEW i \in Items, AgeLease(i) \/ AgeProgress(i) PROVE LeaseFacts'
  <2>1. ~HasRunner(i) /\ inv' = inv /\ disturbed' = disturbed
    BY <1>2 DEF AgeLease, AgeProgress, HasRunner, Runs, Holds
  <2>2. \A j \in Items : j # i => item'[j] = item[j]
    BY <1>0, <1>2 DEF AgeLease, AgeProgress
  <2>. QED BY <2>1, <2>2, Rest
<1>3. ASSUME NEW i \in Items, Retry(i) \/ Regenerate(i) \/ RepairSummary(i) PROVE LeaseFacts'
  <2>1. Disturb(i) /\ inv' = inv
    BY <1>3 DEF Retry, Regenerate, RepairSummary
  <2>2. \A j \in Items : j # i => item'[j] = item[j]
    BY <1>0, <1>3 DEF Retry, Regenerate, RepairSummary
  <2>3. disturbed \subseteq disturbed' /\ (i \notin disturbed' => ~HasRunner(i))
    BY <2>1 DEF Disturb
  <2>. QED BY <2>1, <2>2, <2>3, Rest
<1>4. ASSUME NEW i \in Items, Nudge(i) PROVE LeaseFacts'
  BY <1>4, SameLeases DEF Nudge, rows
<1>. QED BY <1>1, <1>2, <1>3, <1>4 DEF Environment

-----------------------------------------------------------------------------
(* The invariant *)

LEMMA LeaseInvStep ==
  ASSUME LeaseInv, [Next]_vars
  PROVE  LeaseInv'
<1>1. WellFormed'
  BY NextWellFormed DEF LeaseInv
<1>2. CASE Next
  BY <1>1, <1>2, WorkerLease, EnvironmentLease DEF LeaseInv, Next
<1>3. CASE UNCHANGED vars
  BY <1>1, <1>3, SameLeases DEF LeaseInv, vars
<1>. QED BY <1>2, <1>3

LEMMA InitLease == Init => LeaseInv
<1> SUFFICES ASSUME Init PROVE LeaseFacts
  BY InitWellFormed DEF LeaseInv
<1>. QED BY DEF Init, LeaseFacts, NoneChosen, RunnersHold, OneRunner, Noticed, Runs, Idle, Running

\* No two invocations process one item at a time, whatever is evicted, fails, is
\* redelivered or requested, until a redelivery that read or took the row of a
\* live run, or a request that reset it, disturbs a run of that item.
THEOREM OneRunnerByLease == Spec => []OneRunner
<1>1. LeaseInv /\ [Next]_vars => LeaseInv'
  BY LeaseInvStep
<1>2. LeaseInv => OneRunner
  BY DEF LeaseInv, LeaseFacts
<1>. QED BY <1>1, <1>2, InitLease, PTL DEF Spec

\* No claim, reaper or sweep reaches an item before the undisturbed invocation
\* that processes it has written the row for the last time.
THEOREM RunnerHoldsLeaseAlways == Spec => []RunnerHoldsLease
<1>1. LeaseInv /\ [Next]_vars => LeaseInv'
  BY LeaseInvStep
<1>2. LeaseInv => RunnerHoldsLease
  BY HeldOutOfReach DEF LeaseInv, LeaseFacts, WellFormed, TypeOK, RunnersHold, RunnerHoldsLease
<1>. QED BY <1>1, <1>2, InitLease, PTL DEF Spec
=============================================================================
