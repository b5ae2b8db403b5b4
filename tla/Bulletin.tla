------------------------------ MODULE Bulletin ------------------------------
(***************************************************************************)
(* The short bulletins of the hosted edition, translated by a model:       *)
(* cf/worker/src/lib/bulletinScheduler.ts, bulletinTranslation.ts and       *)
(* bulletin.ts.                                                            *)
(*                                                                         *)
(* The rows of bulletin_translation are the queue; the messages are only    *)
(* wake-ups.  A worker that is woken gives up rows that timed out too often, *)
(* selects the newest row that needs work, reads its source and the row,    *)
(* claims it by a conditional upsert that also is its lease, calls the      *)
(* model, stores the answer, and wakes the next worker.  A reader's request *)
(* enters the same translator for a row of its own choice.                  *)
(*                                                                         *)
(* One step is one D1 statement.  A text is the version of the source it    *)
(* was made from, and so is source_hash.  updated_at is a stamp that only   *)
(* equality tells apart; "older than two minutes" is the flag aged, which   *)
(* no row gets while the agent that claimed it is alive (the call of the    *)
(* model is aborted after 55 seconds).                                      *)
(***************************************************************************)
EXTENDS Naturals, FiniteSets

CONSTANTS
  Editions,       \* pairs of an item and a language; a greater one is newer
  Workers,        \* concurrent consumers of the bulletin queue
  OldRows,        \* those that may have a row from before introductions
  Readers,        \* requests of POST /items/:id/bulletin being served
  Stamps,         \* values of updated_at, as far as the code compares them
  MaxAttempts,    \* attempts a row gets from the workers
  MaxCollisions,  \* rounds of the selection loop
  MaxWakes,       \* bound: wake-ups waiting for delivery
  MaxVersions,    \* bound: versions of a source
  MaxFaults,      \* bound: evictions
  MaxRequests,    \* bound: requests that enqueue or ask for a row
  NoStamp, NoEdition

Agents == Workers \cup Readers

ASSUME BulletinAssumption ==
  /\ Editions \subseteq Nat /\ NoEdition \notin Editions /\ OldRows \subseteq Editions
  /\ NoStamp \notin Stamps /\ Workers \cap Readers = {}
  /\ IsFiniteSet(Workers) /\ IsFiniteSet(Readers)
  /\ MaxAttempts \in Nat \ {0} /\ MaxCollisions \in Nat \ {0}
  /\ MaxWakes \in 1 .. 6 /\ MaxVersions \in Nat \ {0}
  /\ MaxFaults \in Nat /\ MaxRequests \in Nat

\* Time goes on: there is a later stamp than those the agents compare with.
ASSUME StampAssumption ==
  \A held \in [Agents -> Stamps \cup {NoStamp}] :
    \E t \in Stamps : \A a \in Agents : held[a] # t

VARIABLES
  source,    \* item and summary: version of the text, and whether it is done
  row,       \* bulletin_translation
  wakes,     \* bulletin_drain messages waiting
  agent,     \* state of every worker and reader
  faults, requests

vars == <<source, row, wakes, agent, faults, requests>>

-----------------------------------------------------------------------------
(* Rows *)

Versions == 1 .. MaxVersions
Text == {0} \cup Versions      \* 0: empty

RowStatus == {"none", "queued", "processing", "done", "error"}
Row == [status: RowStatus, hash: Text, stamp: Stamps \cup {NoStamp}, aged: BOOLEAN,
        attempts: Nat, due: BOOLEAN, intro: Text, points: Text]
NoRow == [status |-> "none", hash |-> 0, stamp |-> NoStamp, aged |-> FALSE,
          attempts |-> 0, due |-> TRUE, intro |-> 0, points |-> 0]

\* Rows older than the introduction: points alone, and no source_hash.
PointsOnlyRow(t) == [NoRow EXCEPT !.status = "done", !.stamp = t, !.points = 1]

Complete(r) == r.intro # 0 /\ r.points # 0

\* What readBulletinTranslation makes of a row.
ReadStatus(r) ==
  IF r.status = "done" /\ ~Complete(r) THEN "none"
  ELSE IF r.status = "processing" /\ r.aged THEN "error"
  ELSE r.status

Agent == [pc: {"idle", "expire", "select", "source", "row", "claim", "model", "wake"},
          edition: Editions \cup {NoEdition}, tries: Nat, hash: Text,
          seen: RowStatus, stamp: Stamps \cup {NoStamp}, keep: Text]
Idle == [pc |-> "idle", edition |-> NoEdition, tries |-> 0, hash |-> 0,
         seen |-> "none", stamp |-> NoStamp, keep |-> 0]

Become(a, state) == agent' = [agent EXCEPT ![a] = state]
Goto(a, point) == Become(a, [agent[a] EXCEPT !.pc = point])
At(a, point) == agent[a].pc = point
Translating(a, e) == At(a, "model") /\ agent[a].edition = e

\* isoNow(), for a write of row e by agents A: later than every stamp another
\* agent compares with.
Now(A, e) == CHOOSE t \in Stamps :
               \A b \in Agents \ A : agent[b].edition = e => agent[b].stamp # t

\* Wake-ups beyond the bound add nothing: any one of them serves every row.
Woken(n) == IF wakes + n > MaxWakes THEN MaxWakes ELSE wakes + n

-----------------------------------------------------------------------------
(* Workers: processNextBulletin *)

\* A message is delivered.
Deliver(w) ==
  /\ wakes > 0 /\ At(w, "idle")
  /\ wakes' = wakes - 1
  /\ Goto(w, "expire")
  /\ UNCHANGED <<source, row, faults, requests>>

\* Mutant: no row is given up after its last attempt.
ExpireNone(w) ==
  /\ At(w, "expire")
  /\ Goto(w, "select")
  /\ UNCHANGED <<source, row, wakes, faults, requests>>

\* Rows whose last attempt timed out are given up.
Expired(r) == r.status = "processing" /\ r.aged /\ r.attempts >= MaxAttempts

Expire(w) ==
  /\ At(w, "expire")
  /\ row' = [e \in Editions |-> IF Expired(row[e])
                                THEN [row[e] EXCEPT !.status = "error"] ELSE row[e]]
  /\ Goto(w, "select")
  /\ UNCHANGED <<source, wakes, faults, requests>>

\* Mutant: attempts are not counted against a failed row.
PendingForever(e) ==
  /\ source[e].done
  /\ \/ row[e].status = "queued"
     \/ row[e].status = "error" /\ row[e].due
     \/ row[e].status = "processing" /\ row[e].aged

Pending(e) ==
  /\ source[e].done
  /\ \/ row[e].status = "queued"
     \/ row[e].status = "error" /\ row[e].attempts < MaxAttempts /\ row[e].due
     \/ row[e].status = "processing" /\ row[e].attempts < MaxAttempts /\ row[e].aged

Waiting(e) ==
  /\ source[e].done
  /\ \/ row[e].status = "processing"
     \/ row[e].status = "error" /\ row[e].attempts < MaxAttempts

\* The newest row that needs work; without one the worker comes back later if
\* a row may need work then.  After too many collisions it comes back at once.
Select(w) ==
  LET pending == {e \in Editions : Pending(e)} IN
  /\ At(w, "select")
  /\ \/ /\ agent[w].tries < MaxCollisions
        /\ \E e \in pending :
             /\ \A f \in pending : f <= e
             /\ Become(w, [agent[w] EXCEPT !.pc = "source", !.edition = e])
     \/ /\ agent[w].tries < MaxCollisions /\ pending = {}
        /\ Become(w, IF \E e \in Editions : Waiting(e)
                     THEN [Idle EXCEPT !.pc = "wake"] ELSE Idle)
     \/ /\ agent[w].tries = MaxCollisions
        /\ Become(w, [Idle EXCEPT !.pc = "wake"])
  /\ UNCHANGED <<source, row, wakes, faults, requests>>

\* The message sent at the end: a worker always leaves one behind once it has
\* found a row.
Wake(w) ==
  /\ At(w, "wake")
  /\ wakes' = Woken(1)
  /\ Become(w, Idle)
  /\ UNCHANGED <<source, row, faults, requests>>

-----------------------------------------------------------------------------
(* The translator: translateBulletinEdition *)

\* A reader asks for one row.
Ask(r, e) ==
  /\ requests < MaxRequests /\ At(r, "idle") /\ source[e].done
  /\ Become(r, [Idle EXCEPT !.pc = "source", !.edition = e])
  /\ requests' = requests + 1
  /\ UNCHANGED <<source, row, wakes, faults>>

\* Out of the translator without a claim: a worker selects again, unless it was
\* an error.
LeaveUnclaimed(a) ==
  Become(a, IF a \in Workers
            THEN [Idle EXCEPT !.pc = "select", !.tries = agent[a].tries + 1] ELSE Idle)

\* Out of it with a result, or with an error, which the worker only logs.
Leave(a) == Become(a, IF a \in Workers THEN [Idle EXCEPT !.pc = "wake"] ELSE Idle)

ReadSource(a) ==
  LET s == source[agent[a].edition] IN
  /\ At(a, "source")
  /\ \/ s.done /\ Become(a, [agent[a] EXCEPT !.pc = "row", !.hash = s.version])
     \/ ~s.done /\ Leave(a)
  /\ UNCHANGED <<source, row, wakes, faults, requests>>

\* Points that are translated already are kept: those of a row without a hash,
\* and those of this source.
Kept(r, hash) == IF r.hash \in {0, hash} THEN r.points ELSE 0

ReadRow(a) ==
  LET r == row[agent[a].edition] IN
  /\ At(a, "row")
  /\ IF \/ ReadStatus(r) = "processing"
        \/ ReadStatus(r) = "done" /\ r.hash = agent[a].hash
     THEN LeaveUnclaimed(a)
     ELSE Become(a, [agent[a] EXCEPT !.pc = "claim", !.seen = r.status, !.stamp = r.stamp,
                                     !.keep = Kept(r, agent[a].hash)])
  /\ UNCHANGED <<source, row, wakes, faults, requests>>

\* Mutant: the upsert has no condition.
ClaimableAlways(r, a) == TRUE

\* Mutant: a row is claimed by its status alone.
ClaimableByStatus(r, a) ==
  /\ r.status = agent[a].seen
  /\ r.status # "processing" \/ r.aged

\* The upsert changes the row only if it is as it was read, and its lease is
\* not running.
Claimable(r, a) ==
  /\ r.status = agent[a].seen /\ r.stamp = agent[a].stamp
  /\ r.status # "processing" \/ r.aged

\* The row under lease, for the source that was read.
Claimed(r, hash, t) ==
  [r EXCEPT !.status = "processing", !.hash = hash, !.stamp = t, !.aged = FALSE,
            !.attempts = @ + 1, !.due = TRUE]

\* The upsert; its updated_at is the lease.
Claim(a) ==
  LET e == agent[a].edition
      t == Now({a}, e)
  IN
  /\ At(a, "claim")
  /\ IF Claimable(row[e], a)
     THEN /\ row' = [row EXCEPT ![e] = Claimed(@, agent[a].hash, t)]
          /\ Become(a, [agent[a] EXCEPT !.pc = "model", !.stamp = t, !.seen = "none"])
     ELSE /\ LeaveUnclaimed(a)
          /\ UNCHANGED row
  /\ UNCHANGED <<source, wakes, faults, requests>>

HoldsLease(a, r) == r.stamp = agent[a].stamp

\* Mutant: the text sent to the model is read after the claim.
AnswerLaterText(a) ==
  LET e == agent[a].edition
      points == IF agent[a].keep # 0 THEN agent[a].keep ELSE source[e].version
  IN
  /\ At(a, "model")
  /\ row' = [row EXCEPT ![e] =
               IF HoldsLease(a, @) /\ @.hash = agent[a].hash
               THEN [@ EXCEPT !.status = "done", !.intro = source[e].version,
                              !.points = points, !.stamp = Now({a}, e)]
               ELSE @]
  /\ Leave(a)
  /\ UNCHANGED <<source, wakes, faults, requests>>

\* The model answers with a complete edition.  Without a lease the answer is
\* not stored.
Answer(a) ==
  LET e == agent[a].edition
      points == IF agent[a].keep # 0 THEN agent[a].keep ELSE agent[a].hash
  IN
  /\ At(a, "model")
  /\ row' = [row EXCEPT ![e] =
               IF HoldsLease(a, @) /\ @.hash = agent[a].hash
               THEN [@ EXCEPT !.status = "done", !.intro = agent[a].hash,
                              !.points = points, !.stamp = Now({a}, e)]
               ELSE @]
  /\ Leave(a)
  /\ UNCHANGED <<source, wakes, faults, requests>>

\* It fails, times out, or gives an incomplete answer.
NoAnswer(a) ==
  LET e == agent[a].edition IN
  /\ At(a, "model")
  /\ row' = [row EXCEPT ![e] =
               IF HoldsLease(a, @)
               THEN [@ EXCEPT !.status = "error", !.stamp = Now({a}, e), !.due = FALSE]
               ELSE @]
  /\ Leave(a)
  /\ UNCHANGED <<source, wakes, faults, requests>>

-----------------------------------------------------------------------------
(* Environment *)

\* Eviction.  The message of a worker is redelivered, or dead-lettered when it
\* has used up its deliveries.
Evict(a) ==
  /\ faults < MaxFaults /\ ~At(a, "idle")
  /\ faults' = faults + 1
  /\ Become(a, Idle)
  /\ wakes' \in IF a \in Workers THEN {wakes, Woken(1)} ELSE {wakes}
  /\ UNCHANGED <<source, row, requests>>

\* Two minutes after the claim, when the agent that made it is gone.
Age(e) ==
  /\ row[e].status = "processing" /\ ~row[e].aged
  /\ \A a \in Agents : ~Translating(a, e)
  /\ row' = [row EXCEPT ![e].aged = TRUE]
  /\ UNCHANGED <<source, wakes, agent, faults, requests>>

\* next_attempt_at passes.
ComeDue(e) ==
  /\ row[e].status = "error" /\ ~row[e].due
  /\ row' = [row EXCEPT ![e].due = TRUE]
  /\ UNCHANGED <<source, wakes, agent, faults, requests>>

\* The source item is sent back to be summarised again, and is done again.
SendBack(e) ==
  /\ source[e].done /\ source[e].version < MaxVersions
  /\ source' = [source EXCEPT ![e].done = FALSE]
  /\ UNCHANGED <<row, wakes, agent, faults, requests>>

Resummarised(e) ==
  /\ ~source[e].done
  /\ source' = [source EXCEPT ![e] = [version |-> @.version + 1, done |-> TRUE]]
  /\ UNCHANGED <<row, wakes, agent, faults, requests>>

\* enqueueBulletinTranslations for one row, after the item is done or when a
\* user chooses a language; the wake-up may be lost with the handler.
Missing(r) == r.status \in {"none", "error"} \/ (r.status = "done" /\ r.intro = 0)

Enqueue(e) ==
  /\ requests < MaxRequests /\ source[e].done
  /\ row' = [row EXCEPT ![e] =
               IF Missing(@)
               THEN [@ EXCEPT !.status = "queued", !.attempts = 0, !.due = TRUE,
                              !.stamp = Now({}, e), !.aged = FALSE]
               ELSE @]
  /\ wakes' \in {wakes, Woken(1)}
  /\ requests' = requests + 1
  /\ UNCHANGED <<source, agent, faults>>

\* The cron wakes six workers.
CronWake ==
  /\ wakes' = Woken(6)
  /\ UNCHANGED <<source, row, agent, faults, requests>>

-----------------------------------------------------------------------------
(* The specification *)

\* Items that are done, without a row or with an old one.
Init ==
  /\ source = [e \in Editions |-> [version |-> 1, done |-> TRUE]]
  /\ row \in [Editions -> {NoRow, PointsOnlyRow(CHOOSE t \in Stamps : TRUE)}]
  /\ \A e \in Editions : row[e] # NoRow => e \in OldRows
  /\ wakes = 0
  /\ agent = [a \in Agents |-> Idle]
  /\ faults = 0 /\ requests = 0

Translate(a) == ReadSource(a) \/ ReadRow(a) \/ Claim(a) \/ Answer(a) \/ NoAnswer(a)
Drain(w) == Deliver(w) \/ Expire(w) \/ Select(w) \/ Wake(w)

Next ==
  \/ \E w \in Workers : Drain(w)
  \/ \E a \in Agents : Translate(a) \/ Evict(a)
  \/ \E e \in Editions :
       \/ Age(e) \/ ComeDue(e) \/ SendBack(e) \/ Resummarised(e) \/ Enqueue(e)
       \/ \E r \in Readers : Ask(r, e)
  \/ CronWake

Spec == Init /\ [][Next]_vars

\* Messages are delivered, agents go on until they are through or evicted, the
\* call of the model ends one way or the other, time passes, the cron fires and
\* the item pipeline finishes its items.
Fairness ==
  /\ \A w \in Workers : WF_vars(Drain(w))
  /\ \A a \in Agents : WF_vars(Translate(a))
  /\ \A e \in Editions :
       WF_vars(Age(e)) /\ WF_vars(ComeDue(e)) /\ WF_vars(Resummarised(e))
  /\ WF_vars(CronWake)

FairSpec == Spec /\ Fairness

-----------------------------------------------------------------------------
(* Properties *)

\* Every variable keeps its type.
TypeOK ==
  /\ source \in [Editions -> [version: Versions, done: BOOLEAN]]
  /\ row \in [Editions -> Row]
  /\ wakes \in 0 .. MaxWakes
  /\ agent \in [Agents -> Agent]
  /\ faults \in 0 .. MaxFaults /\ requests \in 0 .. MaxRequests

\* "The translation lease prevents duplicate model calls"
\* (bulletinScheduler.ts:6): no two agents have one row translated at a time.
OneTranslator ==
  \A e \in Editions : \A a, b \in Agents : Translating(a, e) /\ Translating(b, e) => a = b

\* Nor does an agent have a row translated again that was finished, for the
\* source it read, after it had been selected.
NeverTwice ==
  [][\A a \in Agents : \A e \in Editions :
       Translating(a, e)' /\ ~Translating(a, e)
         => ~(row[e].status = "done" /\ Complete(row[e]) /\ row[e].hash = agent[a].hash)]_vars

\* source_hash of a finished row is that of the source its introduction was
\* translated from, although the source may change between any two statements.
IntroMatchesHash ==
  \A e \in Editions : row[e].status = "done" /\ row[e].hash # 0 => row[e].intro = row[e].hash

\* The workers call the model a bounded number of times for one row: a worker
\* that selected it before its last attempt costs one attempt more, a reader's
\* request another.
AttemptBudget ==
  \A e \in Editions :
    row[e].attempts <= MaxAttempts + (Cardinality(Workers) - 1) + requests

\* Every row is translated or given up in the end: neither an eviction, nor a
\* lost wake-up, nor a source that keeps failing leaves it waiting.
Settles ==
  \A e \in Editions :
    <>[](\/ row[e].status \in {"none", "done"}
         \/ row[e].status = "error" /\ row[e].attempts >= MaxAttempts)

\* "The points have already been translated" (bulletinTranslation.ts:77): the
\* points kept in a finished row with a source_hash are those of that source.
PointsMatchHash ==
  \A e \in Editions : row[e].status = "done" /\ row[e].intro # 0 => row[e].points = row[e].intro

-----------------------------------------------------------------------------
(* Refinement *)

\* Who has which rows translated, from which version of the source, and what the
\* introductions were translated from.
LeasesOf(ag) ==
  [e \in Editions |-> {[by |-> a, of |-> ag[a].hash] :
                         a \in {b \in Agents : ag[b].pc = "model" /\ ag[b].edition = e}}]
IntrosOf(rows) == [e \in Editions |-> rows[e].intro]

Texts == INSTANCE LeasedText WITH
  Jobs <- Editions, Nothing <- 0, TakesOver <- FALSE,
  leases <- LeasesOf(agent), text <- IntrosOf(row)

\* An introduction is stored by the agent that claimed the row, from the version it had
\* read before it claimed it, and no row is claimed while an agent has it translated
\* (translateBulletinEdition).
ImplementsLeasedText == Texts!Spec
=============================================================================
