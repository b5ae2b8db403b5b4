--------------------------- MODULE BulletinProofs ---------------------------
(***************************************************************************)
(* Theorems about Bulletin: types, one translator per row, and what the    *)
(* translator stores and repeats (a finished introduction has the hash of  *)
(* its source, and a row finished while an agent was on its way to it is   *)
(* not translated again), and that it implements LeasedText, for any number *)
(* of rows, workers, readers, versions and evictions.                      *)
(***************************************************************************)
EXTENDS Bulletin, FiniteSetTheorems, TLAPS

\* What the points of the translator rely on beyond their types.
Named == \A a \in Agents : agent[a].pc \in {"source", "row", "claim", "model"}
                             => agent[a].edition \in Editions
SentBack == \A e \in Editions : ~source[e].done => source[e].version < MaxVersions
Typed == TypeOK /\ Named /\ SentBack

-----------------------------------------------------------------------------
(* Stamps *)

\* isoNow() returns a stamp that no other agent at that row holds.
LEMMA NowIsFresh ==
  ASSUME TypeOK, NEW A \in SUBSET Agents, NEW e \in Editions
  PROVE  /\ Now(A, e) \in Stamps
         /\ \A b \in Agents \ A : agent[b].edition = e => agent[b].stamp # Now(A, e)
<1>. DEFINE held == [a \in Agents |-> agent[a].stamp]
<1>1. held \in [Agents -> Stamps \cup {NoStamp}]
  BY DEF TypeOK, Agent
<1>2. PICK t \in Stamps : \A a \in Agents : held[a] # t
  BY <1>1, StampAssumption
<1>3. \A b \in Agents \ A : agent[b].edition = e => agent[b].stamp # t
  BY <1>2
<1>. HIDE DEF held
<1>. QED BY <1>3 DEF Now

LEMMA SomeStamp == (CHOOSE t \in Stamps : TRUE) \in Stamps
<1>1. [a \in Agents |-> NoStamp] \in [Agents -> Stamps \cup {NoStamp}]
  OBVIOUS
<1>2. \E t \in Stamps : TRUE
  BY <1>1, StampAssumption
<1>. QED BY <1>2

-----------------------------------------------------------------------------
(* Type correctness *)

LEMMA Constants ==
  /\ 1 \in Versions /\ Versions \subseteq Text /\ 0 \in Text
  /\ NoRow \in Row /\ Idle \in Agent
  /\ \A t \in Stamps : PointsOnlyRow(t) \in Row
<1>1. 1 \in Versions /\ Versions \subseteq Text /\ 0 \in Text
  BY BulletinAssumption DEF Versions, Text
<1>. QED BY <1>1 DEF NoRow, Row, RowStatus, Idle, Agent, PointsOnlyRow

LEMMA InitTyped == Init => Typed
<1>. SUFFICES ASSUME Init PROVE Typed
  OBVIOUS
<1>1. row \in [Editions -> Row]
  BY Constants, SomeStamp DEF Init
<1>2. source \in [Editions -> [version: Versions, done: BOOLEAN]]
  BY Constants DEF Init
<1>3. agent \in [Agents -> Agent]
  BY Constants DEF Init
<1>. QED BY <1>1, <1>2, <1>3, BulletinAssumption
     DEF Init, Typed, TypeOK, Named, SentBack, Idle

LEMMA RowTyped ==
  ASSUME NEW r \in Row, NEW t \in Stamps, NEW v \in Text, NEW p \in Text, NEW h \in Text
  PROVE  /\ [r EXCEPT !.status = "error"] \in Row
         /\ [r EXCEPT !.aged = TRUE] \in Row
         /\ [r EXCEPT !.due = TRUE] \in Row
         /\ Claimed(r, h, t) \in Row
         /\ [r EXCEPT !.status = "done", !.intro = v, !.points = p, !.stamp = t] \in Row
         /\ [r EXCEPT !.status = "error", !.stamp = t, !.due = FALSE] \in Row
         /\ [r EXCEPT !.status = "queued", !.attempts = 0, !.due = TRUE, !.stamp = t,
                      !.aged = FALSE] \in Row
<1>1. r.attempts + 1 \in Nat /\ 0 \in Nat
  BY DEF Row
<1>. QED BY <1>1 DEF Row, RowStatus, Claimed

LEMMA BecomeTyped ==
  ASSUME TypeOK, Named, NEW a \in Agents, NEW v \in Agent, Become(a, v),
         v.pc \in {"source", "row", "claim", "model"} => v.edition \in Editions
  PROVE  agent' \in [Agents -> Agent] /\ Named'
BY DEF TypeOK, Become, Named

LEMMA LeaveTyped ==
  ASSUME TypeOK, Named, NEW a \in Agents, LeaveUnclaimed(a) \/ Leave(a)
  PROVE  agent' \in [Agents -> Agent] /\ Named'
<1>0. agent[a].tries + 1 \in Nat
  BY DEF TypeOK, Agent
<1>1. /\ [Idle EXCEPT !.pc = "select", !.tries = agent[a].tries + 1] \in Agent
      /\ [Idle EXCEPT !.pc = "wake"] \in Agent /\ Idle \in Agent
  BY <1>0, Constants DEF Agent
<1>. QED BY <1>1, BecomeTyped DEF LeaveUnclaimed, Leave, Idle

LEMMA WokenTyped ==
  ASSUME TypeOK, NEW n \in Nat PROVE Woken(n) \in 0 .. MaxWakes
BY BulletinAssumption DEF TypeOK, Woken

LEMMA DrainTyped ==
  ASSUME Typed, NEW w \in Workers, Drain(w) PROVE Typed'
<1>. USE DEF Typed
<1>0. w \in Agents /\ agent[w] \in Agent
  BY DEF Agents, TypeOK
<1>1. CASE Deliver(w)
  <2>1. [agent[w] EXCEPT !.pc = "expire"] \in Agent
    BY <1>0 DEF Agent
  <2>2. agent' \in [Agents -> Agent] /\ Named'
    BY <1>0, <1>1, <2>1, BecomeTyped DEF Deliver, Goto, Agent
  <2>3. wakes' \in 0 .. MaxWakes
    BY <1>1, BulletinAssumption DEF Deliver, TypeOK
  <2>. QED BY <1>1, <2>2, <2>3 DEF Deliver, TypeOK, SentBack
<1>2. CASE Expire(w)
  <2>1. [agent[w] EXCEPT !.pc = "select"] \in Agent
    BY <1>0 DEF Agent
  <2>2. row' \in [Editions -> Row]
    <3>1. \A f \in Editions : row[f] \in Row /\ [row[f] EXCEPT !.status = "error"] \in Row
      BY SomeStamp, Constants, RowTyped DEF TypeOK
    <3>. QED BY <1>2, <3>1 DEF Expire
  <2>3. agent' \in [Agents -> Agent] /\ Named'
    BY <1>0, <1>2, <2>1, BecomeTyped DEF Expire, Goto, Agent
  <2>. QED BY <1>2, <2>2, <2>3 DEF Expire, TypeOK, SentBack
<1>3. CASE Select(w)
  <2>1. \A e \in Editions : [agent[w] EXCEPT !.pc = "source", !.edition = e] \in Agent
    BY <1>0 DEF Agent
  <2>2. [Idle EXCEPT !.pc = "wake"] \in Agent /\ Idle \in Agent
    BY Constants DEF Agent
  <2>3. agent' \in [Agents -> Agent] /\ Named'
    BY <1>0, <1>3, <2>1, <2>2, BecomeTyped DEF Select, Idle, Agent
  <2>. QED BY <1>3, <2>3 DEF Select, TypeOK, SentBack
<1>4. CASE Wake(w)
  BY <1>0, <1>4, BecomeTyped, WokenTyped, Constants DEF Wake, Idle, TypeOK, SentBack
<1>. QED BY <1>1, <1>2, <1>3, <1>4 DEF Drain

LEMMA TranslateTyped ==
  ASSUME Typed, NEW a \in Agents, Translate(a) PROVE Typed'
<1>. USE DEF Typed
<1>. DEFINE e == agent[a].edition
<1>0. agent[a] \in Agent
  BY DEF TypeOK
<1>1. CASE ReadSource(a)
  <2>1. e \in Editions
    BY <1>1 DEF ReadSource, At, Named
  <2>2. [agent[a] EXCEPT !.pc = "row", !.hash = source[e].version] \in Agent
    BY <1>0, <2>1, Constants DEF Agent, TypeOK
  <2>3. agent' \in [Agents -> Agent] /\ Named'
    BY <1>1, <1>0, <2>1, <2>2, BecomeTyped, LeaveTyped DEF ReadSource, Agent
  <2>. QED BY <1>1, <2>3 DEF ReadSource, TypeOK, SentBack
<1>2. CASE ReadRow(a)
  <2>1. e \in Editions /\ row[e] \in Row
    BY <1>2 DEF ReadRow, At, Named, TypeOK
  <2>2. Kept(row[e], agent[a].hash) \in Text
    BY <2>1 DEF Kept, Row, Text
  <2>3. [agent[a] EXCEPT !.pc = "claim", !.seen = row[e].status, !.stamp = row[e].stamp,
                         !.keep = Kept(row[e], agent[a].hash)] \in Agent
    BY <1>0, <2>1, <2>2 DEF Agent, Row
  <2>4. agent' \in [Agents -> Agent] /\ Named'
    BY <1>2, <1>0, <2>1, <2>3, BecomeTyped, LeaveTyped DEF ReadRow, Agent
  <2>. QED BY <1>2, <2>4 DEF ReadRow, TypeOK, SentBack
<1>3. CASE Claim(a)
  <2>. DEFINE t == Now({a}, e)
  <2>1. e \in Editions /\ row[e] \in Row
    BY <1>3 DEF Claim, At, Named, TypeOK
  <2>2. t \in Stamps
    BY <2>1, NowIsFresh
  <2>. HIDE DEF t
  <2>3. Claimed(row[e], agent[a].hash, t) \in Row
    BY <1>0, <2>1, <2>2, RowTyped DEF Agent
  <2>4. [agent[a] EXCEPT !.pc = "model", !.stamp = t, !.seen = "none"] \in Agent
    BY <1>0, <2>2 DEF Agent, RowStatus
  <2>5. agent' \in [Agents -> Agent] /\ Named'
    BY <1>3, <1>0, <2>1, <2>4, BecomeTyped, LeaveTyped DEF Claim, Agent, t
  <2>6. row' \in [Editions -> Row]
    BY <1>3, <2>1, <2>3 DEF Claim, TypeOK, t
  <2>. QED BY <1>3, <2>5, <2>6 DEF Claim, TypeOK, SentBack
<1>4. CASE Answer(a) \/ NoAnswer(a)
  <2>. DEFINE t == Now({a}, e)
  <2>1. e \in Editions /\ row[e] \in Row
    BY <1>4 DEF Answer, NoAnswer, At, Named, TypeOK
  <2>2. t \in Stamps
    BY <2>1, NowIsFresh
  <2>. HIDE DEF t
  <2>. DEFINE p == IF agent[a].keep # 0 THEN agent[a].keep ELSE agent[a].hash
  <2>5. agent[a].hash \in Text /\ p \in Text
    BY <1>0 DEF Agent
  <2>6. /\ [row[e] EXCEPT !.status = "done", !.intro = agent[a].hash, !.points = p,
                          !.stamp = t] \in Row
        /\ [row[e] EXCEPT !.status = "error", !.stamp = t, !.due = FALSE] \in Row
    BY <2>1, <2>2, <2>5, RowTyped
  <2>3. row' \in [Editions -> Row]
    BY <1>4, <2>1, <2>6 DEF Answer, NoAnswer, TypeOK, t
  <2>4. agent' \in [Agents -> Agent] /\ Named'
    BY <1>4, LeaveTyped DEF Answer, NoAnswer
  <2>. QED BY <1>4, <2>3, <2>4 DEF Answer, NoAnswer, TypeOK, SentBack
<1>. QED BY <1>1, <1>2, <1>3, <1>4 DEF Translate

LEMMA EnvironmentTyped ==
  ASSUME Typed, NEW e \in Editions,
         \/ Age(e) \/ ComeDue(e) \/ SendBack(e) \/ Resummarised(e) \/ Enqueue(e)
         \/ \E r \in Readers : Ask(r, e)
  PROVE  Typed'
<1>. USE DEF Typed
<1>1. CASE Age(e) \/ ComeDue(e)
  <2>1. row[e] \in Row
    BY DEF TypeOK
  <2>2. [row[e] EXCEPT !.aged = TRUE] \in Row /\ [row[e] EXCEPT !.due = TRUE] \in Row
    BY <2>1 DEF Row
  <2>3. row' \in [Editions -> Row]
    BY <1>1, <2>2 DEF Age, ComeDue, TypeOK
  <2>. QED BY <1>1, <2>3 DEF Age, ComeDue, TypeOK, Named, SentBack
<1>2. CASE SendBack(e) \/ Resummarised(e)
  <2>1. source[e].version \in 1 .. MaxVersions
    BY DEF TypeOK, Versions
  <2>3. CASE SendBack(e)
    <3>1. source' = [source EXCEPT ![e] = [source[e] EXCEPT !.done = FALSE]]
          /\ source[e].version < MaxVersions
      BY <2>3 DEF SendBack
    <3>2. [source[e] EXCEPT !.done = FALSE] \in [version: Versions, done: BOOLEAN]
          /\ [source[e] EXCEPT !.done = FALSE].version < MaxVersions
      BY <3>1 DEF TypeOK
    <3>3. source' \in [Editions -> [version: Versions, done: BOOLEAN]]
      BY <3>1, <3>2 DEF TypeOK
    <3>4. SentBack'
      BY <3>1, <3>2 DEF TypeOK, SentBack
    <3>. QED BY <2>3, <3>3, <3>4 DEF SendBack, TypeOK, Named
  <2>4. CASE Resummarised(e)
    <3>1. source' = [source EXCEPT ![e] = [version |-> source[e].version + 1, done |-> TRUE]]
      BY <2>4 DEF Resummarised
    <3>2. source[e].version + 1 \in Versions
      BY <2>1, <2>4, BulletinAssumption DEF Resummarised, SentBack, Versions
    <3>. QED BY <2>4, <3>1, <3>2 DEF Resummarised, TypeOK, Named, SentBack
  <2>. QED BY <1>2, <2>3, <2>4
<1>3. CASE Enqueue(e)
  <2>. DEFINE t == Now({}, e)
  <2>1. t \in Stamps
    BY NowIsFresh
  <2>. HIDE DEF t
  <2>2. row' \in [Editions -> Row]
    <3>1. row[e] \in Row
      BY DEF TypeOK
    <3>2. [row[e] EXCEPT !.status = "queued", !.attempts = 0, !.due = TRUE, !.stamp = t,
                         !.aged = FALSE] \in Row
      BY <2>1, <3>1 DEF Row, RowStatus
    <3>. QED BY <1>3, <3>1, <3>2 DEF Enqueue, TypeOK, t
  <2>3. wakes' \in 0 .. MaxWakes
    BY <1>3, WokenTyped DEF Enqueue, TypeOK
  <2>. QED BY <1>3, <2>2, <2>3, BulletinAssumption DEF Enqueue, TypeOK, Named, SentBack
<1>4. ASSUME NEW r \in Readers, Ask(r, e) PROVE Typed'
  <2>1. r \in Agents /\ [Idle EXCEPT !.pc = "source", !.edition = e] \in Agent
    BY Constants DEF Agents, Agent
  <2>2. agent' \in [Agents -> Agent] /\ Named'
    BY <1>4, <2>1, BecomeTyped DEF Ask, Idle
  <2>. QED BY <1>4, <2>2, BulletinAssumption DEF Ask, TypeOK, SentBack
<1>. QED BY <1>1, <1>2, <1>3, <1>4

LEMMA EvictTyped ==
  ASSUME Typed, NEW a \in Agents, Evict(a) PROVE Typed'
<1>. USE DEF Typed
<1>1. agent' \in [Agents -> Agent] /\ Named'
  BY Constants, BecomeTyped DEF Evict, Idle
<1>2. wakes' \in 0 .. MaxWakes
  BY WokenTyped DEF Evict, TypeOK
<1>. QED BY <1>1, <1>2, BulletinAssumption DEF Evict, TypeOK, SentBack

LEMMA NextTyped == Typed /\ [Next]_vars => Typed'
<1>. SUFFICES ASSUME Typed, [Next]_vars PROVE Typed'
  OBVIOUS
<1>1. CASE CronWake
  BY <1>1, WokenTyped DEF CronWake, Typed, TypeOK, Named, SentBack
<1>2. CASE UNCHANGED vars
  BY <1>2 DEF vars, Typed, TypeOK, Named, SentBack
<1>. QED BY <1>1, <1>2, DrainTyped, TranslateTyped, EnvironmentTyped, EvictTyped DEF Next

\* Every variable of Bulletin keeps its type.
THEOREM BulletinTypeCorrect == Spec => []TypeOK
<1>1. Spec => []Typed
  BY InitTyped, NextTyped, PTL DEF Spec
<1>. QED BY <1>1, PTL DEF Typed

-----------------------------------------------------------------------------
(* Leases *)

\* A row that an agent has translated is under a lease that is not old.
LeaseHeld == \A a \in Agents : \A e \in Editions :
               Translating(a, e) => row[e].status = "processing" /\ ~row[e].aged
LeaseInv == Typed /\ LeaseHeld /\ OneTranslator

\* Agent a goes on without calling the model, and the others stay.
Moves(a) == agent'[a].pc # "model" /\ \A b \in Agents \ {a} : agent'[b] = agent[b]

\* Such a step disturbs neither, while no row under lease is touched.
LEMMA LeaseKept ==
  ASSUME LeaseInv, NEW a \in Agents, Moves(a),
         \A b \in Agents \ {a} : \A e \in Editions :
           Translating(b, e) => row'[e].status = "processing" /\ ~row'[e].aged
  PROVE  LeaseHeld' /\ OneTranslator'
<1>1. \A b \in Agents : \A e \in Editions :
        Translating(b, e)' => b # a /\ Translating(b, e)
  BY DEF Translating, At, Moves
<1>. QED BY <1>1 DEF LeaseInv, LeaseHeld, OneTranslator

LEMMA BecomeMoves ==
  ASSUME TypeOK, NEW a \in Agents, NEW v, Become(a, v), v.pc # "model" PROVE Moves(a)
BY DEF Become, TypeOK, Moves

LEMMA LeaveMoves ==
  ASSUME TypeOK, NEW a \in Agents, LeaveUnclaimed(a) \/ Leave(a) PROVE Moves(a)
<1>1. /\ [Idle EXCEPT !.pc = "select", !.tries = agent[a].tries + 1].pc # "model"
      /\ [Idle EXCEPT !.pc = "wake"].pc # "model" /\ Idle.pc # "model"
  BY DEF Idle
<1>. QED BY <1>1, BecomeMoves DEF LeaveUnclaimed, Leave

LEMMA DrainLease ==
  ASSUME LeaseInv, NEW w \in Workers, Drain(w) PROVE LeaseHeld' /\ OneTranslator'
<1>. USE DEF LeaseInv, Typed
<1>0. w \in Agents /\ agent[w] \in Agent
  BY DEF Agents, TypeOK
<1>1. Moves(w)
  <2>1. /\ \A p : [agent[w] EXCEPT !.pc = p].pc = p
        /\ \A p, e : [agent[w] EXCEPT !.pc = p, !.edition = e].pc = p
    BY <1>0 DEF Agent
  <2>2. Idle.pc = "idle" /\ [Idle EXCEPT !.pc = "wake"].pc = "wake"
    BY DEF Idle
  <2>3. CASE Deliver(w) \/ Expire(w)
    BY <1>0, <2>1, <2>3, BecomeMoves DEF Deliver, Expire, Goto
  <2>4. CASE Select(w)
    <3>1. \/ \E e \in Editions : Become(w, [agent[w] EXCEPT !.pc = "source", !.edition = e])
          \/ Become(w, [Idle EXCEPT !.pc = "wake"])
          \/ Become(w, Idle)
      BY <2>4 DEF Select
    <3>2. ASSUME NEW e \in Editions,
                 Become(w, [agent[w] EXCEPT !.pc = "source", !.edition = e])
          PROVE  Moves(w)
      <4>1. [agent[w] EXCEPT !.pc = "source", !.edition = e].pc # "model"
        BY <1>0 DEF Agent
      <4>. QED BY <1>0, <3>2, <4>1, BecomeMoves
    <3>. QED BY <1>0, <2>2, <3>1, <3>2, BecomeMoves
  <2>5. CASE Wake(w)
    BY <1>0, <2>2, <2>5, BecomeMoves DEF Wake
  <2>. QED BY <2>3, <2>4, <2>5 DEF Drain
<1>2. \A e \in Editions :
        row[e].status = "processing" /\ ~row[e].aged
          => row'[e].status = "processing" /\ ~row'[e].aged
  BY DEF Drain, Deliver, Expire, Expired, Select, Wake, TypeOK
<1>. QED BY <1>0, <1>1, <1>2, LeaseKept DEF LeaseHeld

LEMMA TranslateLease ==
  ASSUME LeaseInv, NEW a \in Agents, Translate(a) PROVE LeaseHeld' /\ OneTranslator'
<1>. USE DEF LeaseInv, Typed
<1>. DEFINE e == agent[a].edition
<1>0. agent[a] \in Agent /\ agent \in [Agents -> Agent] /\ row \in [Editions -> Row]
  BY DEF TypeOK
<1>1. CASE ReadSource(a) \/ ReadRow(a)
  <2>. DEFINE read == [agent[a] EXCEPT !.pc = "row", !.hash = source[e].version]
              seen == [agent[a] EXCEPT !.pc = "claim", !.seen = row[e].status,
                                       !.stamp = row[e].stamp,
                                       !.keep = Kept(row[e], agent[a].hash)]
  <2>1. read.pc # "model" /\ seen.pc # "model"
    BY <1>0 DEF Agent
  <2>3. Become(a, read) \/ Become(a, seen) \/ Leave(a) \/ LeaveUnclaimed(a)
    BY <1>1 DEF ReadSource, ReadRow
  <2>. HIDE DEF read, seen
  <2>2. Moves(a)
    BY <2>1, <2>3, LeaveMoves, BecomeMoves
  <2>. QED BY <1>1, <2>2, LeaseKept DEF ReadSource, ReadRow, LeaseHeld
<1>2. CASE Claim(a)
  <2>1. e \in Editions /\ row[e] \in Row
    BY <1>2, <1>0 DEF Claim, At, Named
  <2>2. CASE Claimable(row[e], a)
    <3>. DEFINE t == Now({a}, e)
    <3>1. \A b \in Agents : ~Translating(b, e)
      BY <2>1, <2>2 DEF Claimable, LeaseHeld
    <3>2. /\ row' = [row EXCEPT ![e] = Claimed(row[e], agent[a].hash, t)]
          /\ agent' = [agent EXCEPT ![a] = [agent[a] EXCEPT !.pc = "model", !.stamp = t,
                                                            !.seen = "none"]]
      BY <1>2, <2>2 DEF Claim, Become
    <3>3. row'[e].status = "processing" /\ ~row'[e].aged
      BY <1>0, <2>1, <3>2 DEF Claimed, Row
    <3>4. agent'[a].edition = e
      BY <1>0, <3>2 DEF Agent
    <3>5. \A b \in Agents : \A f \in Editions :
            Translating(b, f)' => (b = a /\ f = e) \/ (b # a /\ f # e /\ Translating(b, f))
      BY <1>0, <3>1, <3>2, <3>4 DEF Translating, At
    <3>. HIDE DEF t
    <3>6. \A f \in Editions : f # e => row'[f] = row[f]
      BY <1>0, <3>2
    <3>. QED BY <3>3, <3>5, <3>6 DEF LeaseHeld, OneTranslator
  <2>3. CASE ~Claimable(row[e], a)
    <3>1. LeaveUnclaimed(a) /\ row' = row
      BY <1>2, <2>3 DEF Claim
    <3>. QED BY <3>1, LeaveMoves, LeaseKept DEF LeaseHeld
  <2>. QED BY <2>2, <2>3
<1>3. CASE Answer(a) \/ NoAnswer(a)
  <2>1. e \in Editions /\ Translating(a, e)
    BY <1>3 DEF Answer, NoAnswer, At, Named, Translating
  <2>2. \A b \in Agents \ {a} : ~Translating(b, e)
    BY <2>1 DEF OneTranslator
  <2>3. \A f \in Editions : f # e => row'[f] = row[f]
    BY <1>0, <1>3 DEF Answer, NoAnswer
  <2>4. Leave(a)
    BY <1>3 DEF Answer, NoAnswer
  <2>. QED BY <2>2, <2>3, <2>4, LeaveMoves, LeaseKept DEF LeaseHeld
<1>. QED BY <1>1, <1>2, <1>3 DEF Translate

LEMMA EnvironmentLease ==
  ASSUME LeaseInv, NEW e \in Editions,
         \/ Age(e) \/ ComeDue(e) \/ SendBack(e) \/ Resummarised(e) \/ Enqueue(e)
         \/ \E r \in Readers : Ask(r, e)
  PROVE  LeaseHeld' /\ OneTranslator'
<1>. USE DEF LeaseInv, Typed
<1>1. CASE \/ Age(e) \/ ComeDue(e) \/ SendBack(e) \/ Resummarised(e) \/ Enqueue(e)
  <2>1. agent' = agent
    BY <1>1 DEF Age, ComeDue, SendBack, Resummarised, Enqueue
  <2>2. \A f \in Editions : f # e => row'[f] = row[f]
    BY <1>1 DEF Age, ComeDue, SendBack, Resummarised, Enqueue, TypeOK
  <2>3. (\E a \in Agents : Translating(a, e)) => row'[e] = row[e]
    BY <1>1 DEF Age, ComeDue, SendBack, Resummarised, Enqueue, Missing, TypeOK, LeaseHeld
  <2>. QED BY <2>1, <2>2, <2>3 DEF Translating, At, LeaseHeld, OneTranslator
<1>2. ASSUME NEW r \in Readers, Ask(r, e) PROVE LeaseHeld' /\ OneTranslator'
  <2>1. r \in Agents /\ Become(r, [Idle EXCEPT !.pc = "source", !.edition = e])
        /\ row' = row
    BY <1>2 DEF Ask, Agents
  <2>2. [Idle EXCEPT !.pc = "source", !.edition = e].pc # "model"
    BY DEF Idle
  <2>. QED BY <2>1, <2>2, BecomeMoves, LeaseKept DEF LeaseHeld
<1>. QED BY <1>1, <1>2

LEMMA NextLease == LeaseInv /\ [Next]_vars => LeaseInv'
<1>. SUFFICES ASSUME LeaseInv, [Next]_vars PROVE LeaseInv'
  OBVIOUS
<1>1. Typed'
  BY NextTyped DEF LeaseInv
<1>2. CASE CronWake \/ UNCHANGED vars
  BY <1>1, <1>2 DEF CronWake, vars, LeaseInv, LeaseHeld, OneTranslator, Translating, At
<1>3. ASSUME NEW a \in Agents, Evict(a) PROVE LeaseHeld' /\ OneTranslator'
  <2>1. Moves(a)
    BY <1>3, BecomeMoves DEF Evict, Idle, LeaseInv, Typed
  <2>. QED BY <1>3, <2>1, LeaseKept DEF Evict, LeaseInv, LeaseHeld
<1>. QED BY <1>1, <1>2, <1>3, DrainLease, TranslateLease, EnvironmentLease DEF Next, LeaseInv

LEMMA InitLease == Init => LeaseInv
BY InitTyped DEF Init, Idle, LeaseInv, LeaseHeld, OneTranslator, Translating, At

\* "The translation lease prevents duplicate model calls"
\* (bulletinScheduler.ts:6), for any number of workers, readers and evictions:
\* no two agents have one row translated at a time.
THEOREM OneTranslatorByLease == Spec => []OneTranslator
<1>1. Spec => []LeaseInv
  BY InitLease, NextLease, PTL DEF Spec
<1>. QED BY <1>1, PTL DEF LeaseInv

-----------------------------------------------------------------------------
(* Introductions *)

IntroInv == Typed /\ IntroMatchesHash

LEMMA TranslateIntro ==
  ASSUME IntroInv, NEW a \in Agents, Translate(a) PROVE IntroMatchesHash'
<1>. USE DEF IntroInv, Typed
<1>. DEFINE e == agent[a].edition
<1>0. row \in [Editions -> Row]
  BY DEF TypeOK
<1>1. CASE ReadSource(a) \/ ReadRow(a)
  BY <1>1 DEF ReadSource, ReadRow, IntroMatchesHash
<1>2. CASE Claim(a)
  <2>1. e \in Editions /\ row[e] \in Row
    BY <1>0, <1>2 DEF Claim, At, Named
  <2>2. \A h, t : Claimed(row[e], h, t).status = "processing"
    BY <2>1 DEF Claimed, Row
  <2>. QED BY <1>0, <1>2, <2>1, <2>2 DEF Claim, IntroMatchesHash
<1>3. CASE Answer(a)
  <2>1. e \in Editions /\ row[e] \in Row
    BY <1>0, <1>3 DEF Answer, At, Named
  <2>2. row'[e] = row[e] \/ row'[e].intro = row'[e].hash
    BY <1>0, <1>3, <2>1 DEF Answer, Row
  <2>3. \A f \in Editions : f # e => row'[f] = row[f]
    BY <1>0, <1>3 DEF Answer
  <2>. QED BY <2>2, <2>3 DEF IntroMatchesHash
<1>4. CASE NoAnswer(a)
  <2>1. e \in Editions /\ row[e] \in Row
    BY <1>0, <1>4 DEF NoAnswer, At, Named
  <2>2. row'[e] = row[e] \/ row'[e].status = "error"
    BY <1>0, <1>4, <2>1 DEF NoAnswer, Row
  <2>3. \A f \in Editions : f # e => row'[f] = row[f]
    BY <1>0, <1>4 DEF NoAnswer
  <2>. QED BY <2>2, <2>3 DEF IntroMatchesHash
<1>. QED BY <1>1, <1>2, <1>3, <1>4 DEF Translate

\* The other steps that touch a row leave it unfinished.
LEMMA OthersUnfinished ==
  ASSUME TypeOK,
         \/ \E w \in Workers : Drain(w)
         \/ \E a \in Agents : Evict(a)
         \/ \E e \in Editions :
              \/ Age(e) \/ ComeDue(e) \/ SendBack(e) \/ Resummarised(e) \/ Enqueue(e)
              \/ \E r \in Readers : Ask(r, e)
         \/ CronWake \/ UNCHANGED vars
  PROVE  \A f \in Editions : row'[f] = row[f] \/ row'[f].status # "done"
<1>0. row \in [Editions -> Row]
  BY DEF TypeOK
<1>1. ASSUME NEW w \in Workers, Drain(w)
      PROVE  \A f \in Editions : row'[f] = row[f] \/ row'[f].status # "done"
  <2>1. CASE Expire(w)
    <3>1. \A f \in Editions : [row[f] EXCEPT !.status = "error"].status = "error"
      BY <1>0 DEF Row
    <3>. QED BY <2>1, <3>1 DEF Expire
  <2>. QED BY <1>1, <2>1 DEF Drain, Deliver, Select, Wake
<1>2. ASSUME NEW e \in Editions,
             \/ Age(e) \/ ComeDue(e) \/ SendBack(e) \/ Resummarised(e) \/ Enqueue(e)
             \/ \E r \in Readers : Ask(r, e)
      PROVE  \A f \in Editions : row'[f] = row[f] \/ row'[f].status # "done"
  <2>1. row[e] \in Row
    BY <1>0
  <2>2. CASE Enqueue(e)
    BY <1>0, <2>1, <2>2 DEF Enqueue, Row
  <2>3. CASE Age(e)
    BY <1>0, <2>1, <2>3 DEF Age, Row
  <2>4. CASE ComeDue(e)
    BY <1>0, <2>1, <2>4 DEF ComeDue, Row
  <2>. QED BY <1>2, <2>2, <2>3, <2>4 DEF SendBack, Resummarised, Ask
<1>. QED BY <1>1, <1>2 DEF Evict, CronWake, vars

LEMMA NextIntro == IntroInv /\ [Next]_vars => IntroInv'
<1>. SUFFICES ASSUME IntroInv, [Next]_vars PROVE IntroInv'
  OBVIOUS
<1>1. Typed'
  BY NextTyped DEF IntroInv
<1>2. ASSUME \A f \in Editions : row'[f] = row[f] \/ row'[f].status # "done"
      PROVE  IntroMatchesHash'
  BY <1>2 DEF IntroInv, IntroMatchesHash
<1>. QED BY <1>1, <1>2, TranslateIntro, OthersUnfinished DEF Next, IntroInv, Typed

LEMMA InitIntro == Init => IntroInv
<1>1. NoRow.status = "none" /\ \A t : PointsOnlyRow(t).hash = 0
  BY DEF NoRow, PointsOnlyRow
<1>. QED BY <1>1, InitTyped DEF Init, IntroInv, IntroMatchesHash

\* source_hash of a finished row is that of the source its introduction was
\* translated from, for any number of sources, agents and changes of a source.
THEOREM IntroAlwaysMatchesHash == Spec => []IntroMatchesHash
<1>1. Spec => []IntroInv
  BY InitIntro, NextIntro, PTL DEF Spec
<1>. QED BY <1>1, PTL DEF IntroInv

-----------------------------------------------------------------------------
(* Repeated calls *)

Finished(r, hash) == r.status = "done" /\ Complete(r) /\ r.hash = hash

\* An agent that still finds the row as it read it does not find it finished.
Fresh ==
  \A a \in Agents : At(a, "claim") /\ row[agent[a].edition].status = agent[a].seen
                      /\ row[agent[a].edition].stamp = agent[a].stamp
                    => ~Finished(row[agent[a].edition], agent[a].hash)
FreshInv == Typed /\ Fresh

NoRepeat ==
  \A a \in Agents : \A e \in Editions :
    Translating(a, e)' /\ ~Translating(a, e)
      => ~(row[e].status = "done" /\ Complete(row[e]) /\ row[e].hash = agent[a].hash)

\* What finishes a row gives it a stamp that the others have not read.
LEMMA FreshKept ==
  ASSUME FreshInv,
         \A a \in Agents : agent'[a].pc = "claim" => agent'[a] = agent[a],
         \A a \in Agents : \A f \in Editions :
           agent'[a].pc = "claim" /\ agent[a].edition = f
             => row'[f] = row[f] \/ row'[f].status # "done" \/ row'[f].stamp # agent[a].stamp
  PROVE  Fresh'
<1>. SUFFICES ASSUME NEW a \in Agents, agent'[a].pc = "claim",
                     row'[agent'[a].edition].status = agent'[a].seen,
                     row'[agent'[a].edition].stamp = agent'[a].stamp
              PROVE  ~Finished(row'[agent'[a].edition], agent'[a].hash)
  BY DEF Fresh, At, Finished, Complete
<1>1. agent'[a] = agent[a] /\ agent[a].edition \in Editions
  BY DEF FreshInv, Typed, Named
<1>2. CASE row'[agent[a].edition] = row[agent[a].edition]
  BY <1>1, <1>2 DEF FreshInv, Fresh, At
<1>. QED BY <1>1, <1>2 DEF Finished

\* Where no agent starts or goes on to a claim or a call, and no row is
\* finished, nothing is repeated.
LEMMA QuietSteps ==
  ASSUME FreshInv,
         \A a \in Agents : agent'[a].pc \in {"claim", "model"} => agent'[a] = agent[a],
         \A f \in Editions : row'[f] = row[f] \/ row'[f].status # "done"
  PROVE  NoRepeat /\ Fresh'
<1>1. NoRepeat
  BY DEF NoRepeat, Translating, At
<1>. QED BY <1>1, FreshKept

\* The agents that may start or go on to a claim or a call do so in Translate.
LEMMA OthersQuiet ==
  ASSUME TypeOK,
         \/ \E w \in Workers : Drain(w)
         \/ \E a \in Agents : Evict(a)
         \/ \E e \in Editions :
              \/ Age(e) \/ ComeDue(e) \/ SendBack(e) \/ Resummarised(e) \/ Enqueue(e)
              \/ \E r \in Readers : Ask(r, e)
         \/ CronWake \/ UNCHANGED vars
  PROVE  \A a \in Agents : agent'[a].pc \in {"row", "claim", "model"} => agent'[a] = agent[a]
<1>0. agent \in [Agents -> Agent]
  BY DEF TypeOK
<1>1. ASSUME NEW b \in Agents, NEW v, Become(b, v), v.pc \notin {"row", "claim", "model"}
      PROVE  \A a \in Agents : agent'[a].pc \in {"row", "claim", "model"} => agent'[a] = agent[a]
  BY <1>0, <1>1 DEF Become
<1>2. Idle.pc = "idle" /\ [Idle EXCEPT !.pc = "wake"].pc = "wake"
  BY DEF Idle
<1>3. ASSUME NEW w \in Workers, Drain(w)
      PROVE  \A a \in Agents : agent'[a].pc \in {"row", "claim", "model"} => agent'[a] = agent[a]
  <2>0. w \in Agents /\ agent[w] \in Agent
    BY <1>0 DEF Agents
  <2>1. /\ \A p : [agent[w] EXCEPT !.pc = p].pc = p
        /\ \A p, e : [agent[w] EXCEPT !.pc = p, !.edition = e].pc = p
    BY <2>0 DEF Agent
  <2>2. CASE Deliver(w) \/ Expire(w)
    <3>1. \/ Become(w, [agent[w] EXCEPT !.pc = "expire"])
          \/ Become(w, [agent[w] EXCEPT !.pc = "select"])
      BY <2>2 DEF Deliver, Expire, Goto
    <3>2. [agent[w] EXCEPT !.pc = "expire"].pc = "expire"
          /\ [agent[w] EXCEPT !.pc = "select"].pc = "select"
      BY <2>1
    <3>. QED BY <1>1, <2>0, <3>1, <3>2
  <2>3. CASE Select(w)
    <3>1. \/ \E e \in Editions : Become(w, [agent[w] EXCEPT !.pc = "source", !.edition = e])
          \/ Become(w, [Idle EXCEPT !.pc = "wake"])
          \/ Become(w, Idle)
      BY <2>3 DEF Select
    <3>2. CASE Become(w, [Idle EXCEPT !.pc = "wake"]) \/ Become(w, Idle)
      BY <1>1, <1>2, <2>0, <3>2
    <3>3. ASSUME NEW e \in Editions,
                 Become(w, [agent[w] EXCEPT !.pc = "source", !.edition = e])
          PROVE  \A a \in Agents :
                   agent'[a].pc \in {"row", "claim", "model"} => agent'[a] = agent[a]
      <4>1. [agent[w] EXCEPT !.pc = "source", !.edition = e].pc = "source"
        BY <2>1
      <4>. QED BY <1>1, <2>0, <3>3, <4>1
    <3>. QED BY <3>1, <3>2, <3>3
  <2>4. CASE Wake(w)
    BY <1>1, <1>2, <2>0, <2>4 DEF Wake
  <2>. QED BY <1>3, <2>2, <2>3, <2>4 DEF Drain
<1>4. ASSUME NEW a \in Agents, Evict(a)
      PROVE  \A b \in Agents : agent'[b].pc \in {"row", "claim", "model"} => agent'[b] = agent[b]
  BY <1>1, <1>2, <1>4 DEF Evict
<1>5. ASSUME NEW e \in Editions, NEW r \in Readers, Ask(r, e)
      PROVE  \A a \in Agents : agent'[a].pc \in {"row", "claim", "model"} => agent'[a] = agent[a]
  <2>1. r \in Agents /\ [Idle EXCEPT !.pc = "source", !.edition = e].pc = "source"
    BY DEF Agents, Idle
  <2>. QED BY <1>1, <1>5, <2>1 DEF Ask
<1>. QED BY <1>3, <1>4, <1>5
     DEF Age, ComeDue, SendBack, Resummarised, Enqueue, CronWake, vars

\* Leaving the translator, with no row finished.
LEMMA LeavesQuietly ==
  ASSUME FreshInv, NEW a \in Agents, LeaveUnclaimed(a) \/ Leave(a),
         \A f \in Editions : row'[f] = row[f] \/ row'[f].status # "done"
  PROVE  NoRepeat /\ Fresh'
<1>1. /\ [Idle EXCEPT !.pc = "select", !.tries = agent[a].tries + 1].pc = "select"
      /\ [Idle EXCEPT !.pc = "wake"].pc = "wake" /\ Idle.pc = "idle"
  BY DEF Idle
<1>2. PICK v : Become(a, v) /\ v.pc \notin {"claim", "model"}
  <2>1. CASE Become(a, Idle)
    BY <1>1, <2>1
  <2>2. CASE Become(a, [Idle EXCEPT !.pc = "wake"])
    BY <1>1, <2>2
  <2>3. CASE Become(a, [Idle EXCEPT !.pc = "select", !.tries = agent[a].tries + 1])
    BY <1>1, <2>3
  <2>. QED BY <2>1, <2>2, <2>3 DEF LeaveUnclaimed, Leave
<1>3. \A b \in Agents : agent'[b].pc \in {"claim", "model"} => agent'[b] = agent[b]
  BY <1>2 DEF Become, FreshInv, Typed, TypeOK
<1>. QED BY <1>3, QuietSteps

LEMMA TranslateFresh ==
  ASSUME FreshInv, NEW a \in Agents, Translate(a) PROVE NoRepeat /\ Fresh'
<1>. DEFINE e == agent[a].edition
<1>0. /\ agent[a] \in Agent /\ agent \in [Agents -> Agent] /\ row \in [Editions -> Row]
      /\ Named /\ TypeOK
  BY DEF FreshInv, Typed, TypeOK
<1>1. CASE ReadSource(a)
  <2>1. row' = row
    BY <1>1 DEF ReadSource
  <2>2. CASE Leave(a)
    BY <2>1, <2>2, LeavesQuietly
  <2>3. CASE Become(a, [agent[a] EXCEPT !.pc = "row", !.hash = source[e].version])
    <3>1. [agent[a] EXCEPT !.pc = "row", !.hash = source[e].version].pc = "row"
      BY <1>0 DEF Agent
    <3>2. \A b \in Agents : agent'[b].pc \in {"claim", "model"} => agent'[b] = agent[b]
      BY <1>0, <2>3, <3>1 DEF Become
    <3>. QED BY <2>1, <3>2, QuietSteps
  <2>. QED BY <1>1, <2>2, <2>3 DEF ReadSource
<1>2. CASE ReadRow(a)
  <2>1. row' = row /\ e \in Editions /\ row[e] \in Row
    BY <1>0, <1>2 DEF ReadRow, At, Named
  <2>2. CASE LeaveUnclaimed(a)
    BY <2>1, <2>2, LeavesQuietly
  <2>3. CASE ~LeaveUnclaimed(a)
    <3>. DEFINE read == [agent[a] EXCEPT !.pc = "claim", !.seen = row[e].status,
                                         !.stamp = row[e].stamp,
                                         !.keep = Kept(row[e], agent[a].hash)]
    <3>1. /\ ~(ReadStatus(row[e]) = "done" /\ row[e].hash = agent[a].hash)
          /\ Become(a, read)
      BY <1>2, <2>3 DEF ReadRow
    <3>2. ~Finished(row[e], agent[a].hash)
      BY <3>1 DEF ReadStatus, Finished
    <3>3. read.pc = "claim" /\ read.edition = e /\ read.hash = agent[a].hash
      BY <1>0 DEF Agent
    <3>. HIDE DEF read
    <3>4. agent'[a] = read /\ \A b \in Agents \ {a} : agent'[b] = agent[b]
      BY <1>0, <3>1 DEF Become
    <3>5. NoRepeat
      BY <3>3, <3>4 DEF NoRepeat, Translating, At
    <3>6. ~Finished(row'[agent'[a].edition], agent'[a].hash)
      BY <2>1, <3>2, <3>3, <3>4
    <3>7. Fresh'
      BY <2>1, <3>4, <3>6 DEF FreshInv, Fresh, At, Finished, Complete
    <3>. QED BY <3>5, <3>7
  <2>. QED BY <2>2, <2>3
<1>3. CASE Claim(a)
  <2>1. At(a, "claim") /\ e \in Editions /\ row[e] \in Row
    BY <1>0, <1>3 DEF Claim, At, Named
  <2>2. CASE Claimable(row[e], a)
    <3>. DEFINE t == Now({a}, e)
                claimed == [agent[a] EXCEPT !.pc = "model", !.stamp = t, !.seen = "none"]
    <3>1. row' = [row EXCEPT ![e] = Claimed(row[e], agent[a].hash, t)] /\ Become(a, claimed)
      BY <1>3, <2>2 DEF Claim
    <3>2. Claimed(row[e], agent[a].hash, t).status = "processing"
      BY <2>1 DEF Claimed, Row
    <3>3. claimed.pc = "model" /\ claimed.edition = e
      BY <1>0 DEF Agent
    <3>. HIDE DEF t, claimed
    <3>4. agent'[a] = claimed /\ \A b \in Agents \ {a} : agent'[b] = agent[b]
      BY <1>0, <3>1 DEF Become
    <3>5. \A f \in Editions : row'[f] = row[f] \/ row'[f].status # "done"
      BY <1>0, <2>1, <3>1, <3>2
    <3>6. Fresh'
      BY <3>3, <3>4, <3>5, FreshKept
    <3>7. ~Finished(row[e], agent[a].hash)
      BY <2>1, <2>2 DEF FreshInv, Fresh, Claimable
    <3>8. NoRepeat
      BY <3>3, <3>4, <3>7 DEF NoRepeat, Translating, At, Finished
    <3>. QED BY <3>6, <3>8
  <2>3. CASE ~Claimable(row[e], a)
    <3>1. LeaveUnclaimed(a) /\ row' = row
      BY <1>3, <2>3 DEF Claim
    <3>. QED BY <3>1, LeavesQuietly
  <2>. QED BY <2>2, <2>3
<1>4. CASE Answer(a)
  <2>. DEFINE t == Now({a}, e)
  <2>1. e \in Editions /\ row[e] \in Row /\ Leave(a)
    BY <1>0, <1>4 DEF Answer, At, Named
  <2>2. \A b \in Agents \ {a} : agent[b].edition = e => agent[b].stamp # t
    BY <1>0, <2>1, NowIsFresh
  <2>3. row'[e] = row[e] \/ row'[e].stamp = t
    BY <1>0, <1>4, <2>1 DEF Answer, Row
  <2>. HIDE DEF t
  <2>4. \A f \in Editions : f # e => row'[f] = row[f]
    BY <1>0, <1>4 DEF Answer
  <2>5. Moves(a) /\ agent'[a].pc # "claim"
    <3>1. /\ [Idle EXCEPT !.pc = "wake"].pc = "wake" /\ Idle.pc = "idle"
      BY DEF Idle
    <3>. QED BY <1>0, <2>1, <3>1 DEF Leave, Become, Moves
  <2>6. NoRepeat
    BY <2>5 DEF NoRepeat, Translating, At, Moves
  <2>7. Fresh'
    BY <2>2, <2>3, <2>4, <2>5, FreshKept DEF Moves
  <2>. QED BY <2>6, <2>7
<1>5. CASE NoAnswer(a)
  <2>1. e \in Editions /\ row[e] \in Row /\ Leave(a)
    BY <1>0, <1>5 DEF NoAnswer, At, Named
  <2>2. row'[e] = row[e] \/ row'[e].status = "error"
    BY <1>0, <1>5, <2>1 DEF NoAnswer, Row
  <2>3. \A f \in Editions : f # e => row'[f] = row[f]
    BY <1>0, <1>5 DEF NoAnswer
  <2>. QED BY <2>1, <2>2, <2>3, LeavesQuietly
<1>. QED BY <1>1, <1>2, <1>3, <1>4, <1>5 DEF Translate

LEMMA NextFresh == FreshInv /\ [Next]_vars => FreshInv' /\ NoRepeat
<1>. SUFFICES ASSUME FreshInv, [Next]_vars PROVE FreshInv' /\ NoRepeat
  OBVIOUS
<1>1. Typed' /\ TypeOK
  BY NextTyped DEF FreshInv, Typed
<1>2. ASSUME NEW a \in Agents, Translate(a) PROVE NoRepeat /\ Fresh'
  BY <1>2, TranslateFresh
<1>3. CASE \/ \E w \in Workers : Drain(w)
           \/ \E a \in Agents : Evict(a)
           \/ \E e \in Editions :
                \/ Age(e) \/ ComeDue(e) \/ SendBack(e) \/ Resummarised(e) \/ Enqueue(e)
                \/ \E r \in Readers : Ask(r, e)
           \/ CronWake \/ UNCHANGED vars
  <2>1. \A f \in Editions : row'[f] = row[f] \/ row'[f].status # "done"
    BY <1>1, <1>3, OthersUnfinished
  <2>2. \A a \in Agents : agent'[a].pc \in {"claim", "model"} => agent'[a] = agent[a]
    BY <1>1, <1>3, OthersQuiet
  <2>. QED BY <1>1, <2>1, <2>2, QuietSteps DEF FreshInv
<1>. QED BY <1>1, <1>2, <1>3 DEF Next, FreshInv

LEMMA InitFresh == Init => FreshInv
BY InitTyped DEF Init, Idle, FreshInv, Fresh, At

\* A row that was finished, for the source an agent read, after it had been
\* selected is not translated again, whoever finished it and however many
\* agents were on their way to it.
THEOREM NeverTwiceAlways == Spec => NeverTwice
<1>1. Spec => [][NoRepeat]_vars
  BY InitFresh, NextFresh, PTL DEF Spec
<1>. QED BY <1>1 DEF NeverTwice, NoRepeat
-----------------------------------------------------------------------------
(* AttemptBudget *)

\* The agents of S on their way to a claim of row e.
OnWay(ag, S, e) == {a \in S : ag[a].pc \in {"source", "row", "claim"} /\ ag[a].edition = e}

\* What one row may still cost.  Every agent on its way to it may claim it once.
\* A worker set out when the row had attempts left, a reader for a request; and
\* the agent whose claim used the last attempt is no longer on its way.
Spent(r, workers, readers, asks) ==
  /\ Cardinality(readers) <= asks
  /\ r.status = "queued" => r.attempts = 0
  /\ \/ r.attempts < MaxAttempts
     \/ r.attempts + Cardinality(workers) + Cardinality(readers)
          <= MaxAttempts + (Cardinality(Workers) - 1) + asks

BudgetOf(ag, rows, asks) ==
  \A e \in Editions : Spent(rows[e], OnWay(ag, Workers, e), OnWay(ag, Readers, e), asks)

BudgetInv == Typed /\ BudgetOf(agent, row, requests)

LEMMA WayFinite ==
  ASSUME NEW S \in {Workers, Readers}, NEW ag, NEW e
  PROVE  /\ IsFiniteSet(OnWay(ag, S, e)) /\ Cardinality(OnWay(ag, S, e)) \in Nat
         /\ Cardinality(OnWay(ag, S, e)) <= Cardinality(S) /\ Cardinality(S) \in Nat
<1>1. OnWay(ag, S, e) \subseteq S /\ IsFiniteSet(S)
  BY BulletinAssumption DEF OnWay
<1>. QED BY <1>1, FS_Subset, FS_CardinalityType

\* Agents that leave the way, or stay on it, spend nothing.
LEMMA NothingSpent ==
  ASSUME NEW r \in Row, NEW q \in Row, NEW asks \in Nat, NEW more \in Nat, asks <= more,
         NEW ag, NEW next, NEW e,
         Spent(r, OnWay(ag, Workers, e), OnWay(ag, Readers, e), asks),
         OnWay(next, Workers, e) \subseteq OnWay(ag, Workers, e),
         OnWay(next, Readers, e) \subseteq OnWay(ag, Readers, e),
         q.attempts \in {0, r.attempts},
         q.status = "queued" => q.attempts = 0
  PROVE  Spent(q, OnWay(next, Workers, e), OnWay(next, Readers, e), more)
<1>. DEFINE w1 == Cardinality(OnWay(ag, Workers, e))
            w2 == Cardinality(OnWay(next, Workers, e))
            r1 == Cardinality(OnWay(ag, Readers, e))
            r2 == Cardinality(OnWay(next, Readers, e))
            n == Cardinality(Workers)
<1>1. w1 \in Nat /\ w2 \in Nat /\ r1 \in Nat /\ r2 \in Nat /\ n \in Nat
  BY WayFinite
<1>2. w2 <= w1 /\ r2 <= r1
  BY WayFinite, FS_Subset
<1>3. r.attempts \in Nat /\ q.attempts \in Nat /\ MaxAttempts \in Nat /\ MaxAttempts > 0
  BY BulletinAssumption DEF Row
<1>4. /\ r1 <= asks
      /\ r.attempts < MaxAttempts \/ r.attempts + w1 + r1 <= MaxAttempts + (n - 1) + asks
  BY DEF Spent
<1>. HIDE DEF w1, w2, r1, r2, n
<1>5. r2 <= more
  BY <1>1, <1>2, <1>4
<1>6. q.attempts < MaxAttempts \/ q.attempts + w2 + r2 <= MaxAttempts + (n - 1) + more
  BY <1>1, <1>2, <1>3, <1>4
<1>. QED BY <1>5, <1>6 DEF Spent, w2, r2, n

\* A claim uses up one agent on its way and one attempt.
LEMMA ClaimSpends ==
  ASSUME NEW r \in Row, NEW q \in Row, NEW asks \in Nat, NEW ag, NEW next, NEW e,
         NEW a \in Agents,
         Spent(r, OnWay(ag, Workers, e), OnWay(ag, Readers, e), asks),
         a \in OnWay(ag, Agents, e),
         OnWay(next, Workers, e) = OnWay(ag, Workers, e) \ {a},
         OnWay(next, Readers, e) = OnWay(ag, Readers, e) \ {a},
         q.attempts = r.attempts + 1, q.status # "queued"
  PROVE  Spent(q, OnWay(next, Workers, e), OnWay(next, Readers, e), asks)
<1>. DEFINE w1 == Cardinality(OnWay(ag, Workers, e))
            w2 == Cardinality(OnWay(next, Workers, e))
            r1 == Cardinality(OnWay(ag, Readers, e))
            r2 == Cardinality(OnWay(next, Readers, e))
            n == Cardinality(Workers)
<1>1. /\ w1 \in Nat /\ w2 \in Nat /\ r1 \in Nat /\ r2 \in Nat /\ n \in Nat
      /\ w1 <= n
  BY WayFinite
<1>2. \/ w2 = w1 - 1 /\ r2 = r1
      \/ w2 = w1 /\ r2 = r1 - 1
  <2>1. CASE a \in Workers
    <3>1. a \in OnWay(ag, Workers, e) /\ a \notin OnWay(ag, Readers, e)
      BY <2>1, BulletinAssumption DEF OnWay
    <3>2. r2 = r1
      BY <3>1
    <3>3. w2 = w1 - 1
      <4>1. Cardinality(OnWay(ag, Workers, e) \ {a}) = w1 - 1
        BY <3>1, WayFinite, FS_RemoveElement
      <4>. QED BY <4>1
    <3>. QED BY <3>2, <3>3
  <2>2. CASE a \in Readers
    <3>1. a \in OnWay(ag, Readers, e) /\ a \notin OnWay(ag, Workers, e)
      BY <2>2, BulletinAssumption DEF OnWay
    <3>2. w2 = w1
      BY <3>1
    <3>3. r2 = r1 - 1
      <4>1. Cardinality(OnWay(ag, Readers, e) \ {a}) = r1 - 1
        BY <3>1, WayFinite, FS_RemoveElement
      <4>. QED BY <4>1
    <3>. QED BY <3>2, <3>3
  <2>. QED BY <2>1, <2>2 DEF Agents
<1>3. r.attempts \in Nat /\ MaxAttempts \in Nat /\ MaxAttempts > 0
  BY BulletinAssumption DEF Row
<1>4. /\ r1 <= asks
      /\ r.attempts < MaxAttempts \/ r.attempts + w1 + r1 <= MaxAttempts + (n - 1) + asks
  BY DEF Spent
<1>. HIDE DEF w1, w2, r1, r2, n
<1>5. r2 <= asks
  BY <1>1, <1>2, <1>4
<1>6. q.attempts < MaxAttempts \/ q.attempts + w2 + r2 <= MaxAttempts + (n - 1) + asks
  BY <1>1, <1>2, <1>3, <1>4
<1>. QED BY <1>5, <1>6 DEF Spent, w2, r2, n

\* Agent b does not set out for a row.
OnWayPc == {"source", "row", "claim"}
SetsOutNot(b) ==
  agent'[b].pc \in OnWayPc => agent[b].pc \in OnWayPc /\ agent'[b].edition = agent[b].edition

\* No attempt is counted, and a row that is queued has none.
CountsNothing ==
  \A e \in Editions : /\ row'[e].attempts \in {0, row[e].attempts}
                      /\ row'[e].status = "queued" => row'[e].attempts = 0

LEMMA BudgetKept ==
  ASSUME BudgetInv, Typed', CountsNothing, requests <= requests',
         \A b \in Agents : SetsOutNot(b)
  PROVE  BudgetOf(agent', row', requests')
<1>. SUFFICES ASSUME NEW e \in Editions
              PROVE  Spent(row'[e], OnWay(agent', Workers, e), OnWay(agent', Readers, e),
                           requests')
  BY DEF BudgetOf
<1>1. /\ OnWay(agent', Workers, e) \subseteq OnWay(agent, Workers, e)
      /\ OnWay(agent', Readers, e) \subseteq OnWay(agent, Readers, e)
  BY DEF SetsOutNot, OnWayPc, OnWay, Agents
<1>2. row[e] \in Row /\ row'[e] \in Row /\ requests \in Nat /\ requests' \in Nat
  BY BulletinAssumption DEF BudgetInv, Typed, TypeOK
<1>. QED BY <1>1, <1>2, NothingSpent DEF CountsNothing, BudgetInv, BudgetOf

\* Rows that are left alone count nothing.
LEMMA RowsKept ==
  ASSUME BudgetInv, UNCHANGED row PROVE CountsNothing
BY DEF BudgetInv, BudgetOf, Spent, CountsNothing

LEMMA LeavesWay ==
  ASSUME TypeOK, NEW a \in Agents, LeaveUnclaimed(a) \/ Leave(a) PROVE \A b \in Agents : SetsOutNot(b)
<1>1. /\ [Idle EXCEPT !.pc = "select", !.tries = agent[a].tries + 1].pc = "select"
      /\ [Idle EXCEPT !.pc = "wake"].pc = "wake" /\ Idle.pc = "idle"
  BY DEF Idle
<1>2. PICK v : Become(a, v) /\ v.pc \notin OnWayPc
  <2>1. CASE Become(a, Idle)
    BY <1>1, <2>1 DEF OnWayPc
  <2>2. CASE Become(a, [Idle EXCEPT !.pc = "wake"])
    BY <1>1, <2>2 DEF OnWayPc
  <2>3. CASE Become(a, [Idle EXCEPT !.pc = "select", !.tries = agent[a].tries + 1])
    BY <1>1, <2>3 DEF OnWayPc
  <2>. QED BY <2>1, <2>2, <2>3 DEF LeaveUnclaimed, Leave
<1>. QED BY <1>2 DEF Become, TypeOK, SetsOutNot

\* The agent goes on along its way, or off it.
LEMMA GoesOn ==
  ASSUME TypeOK, NEW a \in Agents, NEW v, Become(a, v),
         v.pc \in OnWayPc => agent[a].pc \in OnWayPc /\ v.edition = agent[a].edition
  PROVE  \A b \in Agents : SetsOutNot(b)
BY DEF Become, TypeOK, SetsOutNot

\* A worker sets out for a row that has attempts left.
LEMMA SelectSpends ==
  ASSUME BudgetInv, Typed', NEW w \in Workers, Select(w)
  PROVE  BudgetOf(agent', row', requests')
<1>0. /\ w \in Agents /\ w \notin Readers /\ agent[w] \in Agent /\ TypeOK
      /\ row' = row /\ requests' = requests /\ requests \in Nat
  <2>1. row' = row /\ requests' = requests
    BY DEF Select
  <2>2. w \in Agents /\ w \notin Readers
    BY BulletinAssumption DEF Agents
  <2>. QED BY <2>1, <2>2, BulletinAssumption DEF BudgetInv, Typed, TypeOK
<1>1. CASE \E e \in Editions :
             Pending(e) /\ Become(w, [agent[w] EXCEPT !.pc = "source", !.edition = e])
  <2>1. PICK e \in Editions :
          Pending(e) /\ Become(w, [agent[w] EXCEPT !.pc = "source", !.edition = e])
    BY <1>1
  <2>2. /\ \A b \in Agents \ {w} : agent'[b] = agent[b]
        /\ agent'[w].edition = e
    BY <1>0, <2>1 DEF Become, TypeOK, Agent
  <2>3. \A f \in Editions :
          OnWay(agent', Readers, f) = OnWay(agent, Readers, f)
    BY <1>0, <2>2 DEF OnWay, Agents
  <2>4. \A f \in Editions :
          f # e => OnWay(agent', Workers, f) \subseteq OnWay(agent, Workers, f)
    BY <1>0, <2>2 DEF OnWay, Agents
  <2>5. row[e].attempts < MaxAttempts
    BY <2>1, BulletinAssumption DEF Pending, BudgetInv, BudgetOf, Spent
  <2>6. Spent(row'[e], OnWay(agent', Workers, e), OnWay(agent', Readers, e), requests')
    BY <1>0, <2>3, <2>5 DEF Spent, BudgetInv, BudgetOf
  <2>7. ASSUME NEW f \in Editions, f # e
        PROVE  Spent(row'[f], OnWay(agent', Workers, f), OnWay(agent', Readers, f), requests')
    <3>1. row[f] \in Row /\ row'[f] = row[f] /\ requests <= requests'
      BY <1>0 DEF TypeOK
    <3>2. row[f].status = "queued" => row[f].attempts = 0
      BY DEF BudgetInv, BudgetOf, Spent
    <3>3. Spent(row[f], OnWay(agent, Workers, f), OnWay(agent, Readers, f), requests)
      BY DEF BudgetInv, BudgetOf
    <3>. QED BY <1>0, <2>3, <2>4, <2>7, <3>1, <3>2, <3>3, NothingSpent
  <2>. QED BY <2>6, <2>7 DEF BudgetOf
<1>2. CASE Become(w, Idle) \/ Become(w, [Idle EXCEPT !.pc = "wake"])
  <2>1. [Idle EXCEPT !.pc = "wake"].pc = "wake" /\ Idle.pc = "idle"
    BY DEF Idle
  <2>2. \A b \in Agents : SetsOutNot(b)
    BY <1>0, <1>2, <2>1, GoesOn DEF OnWayPc
  <2>. QED BY <1>0, <2>2, BudgetKept, RowsKept
<1>. QED BY <1>1, <1>2 DEF Select

\* A reader sets out, for one request.
LEMMA AskSpends ==
  ASSUME BudgetInv, Typed', NEW r \in Readers, NEW e \in Editions, Ask(r, e)
  PROVE  BudgetOf(agent', row', requests')
<1>0. /\ r \in Agents /\ r \notin Workers /\ TypeOK
      /\ row' = row /\ requests' = requests + 1 /\ requests \in Nat
  BY BulletinAssumption DEF Agents, BudgetInv, Typed, TypeOK, Ask
<1>1. \A b \in Agents \ {r} : agent'[b] = agent[b]
  BY <1>0 DEF Ask, Become, TypeOK
<1>. SUFFICES ASSUME NEW f \in Editions
              PROVE  Spent(row'[f], OnWay(agent', Workers, f), OnWay(agent', Readers, f),
                           requests')
  BY DEF BudgetOf
<1>. DEFINE w1 == Cardinality(OnWay(agent, Workers, f))
            r1 == Cardinality(OnWay(agent, Readers, f))
            r2 == Cardinality(OnWay(agent', Readers, f))
            n == Cardinality(Workers)
<1>2. OnWay(agent', Workers, f) = OnWay(agent, Workers, f)
  BY <1>0, <1>1 DEF OnWay, Agents
<1>3. OnWay(agent', Readers, f) \subseteq OnWay(agent, Readers, f) \cup {r}
  BY <1>1 DEF OnWay, Agents
<1>4. r1 \in Nat /\ r2 \in Nat /\ w1 \in Nat /\ n \in Nat /\ r2 <= r1 + 1
  <2>1. IsFiniteSet(OnWay(agent, Readers, f))
    BY WayFinite
  <2>2. /\ IsFiniteSet(OnWay(agent, Readers, f) \cup {r})
        /\ Cardinality(OnWay(agent, Readers, f) \cup {r}) \in {r1, r1 + 1}
    BY <2>1, FS_AddElement
  <2>3. r2 <= Cardinality(OnWay(agent, Readers, f) \cup {r})
    BY <1>3, <2>2, FS_Subset
  <2>4. r1 \in Nat /\ r2 \in Nat /\ w1 \in Nat /\ n \in Nat
    BY WayFinite
  <2>. HIDE DEF r1, r2
  <2>. QED BY <2>2, <2>3, <2>4
<1>5. /\ r1 <= requests /\ row[f].attempts \in Nat /\ MaxAttempts \in Nat
      /\ row[f].status = "queued" => row[f].attempts = 0
      /\ \/ row[f].attempts < MaxAttempts
         \/ row[f].attempts + w1 + r1 <= MaxAttempts + (n - 1) + requests
  BY <1>0, BulletinAssumption DEF BudgetInv, BudgetOf, Spent, TypeOK, Row
<1>. HIDE DEF w1, r1, r2, n
<1>6. r2 <= requests + 1
  BY <1>0, <1>4, <1>5
<1>7. \/ row[f].attempts < MaxAttempts
      \/ row[f].attempts + w1 + r2 <= MaxAttempts + (n - 1) + (requests + 1)
  BY <1>0, <1>4, <1>5
<1>. QED BY <1>0, <1>2, <1>5, <1>6, <1>7 DEF Spent, w1, r2, n
LEMMA DrainSpends ==
  ASSUME BudgetInv, Typed', NEW w \in Workers, Drain(w)
  PROVE  BudgetOf(agent', row', requests')
<1>0. w \in Agents /\ agent[w] \in Agent /\ TypeOK /\ requests \in Nat
  BY BulletinAssumption DEF Agents, BudgetInv, Typed, TypeOK
<1>1. CASE Deliver(w) \/ Expire(w)
  <2>1. PICK p \in {"expire", "select"} : Become(w, [agent[w] EXCEPT !.pc = p])
    BY <1>1 DEF Deliver, Expire, Goto
  <2>2. [agent[w] EXCEPT !.pc = p].pc = p /\ p \notin OnWayPc
    BY <1>0 DEF Agent, OnWayPc
  <2>3. \A b \in Agents : SetsOutNot(b)
    BY <1>0, <2>1, <2>2, GoesOn
  <2>4. CountsNothing
    <3>1. CASE Deliver(w)
      BY <3>1, RowsKept DEF Deliver
    <3>2. CASE Expire(w)
      <4>1. \A e \in Editions : /\ row'[e] = row[e] \/ row'[e] = [row[e] EXCEPT !.status = "error"]
                                /\ row[e] \in Row
        BY <1>0, <3>2 DEF Expire, TypeOK
      <4>. QED BY <4>1 DEF Row, CountsNothing, BudgetInv, BudgetOf, Spent
    <3>. QED BY <1>1, <3>1, <3>2
  <2>5. requests' = requests
    BY <1>1 DEF Deliver, Expire
  <2>. QED BY <1>0, <2>3, <2>4, <2>5, BudgetKept
<1>2. CASE Select(w)
  BY <1>2, SelectSpends
<1>3. CASE Wake(w)
  <2>1. Become(w, Idle) /\ row' = row /\ requests' = requests /\ Idle.pc = "idle"
    BY <1>3 DEF Wake, Idle
  <2>2. \A b \in Agents : SetsOutNot(b)
    BY <1>0, <2>1, GoesOn DEF OnWayPc
  <2>. QED BY <1>0, <2>1, <2>2, BudgetKept, RowsKept
<1>. QED BY <1>1, <1>2, <1>3 DEF Drain

\* A claim that succeeds.
LEMMA ClaimedSpends ==
  ASSUME BudgetInv, Typed', NEW a \in Agents, Claim(a), Claimable(row[agent[a].edition], a)
  PROVE  BudgetOf(agent', row', requests')
<1>. DEFINE e == agent[a].edition
            t == Now({a}, e)
            claimed == [agent[a] EXCEPT !.pc = "model", !.stamp = t, !.seen = "none"]
<1>0. /\ agent \in [Agents -> Agent] /\ row \in [Editions -> Row] /\ row' \in [Editions -> Row]
      /\ Named /\ requests \in Nat
  BY BulletinAssumption DEF BudgetInv, Typed, TypeOK
<1>1. e \in Editions /\ agent[a].pc = "claim" /\ requests' = requests
  BY <1>0 DEF Claim, At, Named
<1>2. row' = [row EXCEPT ![e] = Claimed(row[e], agent[a].hash, t)] /\ Become(a, claimed)
  BY DEF Claim
<1>3. /\ Claimed(row[e], agent[a].hash, t).status = "processing"
      /\ Claimed(row[e], agent[a].hash, t).attempts = row[e].attempts + 1
  <2>1. row[e] \in Row
    BY <1>0, <1>1
  <2>. QED BY <2>1 DEF Claimed, Row
<1>4. claimed.pc = "model"
  BY <1>0 DEF Agent
<1>. HIDE DEF t, claimed
<1>5. agent'[a].pc = "model" /\ \A b \in Agents \ {a} : agent'[b] = agent[b]
  BY <1>0, <1>2, <1>4 DEF Become
<1>6. \A f \in Editions : \A S \in {Workers, Readers} :
        OnWay(agent', S, f) = OnWay(agent, S, f) \ {a}
  BY <1>5 DEF OnWay, Agents
<1>7. a \in OnWay(agent, Agents, e)
  BY <1>1 DEF OnWay
<1>8. \A f \in Editions : Spent(row[f], OnWay(agent, Workers, f), OnWay(agent, Readers, f), requests)
  BY DEF BudgetInv, BudgetOf
<1>9. Spent(row'[e], OnWay(agent', Workers, e), OnWay(agent', Readers, e), requests)
  <2>1. row'[e].attempts = row[e].attempts + 1 /\ row'[e].status # "queued"
    BY <1>0, <1>1, <1>2, <1>3
  <2>2. row[e] \in Row /\ row'[e] \in Row
    BY <1>0, <1>1
  <2>. QED BY <1>0, <1>1, <1>6, <1>7, <1>8, <2>1, <2>2, ClaimSpends
<1>10. ASSUME NEW f \in Editions, f # e
       PROVE  Spent(row'[f], OnWay(agent', Workers, f), OnWay(agent', Readers, f), requests)
  <2>1. row[f] \in Row /\ row'[f] = row[f]
    BY <1>0, <1>2, <1>10
  <2>2. row[f].status = "queued" => row[f].attempts = 0
    BY <1>8 DEF Spent
  <2>. QED BY <1>0, <1>6, <1>8, <2>1, <2>2, NothingSpent
<1>. QED BY <1>1, <1>9, <1>10 DEF BudgetOf

LEMMA TranslateSpends ==
  ASSUME BudgetInv, Typed', NEW a \in Agents, Translate(a)
  PROVE  BudgetOf(agent', row', requests')
<1>. DEFINE e == agent[a].edition
<1>0. /\ agent \in [Agents -> Agent] /\ agent[a] \in Agent /\ row \in [Editions -> Row]
      /\ Named /\ TypeOK /\ requests \in Nat
  BY BulletinAssumption DEF BudgetInv, Typed, TypeOK
<1>1. requests' = requests
  BY DEF Translate, ReadSource, ReadRow, Claim, Answer, NoAnswer
<1>2. ASSUME CountsNothing, LeaveUnclaimed(a) \/ Leave(a)
      PROVE  BudgetOf(agent', row', requests')
  BY <1>0, <1>1, <1>2, LeavesWay, BudgetKept
<1>3. CASE ReadSource(a)
  <2>1. row' = row /\ agent[a].pc = "source"
    BY <1>3 DEF ReadSource, At
  <2>2. CASE Leave(a)
    BY <1>2, <2>1, <2>2, RowsKept
  <2>3. CASE Become(a, [agent[a] EXCEPT !.pc = "row", !.hash = source[e].version])
    <3>1. /\ [agent[a] EXCEPT !.pc = "row", !.hash = source[e].version].edition = e
      BY <1>0 DEF Agent
    <3>2. \A b \in Agents : SetsOutNot(b)
      BY <1>0, <2>1, <2>3, <3>1, GoesOn DEF OnWayPc
    <3>. QED BY <1>0, <1>1, <2>1, <3>2, BudgetKept, RowsKept
  <2>. QED BY <1>3, <2>2, <2>3 DEF ReadSource
<1>4. CASE ReadRow(a)
  <2>1. row' = row /\ agent[a].pc = "row"
    BY <1>4 DEF ReadRow, At
  <2>2. CASE LeaveUnclaimed(a)
    BY <1>2, <2>1, <2>2, RowsKept
  <2>3. CASE ~LeaveUnclaimed(a)
    <3>. DEFINE read == [agent[a] EXCEPT !.pc = "claim", !.seen = row[e].status,
                                         !.stamp = row[e].stamp,
                                         !.keep = Kept(row[e], agent[a].hash)]
    <3>1. Become(a, read)
      BY <1>4, <2>3 DEF ReadRow
    <3>2. read.edition = e
      BY <1>0 DEF Agent
    <3>. HIDE DEF read
    <3>3. \A b \in Agents : SetsOutNot(b)
      BY <1>0, <2>1, <3>1, <3>2, GoesOn DEF OnWayPc
    <3>. QED BY <1>0, <1>1, <2>1, <3>3, BudgetKept, RowsKept
  <2>. QED BY <2>2, <2>3
<1>5. CASE Claim(a)
  <2>1. CASE Claimable(row[e], a)
    BY <1>5, <2>1, ClaimedSpends
  <2>2. CASE ~Claimable(row[e], a)
    <3>1. LeaveUnclaimed(a) /\ row' = row
      BY <1>5, <2>2 DEF Claim
    <3>. QED BY <1>2, <3>1, RowsKept
  <2>. QED BY <2>1, <2>2
<1>6. CASE Answer(a) \/ NoAnswer(a)
  <2>1. Leave(a) /\ e \in Editions
    BY <1>0, <1>6 DEF Answer, NoAnswer, At, Named
  <2>2. \A f \in Editions : f # e => row'[f] = row[f]
    BY <1>0, <1>6 DEF Answer, NoAnswer
  <2>3. \/ row'[e] = row[e]
        \/ row'[e].attempts = row[e].attempts /\ row'[e].status # "queued"
    <3>1. row[e] \in Row
      BY <1>0, <2>1
    <3>2. CASE Answer(a)
      BY <1>0, <2>1, <3>1, <3>2 DEF Answer, Row
    <3>3. CASE NoAnswer(a)
      BY <1>0, <2>1, <3>1, <3>3 DEF NoAnswer, Row
    <3>. QED BY <1>6, <3>2, <3>3
  <2>4. CountsNothing
    BY <2>2, <2>3 DEF CountsNothing, BudgetInv, BudgetOf, Spent
  <2>. QED BY <1>2, <2>1, <2>4
<1>. QED BY <1>3, <1>4, <1>5, <1>6 DEF Translate

\* The rest of the system sets nobody out, and sets attempts back at most.
LEMMA EnvironmentSpends ==
  ASSUME BudgetInv, Typed',
         \/ \E a \in Agents : Evict(a)
         \/ \E e \in Editions : Age(e) \/ ComeDue(e) \/ SendBack(e) \/ Resummarised(e) \/ Enqueue(e)
         \/ CronWake \/ UNCHANGED vars
  PROVE  BudgetOf(agent', row', requests')
<1>0. TypeOK /\ requests \in Nat /\ Idle.pc = "idle"
  BY BulletinAssumption DEF BudgetInv, Typed, TypeOK, Idle
<1>1. CASE \E a \in Agents : Evict(a)
  <2>1. \A b \in Agents : SetsOutNot(b)
    BY <1>0, <1>1, GoesOn DEF Evict, OnWayPc
  <2>2. row' = row /\ requests' = requests
    BY <1>1 DEF Evict
  <2>. QED BY <1>0, <2>1, <2>2, BudgetKept, RowsKept
<1>2. ASSUME UNCHANGED agent, CountsNothing, requests <= requests'
      PROVE  BudgetOf(agent', row', requests')
  BY <1>2, BudgetKept DEF SetsOutNot
<1>3. CASE \/ \E e \in Editions : SendBack(e) \/ Resummarised(e)
           \/ CronWake \/ UNCHANGED vars
  <2>1. UNCHANGED <<agent, row, requests>>
    BY <1>3 DEF SendBack, Resummarised, CronWake, vars
  <2>. QED BY <1>0, <1>2, <2>1, RowsKept
<1>4. ASSUME NEW e \in Editions, Age(e) \/ ComeDue(e) \/ Enqueue(e)
      PROVE  BudgetOf(agent', row', requests')
  <2>1. UNCHANGED agent /\ requests <= requests'
    <3>1. UNCHANGED agent /\ requests' \in {requests, requests + 1}
      BY <1>4 DEF Age, ComeDue, Enqueue
    <3>. QED BY <1>0, <3>1
  <2>2. \A f \in Editions : f # e => row'[f] = row[f]
    BY <1>0, <1>4 DEF Age, ComeDue, Enqueue, TypeOK
  <2>3. row[e] \in Row /\ row \in [Editions -> Row]
    BY <1>0 DEF TypeOK
  <2>4. \/ row'[e].attempts = row[e].attempts /\ row'[e].status = row[e].status
        \/ row'[e].attempts = 0
    <3>1. CASE Age(e)
      BY <2>3, <3>1 DEF Age, Row
    <3>2. CASE ComeDue(e)
      BY <2>3, <3>2 DEF ComeDue, Row
    <3>3. CASE Enqueue(e)
      BY <2>3, <3>3 DEF Enqueue, Row
    <3>. QED BY <1>4, <3>1, <3>2, <3>3
  <2>5. CountsNothing
    BY <2>2, <2>4 DEF CountsNothing, BudgetInv, BudgetOf, Spent
  <2>. QED BY <1>2, <2>1, <2>5
<1>. QED BY <1>1, <1>3, <1>4

LEMMA NextBudget == BudgetInv /\ [Next]_vars => BudgetInv'
<1>. SUFFICES ASSUME BudgetInv, [Next]_vars PROVE BudgetInv'
  OBVIOUS
<1>1. Typed'
  BY NextTyped DEF BudgetInv
<1>2. BudgetOf(agent', row', requests')
  BY <1>1, DrainSpends, TranslateSpends, EnvironmentSpends, AskSpends DEF Next
<1>. QED BY <1>1, <1>2 DEF BudgetInv, BudgetOf, Spent, OnWay

LEMMA InitBudget == Init => BudgetInv
<1>. SUFFICES ASSUME Init, NEW e \in Editions
              PROVE  Spent(row[e], OnWay(agent, Workers, e), OnWay(agent, Readers, e), requests)
  BY InitTyped DEF BudgetInv, BudgetOf
<1>1. OnWay(agent, Readers, e) = {}
  BY DEF Init, OnWay, Idle, Agents
<1>2. Cardinality(OnWay(agent, Readers, e)) = 0 /\ requests = 0
  BY <1>1, FS_EmptySet DEF Init
<1>3. row[e].attempts = 0
  <2>1. \E t \in Stamps : row[e] \in {NoRow, PointsOnlyRow(t)}
    BY SomeStamp DEF Init
  <2>2. NoRow.attempts = 0
    BY DEF NoRow
  <2>3. ASSUME NEW t \in Stamps PROVE PointsOnlyRow(t).attempts = 0
    BY DEF NoRow, PointsOnlyRow
  <2>. QED BY <2>1, <2>2, <2>3
<1>. QED BY <1>2, <1>3, BulletinAssumption DEF Spent

\* The workers and the readers call the model for one row at most MaxAttempts
\* times, and once more for every worker but one and for every request: every
\* claim of a row uses up an agent that set out for it.
THEOREM AttemptsWithinBudget == Spec => []AttemptBudget
<1>1. BudgetInv => AttemptBudget
  <2>. SUFFICES ASSUME BudgetInv, NEW e \in Editions
                PROVE  row[e].attempts <= MaxAttempts + (Cardinality(Workers) - 1) + requests
    BY DEF AttemptBudget
  <2>. DEFINE w1 == Cardinality(OnWay(agent, Workers, e))
              r1 == Cardinality(OnWay(agent, Readers, e))
              n == Cardinality(Workers)
  <2>1. w1 \in Nat /\ r1 \in Nat /\ n \in Nat
    BY WayFinite
  <2>2. row[e].attempts \in Nat /\ requests \in Nat /\ MaxAttempts \in Nat
    BY BulletinAssumption DEF BudgetInv, Typed, TypeOK, Row
  <2>3. \/ row[e].attempts < MaxAttempts
        \/ row[e].attempts + w1 + r1 <= MaxAttempts + (n - 1) + requests
    BY DEF BudgetInv, BudgetOf, Spent
  <2>. HIDE DEF w1, r1, n
  <2>4. row[e].attempts <= MaxAttempts + (n - 1) + requests
    BY <2>1, <2>2, <2>3
  <2>. QED BY <2>4 DEF n
<1>. QED BY <1>1, InitBudget, NextBudget, PTL DEF Spec

-----------------------------------------------------------------------------
(* The translator implements LeasedText *)

\* Whoever has read the source is on its way with a version of it.
Hashed == \A a \in Agents : agent[a].pc \in {"row", "claim", "model"} => agent[a].hash \in Versions
TextInv == LeaseInv /\ Hashed

LEMMA TranslateHashed ==
  ASSUME TextInv, NEW a \in Agents, Translate(a) PROVE Hashed'
<1>. DEFINE e == agent[a].edition
            read == [agent[a] EXCEPT !.pc = "row", !.hash = source[e].version]
            seen == [agent[a] EXCEPT !.pc = "claim", !.seen = row[e].status,
                                     !.stamp = row[e].stamp, !.keep = Kept(row[e], agent[a].hash)]
            claimed == [agent[a] EXCEPT !.pc = "model", !.stamp = Now({a}, e), !.seen = "none"]
<1>0. agent \in [Agents -> Agent] /\ agent[a] \in Agent
  BY DEF TextInv, LeaseInv, Typed, TypeOK
<1>1. ASSUME NEW v, Become(a, v), v.pc \in {"row", "claim", "model"} => v.hash \in Versions
      PROVE  Hashed'
  BY <1>0, <1>1 DEF Become, TextInv, Hashed
<1>2. \/ Become(a, read) /\ ReadSource(a)
      \/ Become(a, seen) /\ At(a, "row")
      \/ Become(a, claimed) /\ At(a, "claim")
      \/ LeaveUnclaimed(a) \/ Leave(a)
  <2>1. ReadSource(a) => Become(a, read) \/ Leave(a)
    BY DEF ReadSource
  <2>2. ReadRow(a) => (Become(a, seen) /\ At(a, "row")) \/ LeaveUnclaimed(a)
    BY DEF ReadRow
  <2>3. Claim(a) => (Become(a, claimed) /\ At(a, "claim")) \/ LeaveUnclaimed(a)
    BY DEF Claim
  <2>. HIDE DEF read, seen, claimed
  <2>. QED BY <2>1, <2>2, <2>3 DEF Translate, Answer, NoAnswer
<1>3. CASE Become(a, read) /\ ReadSource(a)
  <2>1. source[e].version \in Versions
    BY <1>3 DEF ReadSource, At, TextInv, LeaseInv, Typed, TypeOK, Named
  <2>2. read.hash \in Versions
    BY <1>0, <2>1 DEF Agent
  <2>. HIDE DEF read
  <2>. QED BY <1>1, <1>3, <2>2
<1>4. CASE Become(a, seen) /\ At(a, "row")
  <2>1. seen.hash \in Versions
    BY <1>0, <1>4 DEF Agent, TextInv, Hashed, At
  <2>. HIDE DEF seen
  <2>. QED BY <1>1, <1>4, <2>1
<1>5. CASE Become(a, claimed) /\ At(a, "claim")
  <2>1. claimed.hash \in Versions
    BY <1>0, <1>5 DEF Agent, TextInv, Hashed, At
  <2>. HIDE DEF claimed
  <2>. QED BY <1>1, <1>5, <2>1
<1>6. CASE LeaveUnclaimed(a) \/ Leave(a)
  <2>1. /\ [Idle EXCEPT !.pc = "select", !.tries = agent[a].tries + 1].pc = "select"
        /\ [Idle EXCEPT !.pc = "wake"].pc = "wake" /\ Idle.pc = "idle"
    BY DEF Idle
  <2>2. CASE Become(a, Idle)
    BY <1>1, <2>1, <2>2
  <2>3. CASE Become(a, [Idle EXCEPT !.pc = "wake"])
    BY <1>1, <2>1, <2>3
  <2>4. CASE Become(a, [Idle EXCEPT !.pc = "select", !.tries = agent[a].tries + 1])
    BY <1>1, <2>1, <2>4
  <2>. QED BY <1>6, <2>2, <2>3, <2>4 DEF LeaveUnclaimed, Leave
<1>. QED BY <1>2, <1>3, <1>4, <1>5, <1>6

LEMMA NextHashed == TextInv /\ [Next]_vars => TextInv'
<1>. SUFFICES ASSUME TextInv, [Next]_vars PROVE Hashed'
  BY NextLease DEF TextInv
<1>1. ASSUME ~(\E a \in Agents : Translate(a)) PROVE Hashed'
  BY <1>1, OthersQuiet DEF Next, TextInv, LeaseInv, Typed, Hashed
<1>. QED BY <1>1, TranslateHashed

\* Agents that keep what they have translated keep their leases.
LEMMA LeasesStay ==
  ASSUME NEW ag, NEW next,
         \A a \in Agents : /\ ag[a].pc = "model" <=> next[a].pc = "model"
                           /\ ag[a].pc = "model" => /\ next[a].edition = ag[a].edition
                                                    /\ next[a].hash = ag[a].hash
  PROVE  LeasesOf(next) = LeasesOf(ag)
<1>1. ASSUME NEW e \in Editions PROVE LeasesOf(next)[e] = LeasesOf(ag)[e]
  BY <1>1 DEF LeasesOf
<1>. QED BY <1>1 DEF LeasesOf

\* An agent that is through with a row, or is gone, lets go of its lease.
LEMMA LeaseEnds ==
  ASSUME OneTranslator, NEW a \in Agents, NEW e \in Editions, Translating(a, e),
         NEW next, next[a].pc # "model", \A b \in Agents \ {a} : next[b] = agent[b]
  PROVE  /\ LeasesOf(agent)[e] = {[by |-> a, of |-> agent[a].hash]}
         /\ LeasesOf(next) = [LeasesOf(agent) EXCEPT ![e] = {}]
<1>1. \A b \in Agents : Translating(b, e) <=> b = a
  BY DEF OneTranslator
<1>2. LeasesOf(agent)[e] = {[by |-> a, of |-> agent[a].hash]}
  BY <1>1 DEF LeasesOf, Translating, At
<1>3. LeasesOf(next)[e] = {}
  BY <1>1 DEF LeasesOf, Translating, At
<1>4. ASSUME NEW f \in Editions \ {e} PROVE LeasesOf(next)[f] = LeasesOf(agent)[f]
  BY <1>4 DEF LeasesOf, Translating, At
<1>. QED BY <1>2, <1>3, <1>4 DEF LeasesOf

\* The agent's own steps outside the model leave leases and introductions alone.
LEMMA RowsTexts ==
  ASSUME NEW rows, NEW next, \A e \in Editions : next[e].intro = rows[e].intro
  PROVE  IntrosOf(next) = IntrosOf(rows)
BY DEF IntrosOf

LEMMA MoveTexts ==
  ASSUME LeaseInv, NEW a \in Agents, Moves(a), ~At(a, "model"),
         \A e \in Editions : row'[e].intro = row[e].intro
  PROVE  UNCHANGED <<LeasesOf(agent), IntrosOf(row)>>
<1>1. LeasesOf(agent') = LeasesOf(agent)
  BY LeasesStay DEF Moves, At
<1>2. IntrosOf(row') = IntrosOf(row)
  BY RowsTexts
<1>. QED BY <1>1, <1>2

\* A claim takes the lease, for the source read.
LEMMA ClaimTakes ==
  ASSUME LeaseInv, Hashed, NEW a \in Agents, Claim(a), Claimable(row[agent[a].edition], a)
  PROVE  Texts!Next
<1>. DEFINE e == agent[a].edition
            t == Now({a}, e)
            v == agent[a].hash
<1>0. /\ agent \in [Agents -> Agent] /\ row \in [Editions -> Row] /\ agent[a] \in Agent
      /\ e \in Editions /\ At(a, "claim")
  BY DEF LeaseInv, Typed, TypeOK, Claim, At, Named
<1>1. /\ row' = [row EXCEPT ![e] = Claimed(row[e], v, t)]
      /\ agent' = [agent EXCEPT ![a] = [agent[a] EXCEPT !.pc = "model", !.stamp = t, !.seen = "none"]]
  BY DEF Claim, Become
<1>. HIDE DEF t
<1>2. \A b \in Agents : ~Translating(b, e)
  BY <1>0 DEF LeaseInv, LeaseHeld, Claimable
<1>3. /\ agent'[a].pc = "model" /\ agent'[a].edition = e /\ agent'[a].hash = v
      /\ \A b \in Agents \ {a} : agent'[b] = agent[b]
  BY <1>0, <1>1 DEF Agent
<1>4. LeasesOf(agent)[e] = {}
  BY <1>2, <1>0 DEF LeasesOf, Translating, At
<1>5. LeasesOf(agent')[e] = {[by |-> a, of |-> v]}
  BY <1>2, <1>3, <1>0 DEF LeasesOf, Translating, At
<1>6. ASSUME NEW f \in Editions \ {e} PROVE LeasesOf(agent')[f] = LeasesOf(agent)[f]
  BY <1>3, <1>6, <1>0 DEF LeasesOf, At
<1>7. LeasesOf(agent') = [LeasesOf(agent) EXCEPT ![e] = {[by |-> a, of |-> v]}]
  BY <1>5, <1>6 DEF LeasesOf
<1>8. IntrosOf(row') = IntrosOf(row)
  BY <1>0, <1>1, RowsTexts DEF Claimed, Row
<1>. QED BY <1>0, <1>4, <1>7, <1>8 DEF Texts!Next, Texts!Take, Hashed, At

\* What ends a lease ends it with the introduction of its version, or with the old one.
LEMMA EndsText ==
  ASSUME TextInv, NEW a \in Agents, Answer(a) \/ NoAnswer(a)
  PROVE  Texts!Next
<1>. DEFINE e == agent[a].edition
            v == agent[a].hash
<1>0. /\ agent \in [Agents -> Agent] /\ row \in [Editions -> Row] /\ e \in Editions
      /\ OneTranslator /\ Translating(a, e)
  BY DEF TextInv, LeaseInv, Typed, TypeOK, Answer, NoAnswer, At, Named, Translating
<1>1. Moves(a)
  BY LeaveMoves DEF Answer, NoAnswer, TextInv, LeaseInv, Typed
<1>2. /\ LeasesOf(agent)[e] = {[by |-> a, of |-> v]}
      /\ LeasesOf(agent') = [LeasesOf(agent) EXCEPT ![e] = {}]
  BY <1>0, <1>1, LeaseEnds DEF Moves
<1>3. \A f \in Editions \ {e} : row'[f] = row[f]
  BY <1>0 DEF Answer, NoAnswer
<1>4. row'[e].intro \in {row[e].intro, v}
  <2>1. CASE Answer(a)
    <3>1. row'[e] = row[e] \/ \E p, t :
            row'[e] = [row[e] EXCEPT !.status = "done", !.intro = v, !.points = p, !.stamp = t]
      BY <1>0, <2>1 DEF Answer
    <3>2. ASSUME NEW p, NEW t,
                 row'[e] = [row[e] EXCEPT !.status = "done", !.intro = v, !.points = p, !.stamp = t]
          PROVE  row'[e].intro = v
      BY <1>0, <3>2 DEF Row
    <3>. QED BY <3>1, <3>2
  <2>2. CASE NoAnswer(a)
    <3>1. row'[e] = row[e] \/ \E t :
            row'[e] = [row[e] EXCEPT !.status = "error", !.stamp = t, !.due = FALSE]
      BY <1>0, <2>2 DEF NoAnswer
    <3>2. ASSUME NEW t, row'[e] = [row[e] EXCEPT !.status = "error", !.stamp = t, !.due = FALSE]
          PROVE  row'[e].intro = row[e].intro
      BY <1>0, <3>2 DEF Row
    <3>. QED BY <3>1, <3>2
  <2>. QED BY <2>1, <2>2
<1>5. CASE row'[e].intro = row[e].intro
  <2>1. IntrosOf(row') = IntrosOf(row)
    BY <1>3, <1>5, RowsTexts
  <2>. QED BY <1>0, <1>2, <2>1 DEF Texts!Next, Texts!Drop
<1>6. CASE row'[e].intro = v
  <2>1. IntrosOf(row') = [IntrosOf(row) EXCEPT ![e] = v]
    BY <1>0, <1>3, <1>6 DEF IntrosOf
  <2>2. \E lease \in LeasesOf(agent)[e] : lease.of = v
    BY <1>2
  <2>. QED BY <1>0, <1>2, <2>1, <2>2 DEF Texts!Next, Texts!Store
<1>. QED BY <1>4, <1>5, <1>6

LEMMA TranslateText ==
  ASSUME TextInv, NEW a \in Agents, Translate(a)
  PROVE  [Texts!Next]_<<LeasesOf(agent), IntrosOf(row)>>
<1>. DEFINE e == agent[a].edition
<1>0. agent[a] \in Agent /\ agent \in [Agents -> Agent] /\ LeaseInv
  BY DEF TextInv, LeaseInv, Typed, TypeOK
<1>1. CASE ReadSource(a) \/ ReadRow(a)
  <2>. DEFINE read == [agent[a] EXCEPT !.pc = "row", !.hash = source[e].version]
              seen == [agent[a] EXCEPT !.pc = "claim", !.seen = row[e].status,
                                       !.stamp = row[e].stamp,
                                       !.keep = Kept(row[e], agent[a].hash)]
  <2>1. read.pc # "model" /\ seen.pc # "model"
    BY <1>0 DEF Agent
  <2>2. Become(a, read) \/ Become(a, seen) \/ Leave(a) \/ LeaveUnclaimed(a)
    BY <1>1 DEF ReadSource, ReadRow
  <2>. HIDE DEF read, seen
  <2>3. Moves(a)
    BY <1>0, <2>1, <2>2, LeaveMoves, BecomeMoves DEF LeaseInv, Typed
  <2>. QED BY <1>0, <1>1, <2>3, MoveTexts DEF ReadSource, ReadRow, At
<1>2. CASE Claim(a) /\ Claimable(row[e], a)
  BY <1>2, ClaimTakes DEF TextInv
<1>3. CASE Claim(a) /\ ~Claimable(row[e], a)
  <2>1. LeaveUnclaimed(a) /\ row' = row /\ ~At(a, "model")
    BY <1>3 DEF Claim, At
  <2>. QED BY <1>0, <2>1, LeaveMoves, MoveTexts DEF LeaseInv, Typed
<1>. QED BY <1>1, <1>2, <1>3, EndsText DEF Translate

LEMMA EvictText ==
  ASSUME TextInv, NEW a \in Agents, Evict(a)
  PROVE  [Texts!Next]_<<LeasesOf(agent), IntrosOf(row)>>
<1>0. LeaseInv /\ TypeOK /\ Named /\ OneTranslator
  BY DEF TextInv, LeaseInv, Typed
<1>1. Moves(a) /\ row' = row
  BY <1>0, BecomeMoves DEF Evict, Idle
<1>2. CASE ~At(a, "model")
  BY <1>0, <1>1, <1>2, MoveTexts
<1>3. CASE At(a, "model")
  <2>. DEFINE e == agent[a].edition
  <2>1. e \in Editions /\ Translating(a, e)
    BY <1>0, <1>3 DEF Named, At, Translating
  <2>2. /\ LeasesOf(agent)[e] = {[by |-> a, of |-> agent[a].hash]}
        /\ LeasesOf(agent') = [LeasesOf(agent) EXCEPT ![e] = {}]
    <3>1. agent'[a].pc # "model" /\ \A b \in Agents \ {a} : agent'[b] = agent[b]
      BY <1>1 DEF Moves
    <3>. HIDE DEF e
    <3>. QED BY <1>0, <2>1, <3>1, LeaseEnds
  <2>3. IntrosOf(row') = IntrosOf(row)
    BY <1>1
  <2>. QED BY <2>1, <2>2, <2>3 DEF Texts!Next, Texts!Drop
<1>. QED BY <1>2, <1>3

\* The others neither call the model nor touch an introduction.
LEMMA OthersTexts ==
  ASSUME TextInv,
         \/ \E w \in Workers : Drain(w)
         \/ \E e \in Editions :
              \/ Age(e) \/ ComeDue(e) \/ SendBack(e) \/ Resummarised(e) \/ Enqueue(e)
              \/ \E r \in Readers : Ask(r, e)
         \/ CronWake \/ UNCHANGED vars
  PROVE  UNCHANGED <<LeasesOf(agent), IntrosOf(row)>>
<1>0. TypeOK
  BY DEF TextInv, LeaseInv, Typed
<1>1. \A a \in Agents : agent'[a].pc \in {"row", "claim", "model"} => agent'[a] = agent[a]
  BY <1>0, OthersQuiet
<1>2. \A a \in Agents : At(a, "model") => agent'[a] = agent[a]
  <2>1. ASSUME NEW w \in Workers, Drain(w) PROVE \A a \in Agents : At(a, "model") => agent'[a] = agent[a]
    BY <1>0, <2>1 DEF Drain, Deliver, Expire, Select, Wake, Goto, Become, At, TypeOK
  <2>2. ASSUME NEW r \in Readers, NEW e \in Editions, Ask(r, e)
        PROVE  \A a \in Agents : At(a, "model") => agent'[a] = agent[a]
    BY <1>0, <2>2 DEF Ask, Become, At, TypeOK
  <2>. QED BY <2>1, <2>2 DEF Age, ComeDue, SendBack, Resummarised, Enqueue, CronWake, vars
<1>3. LeasesOf(agent') = LeasesOf(agent)
  BY <1>1, <1>2, LeasesStay DEF At
<1>4. \A e \in Editions : row'[e].intro = row[e].intro
  <2>0. row \in [Editions -> Row]
    BY <1>0 DEF TypeOK
  <2>1. ASSUME NEW w \in Workers, Drain(w) PROVE \A e \in Editions : row'[e].intro = row[e].intro
    <3>1. \A e \in Editions : [row[e] EXCEPT !.status = "error"].intro = row[e].intro
      BY <2>0 DEF Row
    <3>. QED BY <2>0, <2>1, <3>1 DEF Drain, Deliver, Expire, Select, Wake
  <2>2. ASSUME NEW f \in Editions, Age(f) \/ ComeDue(f) \/ Enqueue(f)
        PROVE  \A e \in Editions : row'[e].intro = row[e].intro
    <3>1. /\ [row[f] EXCEPT !.aged = TRUE].intro = row[f].intro
          /\ [row[f] EXCEPT !.due = TRUE].intro = row[f].intro
          /\ \A t : [row[f] EXCEPT !.status = "queued", !.attempts = 0, !.due = TRUE,
                                   !.stamp = t, !.aged = FALSE].intro = row[f].intro
      BY <2>0 DEF Row
    <3>2. \/ row' = [row EXCEPT ![f] = [row[f] EXCEPT !.aged = TRUE]]
          \/ row' = [row EXCEPT ![f] = [row[f] EXCEPT !.due = TRUE]]
          \/ row' = row
          \/ \E t : row' = [row EXCEPT ![f] = [row[f] EXCEPT !.status = "queued", !.attempts = 0,
                                                  !.due = TRUE, !.stamp = t, !.aged = FALSE]]
      <4>1. CASE Age(f)
        <5>1. row' = [row EXCEPT ![f] = [row[f] EXCEPT !.aged = TRUE]]
          BY <2>0, <4>1 DEF Age
        <5>. QED BY <5>1
      <4>2. CASE ComeDue(f)
        <5>1. row' = [row EXCEPT ![f] = [row[f] EXCEPT !.due = TRUE]]
          BY <2>0, <4>2 DEF ComeDue
        <5>. QED BY <5>1
      <4>3. CASE Enqueue(f) /\ Missing(row[f])
        <5>1. row' = [row EXCEPT ![f] = [row[f] EXCEPT !.status = "queued", !.attempts = 0,
                                  !.due = TRUE, !.stamp = Now({}, f), !.aged = FALSE]]
          BY <2>0, <4>3 DEF Enqueue
        <5>. QED BY <5>1
      <4>4. CASE Enqueue(f) /\ ~Missing(row[f])
        BY <2>0, <4>4 DEF Enqueue
      <4>. QED BY <2>2, <4>1, <4>2, <4>3, <4>4
    <3>. QED BY <2>0, <3>1, <3>2
  <2>. QED BY <2>1, <2>2 DEF SendBack, Resummarised, Ask, CronWake, vars
<1>. QED BY <1>3, <1>4, RowsTexts

\* The translator implements LeasedText: however workers and readers collide, an
\* introduction is stored by the agent that claimed its row, from the version it had read
\* before, and no row is claimed while an agent has it translated
\* (translateBulletinEdition).
THEOREM BulletinImplementsLeasedText == Spec => ImplementsLeasedText
<1>1. Init => TextInv /\ Texts!Init
  <2>. SUFFICES ASSUME Init PROVE TextInv /\ Texts!Init
    OBVIOUS
  <2>1. TextInv
    BY InitLease DEF TextInv, Hashed, Init, Idle
  <2>2. LeasesOf(agent) = [e \in Editions |-> {}]
    BY DEF Init, Idle, LeasesOf
  <2>3. ASSUME NEW e \in Editions PROVE row[e].intro = 0
    <3>1. NoRow.intro = 0 /\ \A t : PointsOnlyRow(t).intro = 0
      BY DEF NoRow, PointsOnlyRow
    <3>. QED BY <3>1 DEF Init
  <2>4. IntrosOf(row) = [e \in Editions |-> 0]
    BY <2>3 DEF IntrosOf
  <2>. QED BY <2>1, <2>2, <2>4 DEF Texts!Init
<1>2. TextInv /\ [Next]_vars => [Texts!Next]_<<LeasesOf(agent), IntrosOf(row)>>
  BY TranslateText, EvictText, OthersTexts DEF Next
<1>. QED BY <1>1, <1>2, NextHashed, PTL DEF Spec, ImplementsLeasedText, Texts!Spec
=============================================================================
