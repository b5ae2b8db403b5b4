----------------------------- MODULE TableProofs -----------------------------
(***************************************************************************)
(* Theorems about tables that MCLibrary composes: the merging of a user's    *)
(* follows (FollowMerge), the rows of reading summaries (ReadingSummary:     *)
(* that a reader is shown what was made from the version asked for, that the *)
(* model is asked once, and that the rows implement LeasedText), the merging *)
(* of articles (RssMerge: what the reader saved is where the ids lead) and   *)
(* the build of the graph by builders that may overlap (GraphBuild: its      *)
(* tables are whole when the cache says so), for any number                  *)
(* of rows, entries, requests, polls, callers, versions, articles, sources,  *)
(* chunks, builds and evictions.                                             *)
(***************************************************************************)
EXTENDS FollowMerge, ReadingSummary, RssMerge, GraphBuild, FiniteSetTheorems,
        WellFoundedInduction, TLAPS

-----------------------------------------------------------------------------
(* The merging of follows *)

\* The lowest of some rows.
Below == {ss \in Nat \X Nat : ss[1] < ss[2]}

LEMMA MinOf ==
  ASSUME NEW S \in SUBSET Nat, S # {}
  PROVE  Min(S) \in S /\ \A x \in S : Min(S) <= x
<1>1. IsWellFoundedOn(Below, Nat)
  BY NatLessThanWellFounded DEF OpToRel, Below
<1>2. PICK x \in S : \A y \in S : <<y, x>> \notin Below
  BY <1>1, WFMin
<1>3. \A y \in S : x <= y
  <2>1. SUFFICES ASSUME NEW y \in S PROVE x <= y
    OBVIOUS
  <2>2. x \in Nat /\ y \in Nat /\ ~(y < x)
    BY <1>2 DEF Below
  <2>. QED BY <2>2
<1>. QED BY <1>3 DEF Min

\* What the steps rely on of the values they read: rows and requests have the
\* fields that matter here.
FollowShaped ==
  /\ row = [i \in Rows |-> row[i]]
  /\ \A i \in Rows : "state" \in DOMAIN row[i] /\ row[i].state \in {"unborn", "live", "gone"}
  /\ asker = [a \in Askers |-> asker[a]]
  /\ \A a \in Askers : {"pc", "read"} \subseteq DOMAIN asker[a] /\ asker[a].read \subseteq Rows
  /\ shelf \in [Guids -> Place]

\* A request has read rows that there were; a deleted follow stays gone.
ReadBorn == \A a \in Askers : \A i \in asker[a].read : row[i].state # "unborn"
DroppedGone == dropped \subseteq Rows /\ \A i \in dropped : row[i].state = "gone"

FollowInv == FollowShaped /\ ReadBorn /\ DroppedGone /\ FollowKept

-----------------------------------------------------------------------------
(* Steps that change no row but in what it says of polls *)

\* The states of rows are what they were, and requests read what there is.
Steady ==
  /\ row' = [i \in Rows |-> row'[i]]
  /\ \A i \in Rows : "state" \in DOMAIN row'[i] /\ row'[i].state = row[i].state
  /\ dropped' = dropped
Requests ==
  /\ asker' = [a \in Askers |-> asker'[a]]
  /\ \A a \in Askers : /\ {"pc", "read"} \subseteq DOMAIN asker'[a]
                       /\ \A i \in asker'[a].read \ asker[a].read : i \in Rows /\ Present(i)

LEMMA SteadyKeeps ==
  ASSUME FollowInv, Steady, Requests, shelf' \in [Guids -> Place]
  PROVE  FollowInv'
<1>1. FollowShaped'
  BY DEF FollowInv, FollowShaped, Steady, Requests
<1>2. ReadBorn'
  BY DEF FollowInv, FollowShaped, Steady, Requests, ReadBorn, Present
<1>3. DroppedGone' /\ FollowKept'
  BY DEF FollowInv, Steady, DroppedGone, FollowKept, Present
<1>. QED BY <1>1, <1>2, <1>3 DEF FollowInv

\* A poll.
LEMMA PollStep ==
  ASSUME FollowInv, NEW i \in Rows,
         \/ StartPoll(i) \/ LinkEntry(i) \/ SaveEntry(i) \/ RecordPoll(i) \/ EvictPoll(i)
  PROVE  /\ Steady /\ Requests /\ shelf' \in [Guids -> Place]
         /\ \A e \in Guids : shelf[e] \in Rows => shelf'[e] \in Rows
<1>0. row = [j \in Rows |-> row[j]] /\ asker = [a \in Askers |-> asker[a]]
      /\ (\A j \in Rows : "state" \in DOMAIN row[j])
      /\ (\A a \in Askers : {"pc", "read"} \subseteq DOMAIN asker[a])
      /\ shelf \in [Guids -> Place]
  BY DEF FollowInv, FollowShaped
<1>1. asker' = asker /\ dropped' = dropped
  BY DEF StartPoll, LinkEntry, SaveEntry, RecordPoll, EvictPoll
<1>2. Requests
  BY <1>0, <1>1 DEF Requests
<1>3. row' = row => Steady
  BY <1>0, <1>1 DEF Steady
<1>4. CASE StartPoll(i) \/ LinkEntry(i) \/ EvictPoll(i)
  BY <1>0, <1>2, <1>3, <1>4 DEF StartPoll, LinkEntry, EvictPoll
<1>5. CASE SaveEntry(i)
  <2>1. shelf' = shelf \/ shelf' = [shelf EXCEPT ![Entry(i)] = i]
    BY <1>5 DEF SaveEntry
  <2>. HIDE DEF Entry
  <2>2. shelf' \in [Guids -> Place] /\ \A e \in Guids : shelf[e] \in Rows => shelf'[e] \in Rows
    BY <1>0, <2>1 DEF Place
  <2>. QED BY <1>2, <1>3, <1>5, <2>2 DEF SaveEntry
<1>6. CASE RecordPoll(i)
  <2>1. Steady
    <3>1. ASSUME NEW c, NEW t, row' = [row EXCEPT ![i].cursor = c, ![i].checked = t]
          PROVE  Steady
      BY <1>0, <1>1, <3>1 DEF Steady
    <3>. QED BY <1>3, <1>6, <3>1 DEF RecordPoll
  <2>. QED BY <1>0, <1>2, <1>6, <2>1 DEF RecordPoll
<1>. QED BY <1>4, <1>5, <1>6

\* What a request reads, and the change of a window.
LEMMA HavingRead ==
  ASSUME FollowInv, NEW a \in Askers, NEW found \in SUBSET Rows
  PROVE  {"pc", "read"} \subseteq DOMAIN Having(a, found) /\ Having(a, found).read = asker[a].read \cup found
BY DEF FollowInv, FollowShaped, Having

LEMMA ReadingStep ==
  ASSUME FollowInv, NEW a \in Askers,
         StartFollow(a) \/ ReadAliases(a) \/ StartMigrate(a) \/ ReadExisting(a)
  PROVE  Steady /\ Requests /\ shelf' = shelf
<1>0. row = [i \in Rows |-> row[i]] /\ asker = [b \in Askers |-> asker[b]]
      /\ (\A i \in Rows : "state" \in DOMAIN row[i])
      /\ (\A b \in Askers : {"pc", "read"} \subseteq DOMAIN asker[b])
  BY DEF FollowInv, FollowShaped
<1>1. \A i \in Linked \cup Unmigrated : i \in Rows /\ Present(i)
  BY DEF Linked, Unmigrated, RowsThat
<1>l. Linked \subseteq Linked \cup Unmigrated /\ Unmigrated \subseteq Linked \cup Unmigrated
  OBVIOUS
<1>2. ASSUME NEW found \in SUBSET (Linked \cup Unmigrated), NEW v,
             asker' = [asker EXCEPT ![a] = v],
             {"pc", "read"} \subseteq DOMAIN v, v.read = asker[a].read \cup found
      PROVE  Requests
  BY <1>0, <1>1, <1>2 DEF Requests
<1>3. row' = row /\ dropped' = dropped /\ shelf' = shelf
  BY DEF StartFollow, ReadAliases, StartMigrate, ReadExisting
<1>4. Steady
  BY <1>0, <1>3 DEF Steady
<1>5. ASSUME NEW found \in SUBSET (Linked \cup Unmigrated), NEW pc, NEW since
      PROVE  LET v == [Having(a, found) EXCEPT !.pc = pc]
                 w == [Having(a, found) EXCEPT !.pc = pc, !.follows = TRUE, !.since = since]
             IN  /\ {"pc", "read"} \subseteq DOMAIN v /\ v.read = asker[a].read \cup found
                 /\ {"pc", "read"} \subseteq DOMAIN w /\ w.read = asker[a].read \cup found
  <2>1. {"pc", "read"} \subseteq DOMAIN Having(a, found) /\ Having(a, found).read = asker[a].read \cup found
    BY <1>1, HavingRead
  <2>. QED BY <2>1
<1>6. CASE StartFollow(a)
  <2>1. PICK since \in Windows \cup {Keep} :
          asker' = [asker EXCEPT ![a] =
            [Having(a, Linked) EXCEPT !.pc = "aliases", !.follows = TRUE, !.since = since]]
    BY <1>6 DEF StartFollow
  <2>. HIDE DEF Linked, Unmigrated
  <2>. QED BY <1>2, <1>3, <1>4, <1>5, <2>1
<1>7. CASE ReadAliases(a)
  <2>1. PICK resolved \in SUBSET Unmigrated :
          asker' = [asker EXCEPT ![a] = [Having(a, resolved) EXCEPT !.pc = "write"]]
    BY <1>7 DEF ReadAliases
  <2>2. resolved \in SUBSET (Linked \cup Unmigrated)
    OBVIOUS
  <2>. QED BY <1>2, <1>3, <1>4, <1>5, <2>1, <2>2
<1>8. CASE StartMigrate(a)
  <2>1. PICK resolved \in SUBSET Unmigrated :
          asker' = [asker EXCEPT ![a] = [Having(a, resolved) EXCEPT !.pc = "existing"]]
    BY <1>8 DEF StartMigrate
  <2>2. resolved \in SUBSET (Linked \cup Unmigrated)
    OBVIOUS
  <2>. QED BY <1>2, <1>3, <1>4, <1>5, <2>1, <2>2
<1>9. CASE ReadExisting(a)
  BY <1>2, <1>3, <1>4, <1>5, <1>9 DEF ReadExisting
<1>. QED BY <1>6, <1>7, <1>8, <1>9

-----------------------------------------------------------------------------
(* Merging *)

\* A request is over: what it has read is of no matter any more.
LEMMA Over ==
  ASSUME FollowInv, NEW a \in Askers, Finished(a)
  PROVE  Requests
<1>1. {"pc", "read"} \subseteq DOMAIN IdleAsker /\ IdleAsker.read = {}
  BY DEF IdleAsker
<1>. QED BY <1>1 DEF Finished, FollowInv, FollowShaped, Requests

\* Where a merge leaves the rows: the duplicates are gone.
LEMMA MergedStates ==
  ASSUME FollowInv, NEW read \in SUBSET Rows, NEW as, NEW since, NEW i \in Rows
  PROVE  LET r == MergedRows(read, as, since)[i]
         IN  /\ "state" \in DOMAIN r
             /\ r.state = IF i \in Duplicates(read) /\ Present(i) THEN "gone" ELSE row[i].state
<1>0. "state" \in DOMAIN row[i]
  BY DEF FollowInv, FollowShaped
<1>1. CASE i \in Duplicates(read) /\ Present(i)
  <2>1. MergedRows(read, as, since)[i] = [row[i] EXCEPT !.state = "gone"]
    <3>1. i # Survivor(read)
      BY <1>1 DEF Duplicates
    <3>. QED BY <1>1, <3>1 DEF MergedRows
  <2>. QED BY <1>0, <1>1, <2>1
<1>2. CASE i = Survivor(read) /\ Present(i)
  <2>1. i \notin Duplicates(read)
    BY <1>2 DEF Duplicates
  <2>2. \E x, y, z : MergedRows(read, as, since)[i]
                       = [row[i] EXCEPT !.linked = TRUE, !.since = x, !.checked = y, !.cursor = z]
    BY <1>2, <2>1 DEF MergedRows
  <2>. QED BY <1>0, <2>1, <2>2
<1>3. CASE ~(i \in Duplicates(read) /\ Present(i)) /\ ~(i = Survivor(read) /\ Present(i))
  BY <1>0, <1>3 DEF MergedRows
<1>. QED BY <1>1, <1>2, <1>3

LEMMA MergeStep ==
  ASSUME FollowInv, NEW a \in Askers, Merge(a)
  PROVE  /\ FollowInv'
         /\ \A e \in Guids : shelf[e] \in Rows => shelf'[e] \in Rows
<1>. DEFINE read == asker[a].read
            s == Survivor(read)
<1>0. /\ FollowShaped /\ ReadBorn /\ DroppedGone /\ FollowKept
      /\ read \in SUBSET Rows /\ read \in SUBSET Nat /\ read # {}
      /\ dropped' = dropped
  BY FollowMergeAssumption DEF FollowInv, FollowShaped, Merge
<1>1. s \in read /\ s \in Rows /\ \A i \in read : s <= i
  BY <1>0, MinOf DEF Survivor
<1>2. Requests
  BY Over DEF Merge
<1>3. CASE Refused(read)
  <2>1. row' = row /\ shelf' = shelf
    BY <1>3 DEF Merge
  <2>2. Steady
    BY <1>0, <2>1 DEF FollowShaped, Steady
  <2>. QED BY <1>0, <1>2, <2>1, <2>2, SteadyKeeps DEF FollowShaped
<1>4. CASE ~Refused(read)
  <2>1. \A i \in Rows : /\ "state" \in DOMAIN row'[i]
                        /\ row'[i].state = IF i \in Duplicates(read) /\ Present(i) THEN "gone"
                                           ELSE row[i].state
    <3>1. row' = MergedRows(read, asker[a].as, asker[a].since)
      BY <1>4 DEF Merge
    <3>. QED BY <1>0, <3>1, MergedStates
  <2>2. row' = [i \in Rows |-> row'[i]]
    BY <1>4 DEF Merge, MergedRows
  <2>3. /\ shelf' \in [Guids -> Place]
        /\ \A e \in Guids : shelf[e] \in Rows => shelf'[e] \in Rows
    <3>1. shelf' = Moved(read)
      BY <1>4 DEF Merge
    <3>. QED BY <1>0, <1>1, <3>1 DEF Moved, FollowShaped, Place
  <2>4. FollowShaped' /\ ReadBorn' /\ DroppedGone'
    BY <1>0, <1>2, <2>1, <2>2, <2>3
       DEF FollowShaped, ReadBorn, DroppedGone, Requests, Present
  <2>5. FollowKept'
    <3> SUFFICES ASSUME NEW i \in Rows, row'[i].state = "gone", i \notin dropped
                 PROVE  \E j \in Rows : j < i /\ (row'[j].state = "live" \/ j \in dropped)
      BY <1>0 DEF FollowKept, Present
    <3>0. Rows \subseteq Nat
      BY FollowMergeAssumption
    \* The survivor, or the one that has taken its place, stands for what the merge deletes.
    <3>1. ASSUME NEW k \in Rows, k \in Duplicates(read)
          PROVE  \E j \in Rows : j < k /\ (row'[j].state = "live" \/ j \in dropped)
      <4>1. s < k
        <5>1. s <= k /\ s # k /\ s \in Nat /\ k \in Nat
          BY <1>0, <1>1, <3>0, <3>1 DEF Duplicates
        <5>. HIDE DEF s
        <5>. QED BY <5>1
      <4>2. s \notin Duplicates(read) /\ row[s].state # "unborn"
        BY <1>0, <1>1 DEF Duplicates, ReadBorn
      <4>3. row'[s].state = row[s].state
        BY <1>1, <2>1, <4>2
      <4>4. CASE row[s].state = "live" \/ s \in dropped
        BY <1>1, <4>1, <4>3, <4>4
      <4>5. CASE row[s].state = "gone" /\ s \notin dropped
        <5>1. PICK j \in Rows : j < s /\ (Present(j) \/ j \in dropped)
          BY <1>0, <1>1, <4>5 DEF FollowKept
        <5>. HIDE DEF s
        <5>2. j \notin read
          <6>1. j \in Nat /\ s \in Nat /\ j < s
            BY <1>1, <3>0, <5>1
          <6>. QED BY <1>1, <6>1
        <5>3. row'[j].state = row[j].state
          BY <2>1, <5>2 DEF Duplicates
        <5>4. j < k
          <6>1. j \in Nat /\ s \in Nat /\ k \in Nat
            BY <1>1, <3>0
          <6>. QED BY <4>1, <5>1, <6>1
        <5>. QED BY <5>1, <5>3, <5>4 DEF Present
      <4>. QED BY <1>0, <1>1, <4>2, <4>4, <4>5 DEF FollowShaped
    <3>2. CASE i \in Duplicates(read)
      BY <3>1, <3>2
    <3>3. CASE i \notin Duplicates(read)
      <4>1. row[i].state = "gone"
        BY <2>1, <3>3
      <4>2. PICK j \in Rows : j < i /\ (Present(j) \/ j \in dropped)
        BY <1>0, <4>1 DEF FollowKept
      <4>3. CASE j \in Duplicates(read)
        <5>1. PICK k \in Rows : k < j /\ (row'[k].state = "live" \/ k \in dropped)
          BY <3>1, <4>3
        <5>2. k < i
          BY <3>0, <4>2, <5>1
        <5>. QED BY <5>1, <5>2
      <4>4. CASE j \notin Duplicates(read)
        BY <2>1, <4>2, <4>4 DEF Present
      <4>. QED BY <4>3, <4>4
    <3>. QED BY <3>2, <3>3
  <2>. QED BY <2>3, <2>4, <2>5 DEF FollowInv
<1>. QED BY <1>3, <1>4

-----------------------------------------------------------------------------
(* New follows and deletions *)

LEMMA InsertStep ==
  ASSUME FollowInv, NEW a \in Askers, Insert(a)
  PROVE  FollowInv' /\ shelf' = shelf
<1>. DEFINE unborn == {i \in Rows : \A j \in Rows : j >= i => row[j].state = "unborn"}
<1>0. /\ FollowShaped /\ ReadBorn /\ DroppedGone /\ FollowKept
      /\ shelf' = shelf /\ dropped' = dropped
  BY DEF FollowInv, Insert
<1>1. Requests
  BY Over DEF Insert
<1>2. CASE row' = row
  <2>1. Steady
    BY <1>0, <1>2 DEF FollowShaped, Steady
  <2>. QED BY <1>0, <1>1, <2>1, SteadyKeeps DEF FollowShaped
<1>3. CASE row' # row
  <2>1. unborn # {}
    BY <1>3 DEF Insert
  <2>2. PICK n \in unborn : n = Min(unborn)
    BY <2>1, MinOf, FollowMergeAssumption
  <2>3. n \in Rows /\ row[n].state = "unborn"
    <3>1. n \in Rows /\ \A j \in Rows : j >= n => row[j].state = "unborn"
      OBVIOUS
    <3>2. n \in Nat
      BY <3>1, FollowMergeAssumption
    <3>. HIDE DEF unborn
    <3>3. n >= n
      BY <3>2
    <3>. QED BY <3>1, <3>3
  <2>4. /\ row' = [i \in Rows |-> row'[i]]
        /\ \A i \in Rows : "state" \in DOMAIN row'[i]
        /\ row'[n].state = "live"
        /\ \A i \in Rows \ {n} : row'[i] = row[i]
    <3>1. PICK f, s : row' = [row EXCEPT ![n] =
            [state |-> "live", feed |-> f, linked |-> TRUE, since |-> s, checked |-> 0, cursor |-> 0]]
      BY <1>3, <2>2 DEF Insert
    <3>2. \A v : row' = [row EXCEPT ![n] = v] =>
            /\ row' = [i \in Rows |-> row'[i]] /\ row'[n] = v
            /\ \A i \in Rows \ {n} : row'[i] = row[i]
      BY <1>0, <2>3 DEF FollowShaped
    <3>. QED BY <1>0, <3>1, <3>2 DEF FollowShaped
  <2>5. FollowShaped' /\ ReadBorn' /\ DroppedGone'
    <3>1. \A i \in Rows : row'[i].state \in {"unborn", "live", "gone"} /\
                          (row[i].state # "unborn" => row'[i].state = row[i].state)
      BY <1>0, <2>3, <2>4 DEF FollowShaped
    <3>2. FollowShaped'
      BY <1>0, <1>1, <2>4, <3>1 DEF FollowShaped, Requests
    <3>3. ReadBorn'
      BY <1>0, <1>1, <3>1 DEF FollowShaped, ReadBorn, Requests, Present
    <3>4. DroppedGone'
      BY <1>0, <3>1 DEF DroppedGone
    <3>. QED BY <3>2, <3>3, <3>4
  <2>6. FollowKept'
    BY <1>0, <2>3, <2>4 DEF FollowKept, Present
  <2>. QED BY <1>0, <2>5, <2>6 DEF FollowInv
<1>. QED BY <1>2, <1>3

LEMMA UnfollowStep ==
  ASSUME FollowInv, NEW i \in Rows, Unfollow(i)
  PROVE  /\ FollowInv'
         /\ \A e \in Guids : shelf[e] \in Rows /\ shelf'[e] \notin Rows =>
              shelf[e] \in dropped' \ dropped
<1>0. /\ FollowShaped /\ ReadBorn /\ DroppedGone /\ FollowKept
      /\ asker' = asker /\ dropped' = dropped \cup {i} /\ Present(i)
  BY DEF FollowInv, Unfollow
<1>1. /\ row' = [j \in Rows |-> row'[j]]
      /\ "state" \in DOMAIN row'[i] /\ row'[i].state = "gone"
      /\ \A j \in Rows \ {i} : row'[j] = row[j]
  BY <1>0 DEF FollowShaped, Unfollow
<1>2. \A e \in Guids : shelf'[e] = IF shelf[e] = i THEN Loose ELSE shelf[e]
  BY DEF Unfollow, Loosened
<1>3. shelf' \in [Guids -> Place]
  BY <1>0, <1>2 DEF FollowShaped, Unfollow, Loosened, Place
<1>4. FollowShaped' /\ ReadBorn' /\ DroppedGone'
  BY <1>0, <1>1, <1>3 DEF FollowShaped, ReadBorn, DroppedGone, Present
<1>5. FollowKept'
  BY <1>0, <1>1 DEF FollowKept, Present
<1>6. i \notin dropped
  BY <1>0 DEF DroppedGone, Present
<1>. QED BY <1>0, <1>2, <1>4, <1>5, <1>6 DEF FollowInv

LEMMA WindowStep ==
  ASSUME FollowInv, NEW i \in Rows, ChangeWindow(i)
  PROVE  Steady /\ Requests /\ shelf' = shelf
<1>1. ASSUME NEW since, row' = [row EXCEPT ![i].since = since], dropped' = dropped
      PROVE  Steady
  BY <1>1 DEF FollowInv, FollowShaped, Steady
<1>. QED BY <1>1 DEF ChangeWindow, FollowInv, FollowShaped, Requests

-----------------------------------------------------------------------------
(* No follow is lost *)

LEMMA FollowStep ==
  ASSUME FollowInv, [FollowMergeNext]_followVars
  PROVE  /\ FollowInv'
         /\ \A e \in Guids : shelf[e] \in Rows /\ shelf'[e] \notin Rows =>
              shelf[e] \in dropped' \ dropped
<1>0. shelf \in [Guids -> Place]
  BY DEF FollowInv, FollowShaped
<1>1. ASSUME NEW i \in Rows,
             \/ StartPoll(i) \/ LinkEntry(i) \/ SaveEntry(i) \/ RecordPoll(i) \/ EvictPoll(i)
      PROVE  FollowInv' /\ \A e \in Guids : shelf[e] \in Rows => shelf'[e] \in Rows
  BY <1>1, PollStep, SteadyKeeps
<1>2. ASSUME NEW i \in Rows, ChangeWindow(i)
      PROVE  FollowInv' /\ shelf' = shelf
  BY <1>0, <1>2, WindowStep, SteadyKeeps
<1>3. ASSUME NEW a \in Askers,
             StartFollow(a) \/ ReadAliases(a) \/ StartMigrate(a) \/ ReadExisting(a)
      PROVE  FollowInv' /\ shelf' = shelf
  BY <1>0, <1>3, ReadingStep, SteadyKeeps
<1>4. CASE UNCHANGED followVars
  <2>1. Steady /\ Requests /\ shelf' = shelf
    BY <1>4 DEF followVars, Steady, Requests, FollowInv, FollowShaped
  <2>. QED BY <1>0, <2>1, SteadyKeeps
<1>. QED BY <1>1, <1>2, <1>3, <1>4, MergeStep, InsertStep, UnfollowStep DEF FollowMergeNext

LEMMA InitFollow == FollowMergeInit => FollowInv
<1> SUFFICES ASSUME FollowMergeInit PROVE FollowInv
  OBVIOUS
<1>1. /\ row \in [Rows -> [state: {"unborn", "live"}, feed: FeedAddress, linked: {FALSE},
                           since: Windows, checked: {0}, cursor: {0}]]
      /\ asker = [a \in Askers |-> IdleAsker] /\ dropped = {}
      /\ shelf = [e \in Guids |-> Absent]
  BY DEF FollowMergeInit
<1>2. {"pc", "read"} \subseteq DOMAIN IdleAsker /\ IdleAsker.read = {}
  BY DEF IdleAsker
<1>. QED BY <1>1, <1>2
         DEF FollowInv, FollowShaped, ReadBorn, DroppedGone, FollowKept, Place

\* A follow that the user has not deleted is gone only because an older one has taken
\* its place, and that one is there unless the user has deleted it, whichever rows
\* the requests that merge had read and however long ago.
THEOREM FollowAlwaysKept == FollowMergeSpec => []FollowKept
<1>1. FollowInv => FollowKept
  BY DEF FollowInv
<1>2. FollowInv /\ [FollowMergeNext]_followVars => FollowInv'
  BY FollowStep
<1>. QED BY <1>1, <1>2, InitFollow, PTL DEF FollowMergeSpec

\* A library row loses its follow only when the user deletes that follow.
THEOREM ShelfAlwaysKept == FollowMergeSpec => ShelfKept
<1>1. FollowInv /\ [FollowMergeNext]_followVars => FollowInv'
  BY FollowStep
<1>2. FollowInv /\ [FollowMergeNext]_followVars =>
        [\A e \in Guids : shelf[e] \in Rows /\ shelf'[e] \notin Rows =>
           shelf[e] \in dropped' \ dropped]_followVars
  BY FollowStep
<1>. QED BY <1>1, <1>2, InitFollow, PTL DEF FollowMergeSpec, ShelfKept
-----------------------------------------------------------------------------
(* Reading summaries are well typed *)

LEMMA ReadingInitTyped == ReadingInit => ReadingTypeOK
<1>. SUFFICES ASSUME ReadingInit PROVE ReadingTypeOK
  OBVIOUS
<1>1. source \in Versions /\ 0 \in Versions /\ 1 \in Versions
  BY ReadingAssumption DEF ReadingInit, Versions
<1>2. brief \in Brief
  BY <1>1 DEF ReadingInit, Brief, Times
<1>3. caller \in [Callers -> Caller]
  BY <1>1 DEF ReadingInit, Caller, Idle, Times
<1>4. clock \in Times /\ calls \in Nat /\ briefFaults \in 0 .. MaxBriefFaults
  BY ReadingAssumption DEF ReadingInit, Times
<1>5. aged \in BOOLEAN
  BY DEF ReadingInit
<1>. QED BY <1>1, <1>2, <1>3, <1>4, <1>5 DEF ReadingTypeOK

\* A caller writes its row if its lease holds, and leaves.
LEMMA WrittenTyped ==
  ASSUME ReadingTypeOK, NEW c \in Callers,
         NEW status \in {"done", "error"}, NEW v \in Versions,
         Written(c, [brief EXCEPT !.status = status, !.content = v])
         \/ Written(c, [brief EXCEPT !.status = status])
  PROVE  brief' \in Brief /\ clock' \in Times /\ aged' \in BOOLEAN
<1>1. clock + 1 \in Times
  BY DEF ReadingTypeOK, Times
<1>. QED BY <1>1 DEF ReadingTypeOK, Written, Brief

LEMMA ReadingStepTyped == ReadingTypeOK /\ [ReadingNext]_readingVars => ReadingTypeOK'
<1>. SUFFICES ASSUME ReadingTypeOK, [ReadingNext]_readingVars PROVE ReadingTypeOK'
  OBVIOUS
<1>0. Idle \in Caller
  BY ReadingAssumption DEF Idle, Caller, Times, Versions
<1>1. ASSUME NEW c \in Callers, ReadSource(c) PROVE ReadingTypeOK'
  <2>1. [Idle EXCEPT !.pc = "look", !.of = source] \in Caller
    BY <1>0 DEF ReadingTypeOK, Caller, Idle
  <2>. QED BY <1>1, <2>1 DEF ReadSource, Set, ReadingTypeOK
<1>2. ASSUME NEW c \in Callers, LookUp(c) PROVE ReadingTypeOK'
  <2>1. caller[c] \in Caller /\ brief.at \in Times
    BY DEF ReadingTypeOK, Brief
  <2>2. \A bad \in BOOLEAN :
          [caller[c] EXCEPT !.pc = "claim", !.seen = brief.at, !.bad = bad] \in Caller
    BY <2>1 DEF Caller
  <2>3. (Cached(caller[c].of) = "error") \in BOOLEAN
    OBVIOUS
  <2>4. caller' \in [Callers -> Caller]
    BY <1>0, <1>2, <2>2, <2>3 DEF LookUp, Set, ReadingTypeOK
  <2>. QED BY <1>2, <2>4 DEF LookUp, ReadingTypeOK
<1>3. ASSUME NEW c \in Callers, ClaimBrief(c) PROVE ReadingTypeOK'
  <2>1. caller[c] \in Caller /\ clock + 1 \in Times /\ caller[c].of \in Versions
    BY DEF ReadingTypeOK, Times, Caller
  <2>2. [caller[c] EXCEPT !.pc = "call", !.lease = clock + 1] \in Caller
    BY <2>1 DEF Caller
  <2>3. [brief EXCEPT !.of = caller[c].of, !.status = "processing", !.at = clock + 1] \in Brief
    BY <2>1 DEF Brief, ReadingTypeOK
  <2>4. CASE ClaimableBrief(c)
    <3>1. brief' \in Brief /\ caller' \in [Callers -> Caller]
      BY <1>3, <2>2, <2>3, <2>4 DEF ClaimBrief, Set, ReadingTypeOK
    <3>2. clock' \in Times /\ calls' \in Nat
      BY <1>3, <2>1, <2>4 DEF ClaimBrief, ReadingTypeOK
    <3>3. aged' \in BOOLEAN
      BY <1>3, <2>4 DEF ClaimBrief
    <3>. QED BY <1>3, <3>1, <3>2, <3>3 DEF ClaimBrief, ReadingTypeOK
  <2>5. CASE ~ClaimableBrief(c)
    BY <1>0, <1>3, <2>5 DEF ClaimBrief, Set, ReadingTypeOK
  <2>. QED BY <2>4, <2>5
<1>4. ASSUME NEW c \in Callers, Answer(c) PROVE ReadingTypeOK'
  <2>1. caller[c].of \in Versions
    BY DEF ReadingTypeOK, Caller
  <2>2. brief' \in Brief /\ clock' \in Times /\ aged' \in BOOLEAN
    BY <1>4, <2>1, WrittenTyped DEF Answer
  <2>. QED BY <1>0, <1>4, <2>2 DEF Answer, Set, ReadingTypeOK
<1>5. ASSUME NEW c \in Callers, FailBrief(c) PROVE ReadingTypeOK'
  <2>1. brief' \in Brief /\ clock' \in Times /\ aged' \in BOOLEAN
    BY <1>5, WrittenTyped DEF FailBrief, ReadingTypeOK
  <2>. QED BY <1>0, <1>5, <2>1, ReadingAssumption DEF FailBrief, Set, ReadingTypeOK
<1>6. ASSUME NEW c \in Callers, EvictCaller(c) PROVE ReadingTypeOK'
  BY <1>0, <1>6, ReadingAssumption DEF EvictCaller, Set, ReadingTypeOK
<1>7. ASSUME AgeBrief PROVE ReadingTypeOK'
  BY <1>7 DEF AgeBrief, ReadingTypeOK
<1>8. ASSUME Revise PROVE ReadingTypeOK'
  BY <1>8, ReadingAssumption DEF Revise, ReadingTypeOK, Versions
<1>9. CASE UNCHANGED readingVars
  BY <1>9 DEF readingVars, ReadingTypeOK
<1>. QED BY <1>1, <1>2, <1>3, <1>4, <1>5, <1>6, <1>7, <1>8, <1>9 DEF ReadingNext

\* Every variable of the reading summary keeps its type.
THEOREM ReadingTypeCorrect == ReadingSpec => []ReadingTypeOK
<1>1. ReadingInit => ReadingTypeOK
  BY ReadingInitTyped
<1>2. ReadingTypeOK /\ [ReadingNext]_readingVars => ReadingTypeOK'
  BY ReadingStepTyped
<1>. QED BY <1>1, <1>2, PTL DEF ReadingSpec

-----------------------------------------------------------------------------
(* What readers are shown *)

\* The content of a finished row is of its version, or does not parse.
ContentOfRow == brief.status = "done" => brief.content \in {0, brief.of}

LEMMA ContentShown == ContentOfRow => BriefOfSource
BY DEF ContentOfRow, BriefOfSource, Cached

LEMMA ContentStep ==
  ReadingTypeOK /\ ContentOfRow /\ [ReadingNext]_readingVars => ContentOfRow'
<1>. SUFFICES ASSUME ReadingTypeOK, ContentOfRow, [ReadingNext]_readingVars
              PROVE  ContentOfRow'
  OBVIOUS
<1>1. ASSUME NEW c \in Callers, ClaimBrief(c) PROVE ContentOfRow'
  <2>1. brief' = brief \/ brief'.status = "processing"
    BY <1>1 DEF ClaimBrief, ReadingTypeOK, Brief
  <2>. QED BY <2>1 DEF ContentOfRow
<1>2. ASSUME NEW c \in Callers, Answer(c) PROVE ContentOfRow'
  <2>1. CASE Holds(c)
    <3>1. brief'.content = caller[c].of /\ brief'.of = caller[c].of
      BY <1>2, <2>1 DEF Answer, Written, Holds, ReadingTypeOK, Brief
    <3>. QED BY <3>1 DEF ContentOfRow
  <2>2. CASE ~Holds(c)
    BY <1>2, <2>2 DEF Answer, Written, ContentOfRow
  <2>. QED BY <2>1, <2>2
<1>3. ASSUME NEW c \in Callers, FailBrief(c) PROVE ContentOfRow'
  <2>1. brief' = brief \/ brief'.status = "error"
    BY <1>3 DEF FailBrief, Written, ReadingTypeOK, Brief
  <2>. QED BY <2>1 DEF ContentOfRow
<1>4. ASSUME NEW c \in Callers, ReadSource(c) \/ LookUp(c) \/ EvictCaller(c)
      PROVE  ContentOfRow'
  BY <1>4 DEF ReadSource, LookUp, EvictCaller, ContentOfRow
<1>5. ASSUME AgeBrief \/ Revise \/ UNCHANGED readingVars PROVE ContentOfRow'
  BY <1>5 DEF AgeBrief, Revise, readingVars, ContentOfRow
<1>. QED BY <1>1, <1>2, <1>3, <1>4, <1>5 DEF ReadingNext

\* A reader of a version is shown what was made from that version, by however
\* many callers of however many versions the row is taken and written.
THEOREM BriefAlwaysOfSource == ReadingSpec => []BriefOfSource
<1>1. ReadingInit => ContentOfRow
  BY DEF ReadingInit, ContentOfRow
<1>2. ReadingTypeOK /\ ContentOfRow /\ [ReadingNext]_readingVars => ContentOfRow'
  BY ContentStep
<1>3. ContentOfRow => BriefOfSource
  BY ContentShown
<1>. QED BY <1>1, <1>2, <1>3, ReadingTypeCorrect, PTL DEF ReadingSpec

-----------------------------------------------------------------------------
(* One request to the model *)

\* Nothing has failed and the summary is the first one.
Quiet == briefFaults = 0 /\ source = 1

\* Every caller is here for that summary; who found the row unreadable found the
\* initial one.
CallersAlike ==
  \A c \in Callers :
    /\ caller[c].pc # "idle" => caller[c].of = 1
    /\ caller[c].pc = "claim" /\ caller[c].bad => caller[c].seen = 0

\* Before the first claim.
Untouched ==
  /\ calls = 0 /\ brief.at = 0 /\ brief.status \in {"none", "done"}
  /\ \A c \in Callers : ~Calling(c)

\* The one call is under way ...
Underway ==
  /\ calls = 1 /\ brief.of = 1 /\ brief.at > 0 /\ brief.status = "processing"
  /\ \E c \in Callers : /\ Calling(c) /\ caller[c].lease = brief.at
                        /\ \A d \in Callers : Calling(d) => d = c

\* ... or has been answered.
Answered ==
  /\ calls = 1 /\ brief.of = 1 /\ brief.at > 0 /\ brief.status = "done" /\ brief.content = 1
  /\ \A c \in Callers : ~Calling(c)

OneCall ==
  /\ source # 0
  /\ Quiet => aged = FALSE /\ CallersAlike /\ (Untouched \/ Underway \/ Answered)

LEMMA OneCallInit == ReadingInit => OneCall
BY DEF ReadingInit, OneCall, Quiet, CallersAlike, Untouched, Calling, Idle

\* A quiet state comes after a quiet one.
LEMMA QuietBefore ==
  ReadingTypeOK /\ [ReadingNext]_readingVars /\ Quiet' /\ source # 0 => Quiet
<1>. SUFFICES ASSUME ReadingTypeOK, source # 0, [ReadingNext]_readingVars, Quiet' PROVE Quiet
  OBVIOUS
<1>1. briefFaults \in Nat /\ source \in Nat
  BY ReadingAssumption DEF ReadingTypeOK, Versions
<1>2. briefFaults' = briefFaults \/ briefFaults' = briefFaults + 1
  BY DEF ReadingNext, ReadSource, LookUp, ClaimBrief, Answer, FailBrief, EvictCaller, AgeBrief,
         Revise, readingVars
<1>3. source' = source \/ Revise
  BY DEF ReadingNext, ReadSource, LookUp, ClaimBrief, Answer, FailBrief, EvictCaller, AgeBrief,
         readingVars
<1>4. Revise => source = 0
  BY <1>1 DEF Revise, Quiet
<1>. QED BY <1>1, <1>2, <1>3, <1>4 DEF Quiet

LEMMA SourceGrows ==
  ReadingTypeOK /\ source # 0 /\ [ReadingNext]_readingVars => source' # 0
<1>. SUFFICES ASSUME ReadingTypeOK, source # 0, [ReadingNext]_readingVars PROVE source' # 0
  OBVIOUS
<1>1. source' = source \/ Revise
  BY DEF ReadingNext, ReadSource, LookUp, ClaimBrief, Answer, FailBrief, EvictCaller, AgeBrief,
         readingVars
<1>2. source \in Nat
  BY ReadingAssumption DEF ReadingTypeOK, Versions
<1>. QED BY <1>1, <1>2 DEF Revise

LEMMA OneCallStep ==
  ReadingTypeOK /\ OneCall /\ [ReadingNext]_readingVars => OneCall'
<1>. SUFFICES ASSUME ReadingTypeOK, OneCall, [ReadingNext]_readingVars, Quiet'
              PROVE  (aged = FALSE /\ CallersAlike /\ (Untouched \/ Underway \/ Answered))'
  BY SourceGrows DEF OneCall
<1>1. Quiet /\ aged = FALSE /\ CallersAlike /\ (Untouched \/ Underway \/ Answered)
  BY QuietBefore DEF OneCall
<1>2. source = 1 /\ source' = 1 /\ briefFaults = 0 /\ briefFaults' = 0
  BY <1>1 DEF Quiet
<1>3. /\ \A c \in Callers : caller[c] \in Caller
      /\ brief \in Brief /\ brief.at \in Nat /\ clock \in Nat
  BY DEF ReadingTypeOK, Brief, Times
<1>4. ASSUME NEW c \in Callers, ReadSource(c)
      PROVE  (aged = FALSE /\ CallersAlike /\ (Untouched \/ Underway \/ Answered))'
  <2>1. /\ caller' = [caller EXCEPT ![c] = [Idle EXCEPT !.pc = "look", !.of = 1]]
        /\ caller[c].pc = "idle" /\ UNCHANGED <<brief, aged, calls>>
    BY <1>2, <1>4 DEF ReadSource, Set
  <2>2. CallersAlike'
    BY <1>1, <2>1 DEF CallersAlike, ReadingTypeOK, Idle
  <2>3. \A d \in Callers : Calling(d)' <=> Calling(d)
    BY <2>1 DEF Calling, ReadingTypeOK, Idle
  <2>4. \A d \in Callers : Calling(d) => caller'[d].lease = caller[d].lease
    BY <2>1 DEF Calling, ReadingTypeOK
  <2>. QED BY <1>1, <2>1, <2>2, <2>3, <2>4 DEF Untouched, Underway, Answered
<1>5. ASSUME NEW c \in Callers, LookUp(c)
      PROVE  (aged = FALSE /\ CallersAlike /\ (Untouched \/ Underway \/ Answered))'
  <2>1. caller[c].of = 1 /\ caller[c].pc = "look" /\ UNCHANGED <<brief, aged, calls>>
    BY <1>1, <1>5 DEF LookUp, CallersAlike
  <2>2. brief.at = 0 \/ Cached(1) \in {"done", "processing"}
    BY <1>1 DEF Untouched, Underway, Answered, Cached
  <2>3. /\ \A d \in Callers \ {c} : caller'[d] = caller[d]
        /\ \/ caller'[c] = Idle
           \/ caller'[c].pc = "claim" /\ caller'[c].of = 1 /\ caller'[c].seen = 0
    BY <1>3, <1>5, <2>1, <2>2 DEF LookUp, Set, ReadingTypeOK, Caller
  <2>4. CallersAlike'
    BY <1>1, <2>3 DEF CallersAlike, Idle
  <2>5. \A d \in Callers : Calling(d)' <=> Calling(d)
    BY <2>1, <2>3 DEF Calling, Idle
  <2>6. \A d \in Callers : Calling(d) => caller'[d] = caller[d]
    BY <2>1, <2>3 DEF Calling
  <2>. QED BY <1>1, <2>1, <2>4, <2>5, <2>6 DEF Untouched, Underway, Answered
<1>6. ASSUME NEW c \in Callers, ClaimBrief(c)
      PROVE  (aged = FALSE /\ CallersAlike /\ (Untouched \/ Underway \/ Answered))'
  <2>1. caller[c].of = 1 /\ caller[c].pc = "claim" /\ (caller[c].bad => caller[c].seen = 0)
    BY <1>1, <1>6 DEF ClaimBrief, CallersAlike
  <2>2. \A d \in Callers \ {c} : caller'[d] = caller[d]
    BY <1>6 DEF ClaimBrief, Set, ReadingTypeOK
  <2>3. CASE ClaimableBrief(c)
    <3>1. Untouched
      BY <1>1, <2>1, <2>3 DEF ClaimableBrief, Underway, Answered
    <3>2. caller'[c] = [caller[c] EXCEPT !.pc = "call", !.lease = clock + 1]
      BY <1>6, <2>3 DEF ClaimBrief, Set, ReadingTypeOK
    <3>3. caller'[c].pc = "call" /\ caller'[c].of = 1 /\ caller'[c].lease = clock + 1
      BY <1>3, <2>1, <3>2 DEF Caller
    <3>4. /\ brief'.of = 1 /\ brief'.status = "processing" /\ brief'.at = clock + 1
          /\ aged' = FALSE
      BY <1>3, <1>6, <2>1, <2>3 DEF ClaimBrief, Brief
    <3>5. calls' = 1
      BY <1>6, <2>3, <3>1 DEF ClaimBrief, Untouched
    <3>6. CallersAlike'
      BY <1>1, <2>2, <3>3 DEF CallersAlike
    <3>7. Calling(c)' /\ \A d \in Callers : Calling(d)' => d = c
      BY <2>2, <3>1, <3>3 DEF Calling, Untouched
    <3>8. Underway'
      BY <1>3, <3>3, <3>4, <3>5, <3>7 DEF Underway
    <3>. QED BY <3>4, <3>6, <3>8
  <2>4. CASE ~ClaimableBrief(c)
    <3>1. caller'[c] = Idle /\ UNCHANGED <<brief, aged, calls>>
      BY <1>6, <2>4 DEF ClaimBrief, Set, ReadingTypeOK
    <3>2. CallersAlike'
      BY <1>1, <2>2, <3>1 DEF CallersAlike, Idle
    <3>3. \A d \in Callers : Calling(d)' <=> Calling(d)
      BY <2>1, <2>2, <3>1 DEF Calling, Idle
    <3>4. \A d \in Callers : Calling(d) => caller'[d] = caller[d]
      BY <2>1, <2>2 DEF Calling
    <3>. QED BY <1>1, <3>1, <3>2, <3>3, <3>4 DEF Untouched, Underway, Answered
  <2>. QED BY <2>3, <2>4
<1>7. ASSUME NEW c \in Callers, Answer(c)
      PROVE  (aged = FALSE /\ CallersAlike /\ (Untouched \/ Underway \/ Answered))'
  <2>1. Underway /\ caller[c].of = 1 /\ Holds(c)
    BY <1>1, <1>7 DEF Answer, Untouched, Underway, Answered, CallersAlike, Calling, Holds
  <2>2. /\ brief'.of = 1 /\ brief'.status = "done" /\ brief'.content = 1 /\ brief'.at = clock + 1
        /\ aged' = FALSE /\ calls' = 1
    BY <1>3, <1>7, <2>1 DEF Answer, Written, Brief, Underway
  <2>3. caller'[c] = Idle /\ \A d \in Callers \ {c} : caller'[d] = caller[d]
    BY <1>7 DEF Answer, Set, ReadingTypeOK
  <2>4. CallersAlike'
    BY <1>1, <2>3 DEF CallersAlike, Idle
  <2>5. \A d \in Callers : ~Calling(d)'
    BY <1>7, <2>1, <2>3 DEF Answer, Underway, Calling, Idle
  <2>6. Answered'
    BY <1>3, <2>2, <2>5 DEF Answered
  <2>. QED BY <2>2, <2>4, <2>6
<1>8. ASSUME NEW c \in Callers, FailBrief(c) \/ EvictCaller(c) PROVE FALSE
  BY <1>2, <1>8 DEF FailBrief, EvictCaller
<1>9. ~AgeBrief
  BY <1>1 DEF AgeBrief, Untouched, Underway, Answered
<1>10. ~Revise
  BY <1>2 DEF Revise
<1>11. CASE UNCHANGED readingVars
  BY <1>1, <1>11 DEF readingVars, CallersAlike, Untouched, Underway, Answered, Calling
<1>. QED BY <1>4, <1>5, <1>6, <1>7, <1>8, <1>9, <1>10, <1>11 DEF ReadingNext

\* The model is asked once for a version, unless a call failed or another version
\* came in between: the lease and the second look at an unreadable row see to it.
THEOREM AskedOnceAlways == ReadingSpec => []AskedOnce
<1>1. ReadingInit => OneCall
  BY OneCallInit
<1>2. ReadingTypeOK /\ OneCall /\ [ReadingNext]_readingVars => OneCall'
  BY OneCallStep
<1>3. OneCall => AskedOnce
  BY DEF OneCall, Quiet, Untouched, Underway, Answered, AskedOnce
<1>. QED BY <1>1, <1>2, <1>3, ReadingTypeCorrect, PTL DEF ReadingSpec

-----------------------------------------------------------------------------
(* Reading summaries implement LeasedText *)

\* The lease of a call is no later than the last write, no two calls have one, and the row
\* of a running lease is as its caller left it.
LeasesRun ==
  /\ brief.at <= clock
  /\ \A c \in Callers : Calling(c) => caller[c].lease <= clock
  /\ \A c, d \in Callers : Calling(c) /\ Calling(d) /\ caller[c].lease = caller[d].lease => c = d
  /\ \A c \in Callers :
       Calling(c) /\ caller[c].lease = brief.at
         => brief.status = "processing" /\ ~aged /\ brief.of = caller[c].of
LeasedInv == ReadingTypeOK /\ LeasesRun

\* A caller that does not call, or no longer, writes the row at a new time or not at all.
CallerRests(c) ==
  /\ caller'[c].pc # "call" /\ \A d \in Callers \ {c} : caller'[d] = caller[d]
  /\ \/ UNCHANGED <<brief, aged, clock>>
     \/ brief'.at = clock + 1 /\ clock' = clock + 1

LEMMA RestsLeased ==
  ASSUME LeasedInv, NEW c \in Callers, CallerRests(c) PROVE LeasesRun'
<1>0. clock \in Nat /\ \A d \in Callers : caller[d].lease \in Nat
  BY DEF LeasedInv, ReadingTypeOK, Times, Caller
<1>1. \A d \in Callers : Calling(d)' => d # c /\ Calling(d) /\ caller'[d] = caller[d]
  BY DEF CallerRests, Calling
<1>2. CASE UNCHANGED <<brief, aged, clock>>
  BY <1>1, <1>2 DEF LeasedInv, LeasesRun
<1>3. CASE brief'.at = clock + 1 /\ clock' = clock + 1
  BY <1>0, <1>1, <1>3 DEF LeasedInv, LeasesRun
<1>. QED BY <1>2, <1>3 DEF CallerRests

LEMMA StepRests ==
  ASSUME LeasedInv, NEW c \in Callers,
         \/ ReadSource(c) \/ LookUp(c) \/ Answer(c) \/ FailBrief(c) \/ EvictCaller(c)
         \/ ClaimBrief(c) /\ ~ClaimableBrief(c)
  PROVE  CallerRests(c)
<1>0. caller \in [Callers -> Caller] /\ brief \in Brief
  BY DEF LeasedInv, ReadingTypeOK
<1>1. ASSUME NEW v, Set(c, v), v.pc # "call"
      PROVE  caller'[c].pc # "call" /\ \A d \in Callers \ {c} : caller'[d] = caller[d]
  BY <1>0, <1>1 DEF Set
<1>2. Idle.pc # "call" /\ [Idle EXCEPT !.pc = "look", !.of = source].pc # "call"
  BY DEF Idle
<1>3. \A s, b : [caller[c] EXCEPT !.pc = "claim", !.seen = s, !.bad = b].pc # "call"
  BY <1>0 DEF Caller
<1>4. ASSUME NEW r, Written(c, r), r \in Brief
      PROVE  UNCHANGED <<brief, aged, clock>> \/ (brief'.at = clock + 1 /\ clock' = clock + 1)
  BY <1>4 DEF Written, Brief
<1>5. CASE ReadSource(c) \/ EvictCaller(c) \/ (ClaimBrief(c) /\ ~ClaimableBrief(c))
  BY <1>1, <1>2, <1>5 DEF ReadSource, EvictCaller, ClaimBrief, CallerRests
<1>6. CASE LookUp(c)
  <2>1. \/ Set(c, Idle)
        \/ Set(c, [caller[c] EXCEPT !.pc = "claim", !.seen = brief.at,
                                    !.bad = (Cached(caller[c].of) = "error")])
    BY <1>6 DEF LookUp
  <2>2. UNCHANGED <<brief, aged, clock>>
    BY <1>6 DEF LookUp
  <2>3. [caller[c] EXCEPT !.pc = "claim", !.seen = brief.at,
                          !.bad = (Cached(caller[c].of) = "error")].pc # "call"
    BY <1>3
  <2>. QED BY <1>1, <1>2, <2>1, <2>2, <2>3 DEF CallerRests
<1>7. CASE Answer(c)
  <2>1. [brief EXCEPT !.status = "done", !.content = caller[c].of] \in Brief
    BY <1>0 DEF Brief, Caller
  <2>2. Written(c, [brief EXCEPT !.status = "done", !.content = caller[c].of]) /\ Set(c, Idle)
    BY <1>7 DEF Answer
  <2>. QED BY <1>1, <1>2, <1>4, <2>1, <2>2 DEF CallerRests
<1>8. CASE FailBrief(c)
  <2>1. [brief EXCEPT !.status = "error"] \in Brief
    BY <1>0 DEF Brief
  <2>2. Written(c, [brief EXCEPT !.status = "error"]) /\ Set(c, Idle)
    BY <1>8 DEF FailBrief
  <2>. QED BY <1>1, <1>2, <1>4, <2>1, <2>2 DEF CallerRests
<1>. QED BY <1>5, <1>6, <1>7, <1>8

\* Callers that hold the lease of a row with this version and time.
HeldBy(callers, kept) ==
  {c \in Callers : /\ callers[c].pc = "call"
                   /\ kept.of = callers[c].of /\ kept.at = callers[c].lease}

LEMMA LeasesOfBrief ==
  ASSUME NEW callers, NEW kept
  PROVE  BriefLeases(callers, kept)
           = [j \in {"brief"} |-> {[by |-> c, of |-> callers[c].of] : c \in HeldBy(callers, kept)}]
BY DEF BriefLeases, HeldBy

\* Leases that the same callers hold for the same versions are the same.
LEMMA SameLeases ==
  ASSUME NEW callers, NEW kept, NEW next, NEW line,
         HeldBy(next, line) = HeldBy(callers, kept),
         \A c \in HeldBy(callers, kept) : next[c].of = callers[c].of
  PROVE  BriefLeases(next, line) = BriefLeases(callers, kept)
<1>1. {[by |-> c, of |-> next[c].of] : c \in HeldBy(next, line)}
        = {[by |-> c, of |-> callers[c].of] : c \in HeldBy(callers, kept)}
  OBVIOUS
<1>. QED BY <1>1, LeasesOfBrief

LEMMA SoleHolder ==
  ASSUME LeasedInv, NEW c \in Callers, c \in HeldBy(caller, brief)
  PROVE  /\ HeldBy(caller, brief) = {c}
         /\ BriefLeases(caller, brief) = [j \in {"brief"} |-> {[by |-> c, of |-> caller[c].of]}]
<1>1. HeldBy(caller, brief) = {c}
  BY DEF LeasedInv, LeasesRun, HeldBy, Calling
<1>. QED BY <1>1, LeasesOfBrief

\* A caller that rests lets go of the lease it had, and disturbs no other.
LEMMA RestsText ==
  ASSUME LeasedInv, NEW c \in Callers, CallerRests(c),
         \/ UNCHANGED brief
         \/ c \in HeldBy(caller, brief) /\ brief'.content \in {brief.content, caller[c].of}
  PROVE  [BriefTexts!Next]_<<BriefLeases(caller, brief), BriefText(brief)>>
<1>0. clock \in Nat /\ \A d \in Callers : caller[d].lease \in Nat
  BY DEF LeasedInv, ReadingTypeOK, Times, Caller
<1>1. CASE c \in HeldBy(caller, brief)
  <2>1. HeldBy(caller', brief') = {}
    <3>1. CASE UNCHANGED brief
      <4>1. HeldBy(caller, brief) = {c}
        BY <1>1, SoleHolder
      <4>. QED BY <3>1, <4>1 DEF HeldBy, CallerRests
    <3>2. CASE brief'.at = clock + 1
      BY <1>0, <3>2 DEF HeldBy, CallerRests, LeasedInv, LeasesRun, Calling
    <3>. QED BY <3>1, <3>2 DEF CallerRests
  <2>2. BriefLeases(caller', brief') = [j \in {"brief"} |-> {}]
    BY <2>1, LeasesOfBrief
  <2>3. BriefLeases(caller, brief) = [j \in {"brief"} |-> {[by |-> c, of |-> caller[c].of]}]
    BY <1>1, SoleHolder
  <2>4. CASE brief'.content = brief.content
    <3>1. BriefText(brief') = BriefText(brief)
      BY <2>4 DEF BriefText
    <3>2. BriefTexts!Drop("brief")
      BY <2>2, <2>3, <3>1 DEF BriefTexts!Drop
    <3>. QED BY <3>2 DEF BriefTexts!Next
  <2>5. CASE brief'.content = caller[c].of
    <3>1. BriefText(brief') = [BriefText(brief) EXCEPT !["brief"] = caller[c].of]
      BY <2>5 DEF BriefText
    <3>2. \E lease \in BriefLeases(caller, brief)["brief"] : lease.of = caller[c].of
      <4>1. BriefLeases(caller, brief)["brief"] = {[by |-> c, of |-> caller[c].of]}
        BY <2>3
      <4>. QED BY <4>1
    <3>3. BriefTexts!Store("brief")
      BY <2>2, <2>3, <3>1, <3>2 DEF BriefTexts!Store
    <3>. QED BY <3>3 DEF BriefTexts!Next
  <2>. QED BY <2>4, <2>5
<1>2. CASE c \notin HeldBy(caller, brief)
  <2>1. brief' = brief
    BY <1>2
  <2>2. HeldBy(caller', brief') = HeldBy(caller, brief)
    BY <1>2, <2>1 DEF HeldBy, CallerRests
  <2>3. \A d \in HeldBy(caller, brief) : caller'[d].of = caller[d].of
    BY <1>2 DEF HeldBy, CallerRests
  <2>4. BriefLeases(caller', brief') = BriefLeases(caller, brief)
    BY <2>2, <2>3, SameLeases
  <2>. QED BY <2>1, <2>4
<1>. QED BY <1>1, <1>2

\* A claim takes the lease for its version, from nobody or from another version's caller.
LEMMA ClaimText ==
  ASSUME LeasedInv, NEW c \in Callers, ClaimBrief(c), ClaimableBrief(c)
  PROVE  LeasesRun' /\ BriefTexts!Next
<1>. DEFINE v == caller[c].of
<1>0. /\ clock \in Nat /\ caller \in [Callers -> Caller] /\ brief \in Brief
      /\ \A d \in Callers : caller[d].lease \in Nat /\ v \in Versions
  BY DEF LeasedInv, ReadingTypeOK, Times, Caller
<1>1. /\ clock' = clock + 1 /\ ~aged'
      /\ brief' = [brief EXCEPT !.of = v, !.status = "processing", !.at = clock + 1]
      /\ caller' = [caller EXCEPT ![c] = [caller[c] EXCEPT !.pc = "call", !.lease = clock + 1]]
  BY DEF ClaimBrief, Set
<1>2. brief'.of = v /\ brief'.status = "processing" /\ brief'.at = clock + 1
      /\ brief'.content = brief.content
  BY <1>0, <1>1 DEF Brief
<1>3. /\ caller'[c].pc = "call" /\ caller'[c].lease = clock + 1 /\ caller'[c].of = v
      /\ \A d \in Callers \ {c} : caller'[d] = caller[d]
  BY <1>0, <1>1 DEF Caller
<1>. HIDE DEF v
<1>4. LeasesRun'
  <2>1. \A d \in Callers \ {c} : Calling(d)' => Calling(d) /\ caller'[d].lease <= clock
    BY <1>3 DEF Calling, LeasedInv, LeasesRun
  <2>. QED BY <1>0, <1>1, <1>2, <1>3, <2>1 DEF LeasedInv, LeasesRun, Calling
<1>5. HeldBy(caller', brief') = {c}
  BY <1>0, <1>2, <1>3 DEF HeldBy, LeasedInv, LeasesRun, Calling
<1>6. BriefLeases(caller', brief') = [j \in {"brief"} |-> {[by |-> c, of |-> v]}]
  BY <1>3, <1>5, LeasesOfBrief
<1>7. \A d \in HeldBy(caller, brief) : caller[d].of # v
  BY DEF HeldBy, LeasedInv, LeasesRun, Calling, ClaimableBrief, v
<1>8. \A lease \in BriefLeases(caller, brief)["brief"] : lease.of # v
  BY <1>7, LeasesOfBrief
<1>9. BriefLeases(caller', brief')
        = [BriefLeases(caller, brief) EXCEPT !["brief"] = {[by |-> c, of |-> v]}]
  BY <1>6, LeasesOfBrief
<1>10. BriefText(brief') = BriefText(brief)
  BY <1>2 DEF BriefText
<1>11. BriefTexts!Take(c, "brief", v)
  BY <1>8, <1>9, <1>10 DEF BriefTexts!Take
<1>. QED BY <1>0, <1>4, <1>11 DEF BriefTexts!Next

LEMMA LeasedStep ==
  ASSUME LeasedInv, [ReadingNext]_readingVars
  PROVE  LeasesRun' /\ [BriefTexts!Next]_<<BriefLeases(caller, brief), BriefText(brief)>>
<1>1. ASSUME NEW c \in Callers, ClaimBrief(c), ClaimableBrief(c)
      PROVE  LeasesRun' /\ [BriefTexts!Next]_<<BriefLeases(caller, brief), BriefText(brief)>>
  BY <1>1, ClaimText
<1>2. ASSUME NEW c \in Callers,
             \/ ReadSource(c) \/ LookUp(c) \/ Answer(c) \/ FailBrief(c) \/ EvictCaller(c)
             \/ ClaimBrief(c) /\ ~ClaimableBrief(c)
      PROVE  LeasesRun' /\ [BriefTexts!Next]_<<BriefLeases(caller, brief), BriefText(brief)>>
  <2>1. CallerRests(c)
    BY <1>2, StepRests
  <2>2. \/ UNCHANGED brief
        \/ c \in HeldBy(caller, brief) /\ brief'.content \in {brief.content, caller[c].of}
    <3>1. CASE Answer(c) \/ FailBrief(c)
      <4>0. brief \in Brief
        BY DEF LeasedInv, ReadingTypeOK
      <4>1. ~Holds(c) => UNCHANGED brief
        BY <3>1 DEF Answer, FailBrief, Written
      <4>2. Holds(c) => c \in HeldBy(caller, brief)
        BY <3>1 DEF Answer, FailBrief, Holds, HeldBy, Calling
      <4>3. Holds(c) => brief'.content \in {brief.content, caller[c].of}
        BY <3>1, <4>0 DEF Answer, FailBrief, Written, Brief
      <4>. QED BY <4>1, <4>2, <4>3
    <3>. QED BY <1>2, <3>1 DEF ReadSource, LookUp, EvictCaller, ClaimBrief
  <2>. QED BY <2>1, <2>2, RestsLeased, RestsText
<1>3. CASE AgeBrief \/ Revise \/ UNCHANGED readingVars
  <2>1. caller' = caller /\ brief' = brief /\ clock' = clock
    BY <1>3 DEF AgeBrief, Revise, readingVars
  <2>2. aged' # aged => \A c \in Callers : ~(Calling(c) /\ caller[c].lease = brief.at)
    BY <1>3 DEF AgeBrief, Revise, readingVars
  <2>. QED BY <2>1, <2>2 DEF LeasedInv, LeasesRun, Calling
<1>. QED BY <1>1, <1>2, <1>3 DEF ReadingNext

\* Reading summaries implement LeasedText: the content of a row is stored only by the
\* caller that claimed it last, from the version that caller was asked for, and a running
\* lease is taken for another version only, by however many callers, failures and evictions
\* (generateReadingSummary).
THEOREM ReadingImplementsLeasedText == ReadingSpec => BriefImplementsLeasedText
<1>1. ReadingInit => LeasedInv /\ BriefTexts!Init
  <2>. SUFFICES ASSUME ReadingInit PROVE LeasesRun /\ BriefTexts!Init
    BY ReadingInitTyped DEF LeasedInv
  <2>1. \A c \in Callers : ~Calling(c)
    BY DEF ReadingInit, Idle, Calling
  <2>2. brief.at = 0 /\ brief.content = 0 /\ clock = 0
    BY DEF ReadingInit
  <2>3. HeldBy(caller, brief) = {}
    BY <2>1 DEF HeldBy, Calling
  <2>. QED BY <2>1, <2>2, <2>3, LeasesOfBrief DEF LeasesRun, BriefText, BriefTexts!Init
<1>2. LeasedInv /\ [ReadingNext]_readingVars
        => LeasedInv' /\ [BriefTexts!Next]_<<BriefLeases(caller, brief), BriefText(brief)>>
  BY LeasedStep, ReadingStepTyped DEF LeasedInv
<1>. QED BY <1>1, <1>2, PTL DEF ReadingSpec, BriefImplementsLeasedText, BriefTexts!Spec

-----------------------------------------------------------------------------
(* The merging of articles *)

MergeShaped ==
  /\ canonical \in [Articles -> Maybe] /\ \A a \in Articles : canonical[a] # a
  /\ byUrl \in [Articles -> Maybe] /\ byEntry \in [Sources \X Articles -> Maybe]
  /\ links \subseteq Sources \X Articles
  /\ merged \subseteq Articles /\ marked \subseteq Articles
  /\ hand \in [Hands -> Hand]

\* An alias leads to an article that has an alias itself, and has the text if it is of
\* another URL; and to one that is not merged unless merges have crossed.
Leads(urls, gone, texts, off) ==
  /\ \A a \in Articles : urls[a] # NoArticle =>
       /\ urls[urls[a]] # NoArticle /\ (urls[a] = a \/ urls[a] \in texts)
       /\ a \notin off => urls[a] \notin gone
  /\ \A a \in gone : urls[a] # NoArticle

\* Whatever an entry or a source means, and whatever the reader has saved, has an alias.
Aliased(urls, entries, linked, kept, used, off) ==
  /\ \A key \in Sources \X Articles : entries[key] # NoArticle =>
       urls[key[2]] # NoArticle /\ urls[entries[key]] # NoArticle
  /\ \A l \in linked : urls[l[2]] # NoArticle
  /\ \A a \in used : urls[a] # NoArticle /\ (a \notin off => urls[a] \in kept)

\* What an invocation has read holds, or the article it has read is merged.
Drains(k) == k.pc \in {"alias", "target", "move"}
HandHolds(k, urls, gone, texts) ==
  /\ k.pc # "free" => k.article \in Articles
  /\ Drains(k) =>
       /\ k.article \notin gone /\ k.article \in texts /\ urls[k.article] # NoArticle
       /\ canonical[k.article] \in Articles
  /\ k.pc = "alias" => k.other \in {k.article, canonical[k.article]}
  /\ k.pc = "target" => urls[canonical[k.article]] # NoArticle
  /\ k.pc = "move" => /\ k.other \in Articles /\ k.other # k.article
                      /\ urls[k.other] # NoArticle
  /\ k.pc \in {"insert", "link"} => k.source \in Sources
  /\ k.pc = "link" =>
       /\ k.other \in Articles
       /\ k.other = k.article \/ (urls[k.article] # NoArticle /\ urls[k.other] # NoArticle)
  /\ k.pc = "mark" => /\ urls[k.article] # NoArticle
                      /\ k.other = urls[k.article] \/ k.other \in gone

\* The lease of an article is one drain's.
LeasesApart == \A h, g \in Hands :
  h # g /\ Drains(hand[h]) /\ Drains(hand[g]) => hand[h].article # hand[g].article

MergeInv ==
  /\ MergeShaped
  /\ Leads(byUrl, merged, whole, crossed)
  /\ Aliased(byUrl, byEntry, links, saved, marked, crossed)
  /\ \A h \in Hands : HandHolds(hand[h], byUrl, merged, whole)
  /\ LeasesApart

\* One invocation moves, and takes no article that another drains; for the others,
\* aliases lead where they did, or from an article that is merged.
LEMMA Turned ==
  ASSUME MergeInv, NEW h \in Hands, NEW k \in Hand, Turn(h, k),
         UNCHANGED canonical, MergeShaped',
         Leads(byUrl', merged', whole', crossed'),
         Aliased(byUrl', byEntry', links', saved', marked', crossed'),
         HandHolds(k, byUrl', merged', whole'),
         whole \subseteq whole', merged \subseteq merged',
         \A x \in Articles : byUrl[x] # NoArticle =>
           byUrl'[x] # NoArticle /\ (byUrl'[x] = byUrl[x] \/ byUrl[x] \in merged'),
         \A g \in Hands \ {h} : Drains(hand[g]) =>
           /\ hand[g].article \notin merged' \ merged
           /\ Drains(k) => hand[g].article # k.article
  PROVE  MergeInv'
<1>1. hand \in [Hands -> Hand] /\ hand' = [hand EXCEPT ![h] = k]
  BY DEF Turn, MergeInv, MergeShaped
<1>2. hand'[h] = k /\ \A g \in Hands \ {h} : hand'[g] = hand[g]
  BY <1>1
<1>3. ASSUME NEW g \in Hands PROVE HandHolds(hand'[g], byUrl', merged', whole')
  <2>1. CASE g = h
    BY <1>2, <2>1
  <2>2. CASE g # h
    <3>1. HandHolds(hand[g], byUrl, merged, whole) /\ hand'[g] = hand[g]
      BY <1>2, <2>2 DEF MergeInv
    <3>2. Drains(hand[g]) => hand[g].article \notin merged'
      BY <2>2, <3>1 DEF HandHolds
    <3>3. Drains(hand[g]) => byUrl'[hand[g].article] # NoArticle
      BY <3>1 DEF HandHolds, Drains
    <3>4. hand[g].pc = "target" => byUrl'[canonical[hand[g].article]] # NoArticle
      BY <3>1 DEF HandHolds, Drains
    <3>5. hand[g].pc = "move" => byUrl'[hand[g].other] # NoArticle
      BY <3>1 DEF HandHolds
    <3>6. hand[g].pc = "link" => \/ hand[g].other = hand[g].article
                                \/ /\ byUrl'[hand[g].article] # NoArticle
                                   /\ byUrl'[hand[g].other] # NoArticle
      BY <3>1 DEF HandHolds
    <3>7. hand[g].pc = "mark" => /\ byUrl'[hand[g].article] # NoArticle
                                /\ \/ hand[g].other = byUrl'[hand[g].article]
                                   \/ hand[g].other \in merged'
      BY <3>1 DEF HandHolds
    <3>. QED BY <3>1, <3>2, <3>3, <3>4, <3>5, <3>6, <3>7 DEF HandHolds, Drains
  <2>. QED BY <2>1, <2>2
<1>4. ASSUME NEW f \in Hands, NEW g \in Hands, f # g, Drains(hand'[f]), Drains(hand'[g])
      PROVE  hand'[f].article # hand'[g].article
  <2>1. CASE f # h /\ g # h
    BY <1>2, <1>4, <2>1 DEF MergeInv, LeasesApart
  <2>2. CASE f = h \/ g = h
    BY <1>2, <1>4, <2>2
  <2>. QED BY <2>1, <2>2
<1>5. LeasesApart'
  BY <1>4 DEF LeasesApart, Drains
<1>6. \A g \in Hands : HandHolds(hand[g], byUrl, merged, whole)'
  BY <1>3 DEF HandHolds, Drains
<1>. QED BY <1>5, <1>6 DEF MergeInv, Leads, Aliased

LEMMA FreeHolds ==
  ASSUME NEW urls, NEW gone, NEW texts
  PROVE  /\ FreeHand \in Hand /\ ~Drains(FreeHand)
         /\ HandHolds(FreeHand, urls, gone, texts)
BY DEF FreeHand, Hand, Maybe, HandHolds, Drains

LEMMA MergeParts ==
  ASSUME MergeInv
  PROVE  /\ MergeShaped /\ Leads(byUrl, merged, whole, crossed)
         /\ Aliased(byUrl, byEntry, links, saved, marked, crossed)
         /\ LeasesApart
         /\ \A h \in Hands : hand[h] \in Hand /\ HandHolds(hand[h], byUrl, merged, whole)
         /\ NoArticle \notin Articles
BY RssMergeAssumption DEF MergeInv, MergeShaped

LEMMA FindDirectStep ==
  ASSUME MergeInv, NEW h \in Hands, NEW a \in Articles, FindDirect(h, a) PROVE MergeInv'
<1>. USE MergeParts
<1>. DEFINE other == IF canonical[a] \in known \ merged THEN canonical[a] ELSE a
            k == [FreeHand EXCEPT !.pc = "alias", !.article = a, !.other = other]
<1>1. /\ UNCHANGED <<canonical, merged, byUrl, byEntry, links, saved, marked, crossed>>
      /\ whole' = whole \cup {a} /\ Turn(h, k) /\ canonical[a] # NoArticle
      /\ a \notin merged /\ (\E s \in Sources : <<s, a>> \in links) /\ a \notin Leased
  BY DEF FindDirect
<1>2. /\ canonical[a] \in Articles /\ other \in Articles
      /\ other \in {a, canonical[a]}
  BY <1>1 DEF MergeShaped, Maybe
<1>3. /\ byUrl[a] # NoArticle
      /\ \A g \in Hands : Drains(hand[g]) => hand[g].article # a
  BY <1>1 DEF Aliased, Leased, Drains
<1>. HIDE DEF other
<1>4. k \in Hand /\ k.pc = "alias" /\ k.article = a /\ k.other = other
  BY <1>2, FreeHolds DEF Hand, Maybe
<1>. HIDE DEF k
<1>5. HandHolds(k, byUrl, merged, whole')
  BY <1>1, <1>2, <1>3, <1>4 DEF HandHolds, Drains
<1>6. Leads(byUrl, merged, whole', crossed)
  BY <1>1 DEF Leads
<1>7. MergeShaped'
  BY <1>1, <1>4 DEF MergeShaped, Turn
<1>. QED BY <1>1, <1>3, <1>4, <1>5, <1>6, <1>7, Turned

LEMMA MakeAliasStep ==
  ASSUME MergeInv, NEW h \in Hands, MakeAlias(h) PROVE MergeInv'
<1>. USE MergeParts
<1>. DEFINE a == hand[h].article
            url == canonical[a]
            other == hand[h].other
            k == [hand[h] EXCEPT !.pc = "target", !.other = NoArticle]
<1>1. /\ UNCHANGED <<canonical, merged, whole, byEntry, links, saved, marked, crossed>>
      /\ byUrl' = [byUrl EXCEPT ![url] = IF byUrl[url] = NoArticle THEN other ELSE byUrl[url]]
      /\ Turn(h, k) /\ hand[h].pc = "alias"
  BY DEF MakeAlias, Holding
<1>2. /\ a \in Articles /\ url \in Articles /\ other \in {a, url}
      /\ a \in whole /\ a \notin merged /\ byUrl[a] # NoArticle
      /\ \A g \in Hands \ {h} : Drains(hand[g]) => hand[g].article # a
  BY <1>1 DEF HandHolds, Drains, LeasesApart
<1>3. k \in Hand /\ k.pc = "target" /\ k.article = a
  BY DEF Hand, Maybe
<1>. HIDE DEF k, other, a
<1>4. \A b \in Articles : b # url => byUrl'[b] = byUrl[b]
  BY <1>1, <1>2 DEF MergeShaped
<1>5. byUrl'[url] = IF byUrl[url] = NoArticle THEN other ELSE byUrl[url]
  BY <1>1, <1>2 DEF MergeShaped
<1>6. byUrl' \in [Articles -> Maybe] /\ byUrl'[url] # NoArticle
  BY <1>1, <1>2, <1>5 DEF MergeShaped, Maybe
<1>7. \A b \in Articles : byUrl[b] # NoArticle => byUrl'[b] = byUrl[b]
  BY <1>4, <1>5
<1>8. Leads(byUrl', merged, whole, crossed)
  <2>1. ASSUME NEW b \in Articles, byUrl'[b] # NoArticle
        PROVE  /\ byUrl'[byUrl'[b]] # NoArticle /\ (byUrl'[b] = b \/ byUrl'[b] \in whole)
               /\ b \notin crossed => byUrl'[b] \notin merged
    <3>1. CASE byUrl[b] # NoArticle
      <4>1. byUrl[b] \in Articles
        BY <3>1 DEF MergeShaped, Maybe
      <4>. QED BY <1>7, <3>1, <4>1 DEF Leads
    <3>2. CASE byUrl[b] = NoArticle
      <4>1. b = url /\ byUrl'[b] = other /\ url \notin merged
        BY <1>4, <1>5, <2>1, <3>2 DEF Leads
      <4>. QED BY <1>2, <1>6, <1>7, <4>1
    <3>. QED BY <3>1, <3>2
  <2>2. \A b \in merged : byUrl'[b] # NoArticle
    BY <1>7 DEF Leads, MergeShaped
  <2>. QED BY <2>1, <2>2 DEF Leads
<1>9. Aliased(byUrl', byEntry, links, saved, marked, crossed)
  <2>1. \A b \in Articles : byUrl[b] # NoArticle => byUrl'[b] # NoArticle
    BY <1>7
  <2>2. \A key \in Sources \X Articles : byEntry[key] # NoArticle =>
          byEntry[key] \in Articles /\ key[2] \in Articles
    BY DEF MergeShaped, Maybe
  <2>3. (\A l \in links : l[2] \in Articles) /\ (\A b \in marked : b \in Articles)
    BY DEF MergeShaped
  <2>. QED BY <1>7, <2>1, <2>2, <2>3 DEF Aliased
<1>10. HandHolds(k, byUrl', merged, whole)
  BY <1>2, <1>3, <1>6, <1>7 DEF HandHolds, Drains
<1>11. MergeShaped'
  BY <1>1, <1>3, <1>6 DEF MergeShaped, Turn
<1>. QED BY <1>1, <1>2, <1>3, <1>7, <1>8, <1>9, <1>10, <1>11, Turned

LEMMA ReadTargetStep ==
  ASSUME MergeInv, NEW h \in Hands, ReadTarget(h) PROVE MergeInv'
<1>. USE MergeParts
<1>. DEFINE a == hand[h].article
            target == byUrl[canonical[a]]
            moving == [hand[h] EXCEPT !.pc = "move", !.other = target]
<1>1. /\ UNCHANGED <<canonical, merged, whole, byUrl, byEntry, links, saved, marked, crossed>>
      /\ Turn(h, IF target = a THEN FreeHand ELSE moving) /\ hand[h].pc = "target"
  BY DEF ReadTarget, Holding
<1>2. /\ a \in Articles /\ canonical[a] \in Articles /\ target # NoArticle
      /\ a \in whole /\ a \notin merged /\ byUrl[a] # NoArticle
      /\ \A g \in Hands \ {h} : Drains(hand[g]) => hand[g].article # a
  BY <1>1 DEF HandHolds, Drains, LeasesApart
<1>3. target \in Articles /\ byUrl[target] # NoArticle
  BY <1>2 DEF Leads, MergeShaped, Maybe
<1>. HIDE DEF target, a
<1>4. moving \in Hand /\ moving.pc = "move" /\ moving.article = a /\ moving.other = target
  BY <1>3 DEF Hand, Maybe, a
<1>. HIDE DEF moving
<1>5. PICK k \in {FreeHand, moving} : Turn(h, k) /\ (k = moving => target # a \/ k = FreeHand)
  BY <1>1
<1>6. HandHolds(k, byUrl, merged, whole) /\ k \in Hand /\ (Drains(k) => k.article = a)
  <2>1. CASE k = FreeHand
    BY <2>1, FreeHolds
  <2>2. CASE k = moving /\ target # a
    BY <1>2, <1>3, <1>4, <2>2 DEF HandHolds, Drains
  <2>. QED BY <1>5, <2>1, <2>2
<1>7. MergeShaped'
  BY <1>1, <1>5, <1>6 DEF MergeShaped, Turn
<1>. QED BY <1>1, <1>2, <1>5, <1>6, <1>7, Turned

LEMMA MoveStep ==
  ASSUME MergeInv, NEW h \in Hands, Move(h) PROVE MergeInv'
<1>. USE MergeParts
<1>. DEFINE a == hand[h].article
            target == hand[h].other
<1>1. /\ UNCHANGED <<canonical, marked>> /\ hand[h].pc = "move"
      /\ whole' = IF target \in Leased THEN whole ELSE whole \cup {target}
      /\ links' = {l \in links : l[2] # a} \cup {<<l[1], target>> : l \in {m \in links : m[2] = a}}
      /\ saved' = IF a \in saved THEN saved \cup {target} ELSE saved
      /\ byUrl' = Redirected(byUrl, a, target) /\ byEntry' = Redirected(byEntry, a, target)
      /\ merged' = merged \cup {a} /\ Turn(h, FreeHand)
      /\ crossed' = crossed \cup Astray(a, target)
  BY DEF Move, Holding
<1>2. /\ a \in Articles /\ target \in Articles /\ target # a
      /\ byUrl[a] # NoArticle /\ byUrl[target] # NoArticle
      /\ \A g \in Hands \ {h} : Drains(hand[g]) => hand[g].article # a
  BY <1>1 DEF HandHolds, Drains, LeasesApart
<1>3. target \in Leased => target \in whole
  BY DEF Leased, HandHolds, Drains
<1>. HIDE DEF a, target
<1>4. target \in whole' /\ whole \subseteq whole' /\ saved \subseteq saved'
  BY <1>1, <1>3
<1>5. \A x \in Articles : byUrl'[x] = IF byUrl[x] = a THEN target ELSE byUrl[x]
  BY <1>1 DEF Redirected, MergeShaped
<1>6. \A key \in Sources \X Articles :
        byEntry'[key] = IF byEntry[key] = a THEN target ELSE byEntry[key]
  BY <1>1 DEF Redirected, MergeShaped
<1>7. byUrl' \in [Articles -> Maybe] /\ byEntry' \in [Sources \X Articles -> Maybe]
  BY <1>1, <1>2 DEF Redirected, MergeShaped, Maybe
<1>8. \A x \in Articles : byUrl[x] # NoArticle => byUrl'[x] # NoArticle
  BY <1>2, <1>5
<1>9. Leads(byUrl', merged', whole', crossed')
  <2>1. ASSUME NEW b \in Articles, byUrl'[b] # NoArticle
        PROVE  /\ byUrl'[byUrl'[b]] # NoArticle /\ (byUrl'[b] = b \/ byUrl'[b] \in whole')
               /\ b \notin crossed' => byUrl'[b] \notin merged'
    <3>1. CASE byUrl[b] = a
      <4>1. byUrl'[b] = target /\ Resolved(b) = a
        BY <1>2, <1>5, <3>1, MergeParts DEF Resolved
      <4>2. b \notin crossed' => target \notin merged
        BY <1>1, <4>1 DEF Astray
      <4>. QED BY <1>1, <1>2, <1>4, <1>8, <4>1, <4>2
    <3>2. CASE byUrl[b] # a
      <4>1. byUrl'[b] = byUrl[b] /\ byUrl[b] \in Articles
        BY <1>5, <2>1, <3>2 DEF MergeShaped, Maybe
      <4>2. byUrl[b] # NoArticle /\ crossed \subseteq crossed'
        BY <1>1, <2>1, <4>1
      <4>. QED BY <1>1, <1>4, <1>8, <3>2, <4>1, <4>2 DEF Leads
    <3>. QED BY <3>1, <3>2
  <2>2. \A b \in merged' : b \in Articles /\ byUrl[b] # NoArticle
    BY <1>1, <1>2 DEF Leads, MergeShaped
  <2>. QED BY <1>8, <2>1, <2>2 DEF Leads
<1>10. Aliased(byUrl', byEntry', links', saved', marked, crossed')
  <2>1. ASSUME NEW key \in Sources \X Articles, byEntry'[key] # NoArticle
        PROVE  byUrl'[key[2]] # NoArticle /\ byUrl'[byEntry'[key]] # NoArticle
    <3>1. byEntry[key] # NoArticle
      BY <1>2, <1>6, <2>1
    <3>2. byEntry[key] \in Articles /\ key[2] \in Articles
      BY <3>1 DEF MergeShaped, Maybe
    <3>3. byUrl'[key[2]] # NoArticle /\ byUrl'[byEntry[key]] # NoArticle
      BY <1>8, <3>1, <3>2 DEF Aliased
    <3>. QED BY <1>2, <1>6, <1>8, <3>3
  <2>2. ASSUME NEW l \in links' PROVE byUrl'[l[2]] # NoArticle
    <3>1. l \in links \/ l[2] = target
      BY <1>1
    <3>2. CASE l \in links
      BY <1>8, <3>2 DEF Aliased, MergeShaped
    <3>. QED BY <1>2, <1>8, <3>1, <3>2
  <2>3. ASSUME NEW b \in marked
        PROVE  byUrl'[b] # NoArticle /\ (b \notin crossed' => byUrl'[b] \in saved')
    <3>1. b \in Articles /\ byUrl[b] # NoArticle /\ (b \notin crossed' => byUrl[b] \in saved)
      BY <1>1 DEF Aliased, MergeShaped
    <3>. QED BY <1>1, <1>4, <1>5, <1>8, <3>1
  <2>. QED BY <2>1, <2>2, <2>3 DEF Aliased
<1>11. links' \subseteq Sources \X Articles
  BY <1>1, <1>2 DEF MergeShaped
<1>12. MergeShaped'
  BY <1>1, <1>2, <1>7, <1>11, FreeHolds DEF MergeShaped, Turn
<1>13. Aliased(byUrl', byEntry', links', saved', marked', crossed')
  BY <1>1, <1>10
<1>14. \A x \in Articles : byUrl[x] # NoArticle =>
         byUrl'[x] # NoArticle /\ (byUrl'[x] = byUrl[x] \/ byUrl[x] \in merged')
  BY <1>1, <1>5, <1>8
<1>15. merged' \ merged \subseteq {a}
  BY <1>1
<1>. QED BY <1>1, <1>2, <1>4, <1>9, <1>12, <1>13, <1>14, <1>15, FreeHolds, Turned

LEMMA FindAliasStep ==
  ASSUME MergeInv, NEW h \in Hands, NEW s \in Sources, NEW a \in Articles,
         FindAlias(h, s, a)
  PROVE  MergeInv'
<1>. USE MergeParts
<1>. DEFINE id == byEntry[<<s, a>>]
            k == [FreeHand EXCEPT !.pc = IF id = NoArticle THEN "insert" ELSE "link",
                                  !.article = a, !.other = id, !.source = s]
<1>1. /\ UNCHANGED <<canonical, merged, whole, byUrl, byEntry, links, saved, marked, crossed>>
      /\ Turn(h, k)
  BY DEF FindAlias
<1>2. <<s, a>> \in Sources \X Articles
  OBVIOUS
<1>3. /\ id \in Maybe
      /\ id # NoArticle => id \in Articles /\ byUrl[a] # NoArticle /\ byUrl[id] # NoArticle
  BY <1>2 DEF Aliased, MergeShaped, Maybe
<1>. HIDE DEF id
<1>4. /\ k \in Hand /\ k.pc = IF id = NoArticle THEN "insert" ELSE "link"
      /\ k.article = a /\ k.other = id /\ k.source = s
  BY <1>3 DEF FreeHand, Hand, Maybe
<1>. HIDE DEF k
<1>5. HandHolds(k, byUrl, merged, whole) /\ ~Drains(k)
  BY <1>3, <1>4 DEF HandHolds, Drains
<1>6. MergeShaped'
  BY <1>1, <1>4 DEF MergeShaped, Turn
<1>. QED BY <1>1, <1>4, <1>5, <1>6, Turned

LEMMA InsertArticleStep ==
  ASSUME MergeInv, NEW h \in Hands, InsertArticle(h) PROVE MergeInv'
<1>. USE MergeParts
<1>. DEFINE a == hand[h].article
            k == [hand[h] EXCEPT !.pc = "link", !.other = a]
<1>1. /\ UNCHANGED <<canonical, merged, whole, byUrl, byEntry, links, saved, marked, crossed>>
      /\ Turn(h, k) /\ hand[h].pc = "insert"
  BY DEF InsertArticle, Holding
<1>2. a \in Articles /\ hand[h].source \in Sources
  BY <1>1 DEF HandHolds
<1>3. k \in Hand /\ k.pc = "link" /\ k.article = a /\ k.other = a /\ k.source \in Sources
  BY <1>2 DEF Hand, Maybe
<1>. HIDE DEF k, a
<1>4. HandHolds(k, byUrl, merged, whole) /\ ~Drains(k)
  BY <1>2, <1>3 DEF HandHolds, Drains
<1>5. MergeShaped'
  BY <1>1, <1>3 DEF MergeShaped, Turn
<1>. QED BY <1>1, <1>3, <1>4, <1>5, Turned

LEMMA LinkArticleStep ==
  ASSUME MergeInv, NEW h \in Hands, LinkArticle(h) PROVE MergeInv'
<1>. USE MergeParts
<1>. DEFINE a == hand[h].article
            s == hand[h].source
            key == <<s, a>>
            id == hand[h].other
<1>1. /\ UNCHANGED <<canonical, merged, whole, saved, marked, crossed>> /\ hand[h].pc = "link"
      /\ byEntry' = [byEntry EXCEPT ![key] = IF byEntry[key] = NoArticle THEN id ELSE byEntry[key]]
      /\ byUrl' = [byUrl EXCEPT ![a] = IF byUrl[a] = NoArticle THEN id ELSE byUrl[a]]
      /\ links' = links \cup {<<s, id>>} /\ Turn(h, FreeHand)
  BY DEF LinkArticle, Holding
<1>2. /\ a \in Articles /\ s \in Sources /\ id \in Articles
      /\ id = a \/ (byUrl[a] # NoArticle /\ byUrl[id] # NoArticle)
  BY <1>1 DEF HandHolds
<1>. HIDE DEF a, s, id
<1>3. \A x \in Articles : byUrl'[x] = IF x = a /\ byUrl[a] = NoArticle THEN a ELSE byUrl[x]
  BY <1>1, <1>2 DEF MergeShaped
<1>4. key \in Sources \X Articles
  BY <1>2
<1>5. \A e \in Sources \X Articles :
        byEntry'[e] = IF e = key /\ byEntry[key] = NoArticle THEN id ELSE byEntry[e]
  BY <1>1, <1>4 DEF MergeShaped
<1>6. byUrl' \in [Articles -> Maybe] /\ byEntry' \in [Sources \X Articles -> Maybe]
  <2>1. byUrl' \in [Articles -> Maybe]
    BY <1>1, <1>2 DEF MergeShaped, Maybe
  <2>2. byEntry' \in [Sources \X Articles -> Maybe]
    BY <1>1, <1>2, <1>4 DEF MergeShaped, Maybe
  <2>. QED BY <2>1, <2>2
<1>7. /\ \A x \in Articles : byUrl[x] # NoArticle => byUrl'[x] = byUrl[x]
      /\ byUrl'[a] # NoArticle /\ byUrl'[id] # NoArticle
  BY <1>2, <1>3
<1>8. Leads(byUrl', merged, whole, crossed)
  <2>1. ASSUME NEW b \in Articles, byUrl'[b] # NoArticle
        PROVE  /\ byUrl'[byUrl'[b]] # NoArticle /\ (byUrl'[b] = b \/ byUrl'[b] \in whole)
               /\ b \notin crossed => byUrl'[b] \notin merged
    <3>1. CASE byUrl[b] # NoArticle
      <4>1. byUrl[b] \in Articles
        BY <3>1 DEF MergeShaped, Maybe
      <4>. QED BY <1>7, <3>1, <4>1 DEF Leads
    <3>2. CASE byUrl[b] = NoArticle
      <4>1. b = a /\ byUrl'[b] = a
        BY <1>3, <2>1, <3>2
      <4>2. a \notin merged
        BY <3>2, <4>1 DEF Leads
      <4>. QED BY <1>7, <4>1, <4>2
    <3>. QED BY <3>1, <3>2
  <2>2. \A b \in merged : byUrl'[b] # NoArticle
    BY <1>7 DEF Leads, MergeShaped
  <2>. QED BY <2>1, <2>2 DEF Leads
<1>9. Aliased(byUrl', byEntry', links', saved, marked, crossed)
  <2>1. ASSUME NEW e \in Sources \X Articles, byEntry'[e] # NoArticle
        PROVE  byUrl'[e[2]] # NoArticle /\ byUrl'[byEntry'[e]] # NoArticle
    <3>1. CASE e = key /\ byEntry[key] = NoArticle
      BY <1>5, <1>7, <3>1
    <3>2. CASE ~(e = key /\ byEntry[key] = NoArticle)
      <4>1. byEntry'[e] = byEntry[e]
        BY <1>5, <3>2
      <4>2. byEntry[e] \in Articles /\ e[2] \in Articles
        BY <2>1, <4>1 DEF MergeShaped, Maybe
      <4>. QED BY <1>7, <2>1, <4>1, <4>2 DEF Aliased
    <3>. QED BY <3>1, <3>2
  <2>2. \A l \in links' : byUrl'[l[2]] # NoArticle
    BY <1>1, <1>7 DEF Aliased, MergeShaped
  <2>3. \A b \in marked : byUrl'[b] # NoArticle /\ (b \notin crossed => byUrl'[b] \in saved)
    BY <1>7 DEF Aliased, MergeShaped
  <2>. QED BY <2>1, <2>2, <2>3 DEF Aliased
<1>10. MergeShaped'
  BY <1>1, <1>2, <1>6, FreeHolds DEF MergeShaped, Turn
<1>. QED BY <1>1, <1>7, <1>8, <1>9, <1>10, FreeHolds, Turned

LEMMA OpenArticleStep ==
  ASSUME MergeInv, NEW h \in Hands, NEW a \in Articles, OpenArticle(h, a)
  PROVE  MergeInv'
<1>. USE MergeParts
<1>. DEFINE k == [FreeHand EXCEPT !.pc = "mark", !.article = a, !.other = Resolved(a)]
<1>1. /\ UNCHANGED <<canonical, merged, whole, byUrl, byEntry, links, saved, marked, crossed>>
      /\ Turn(h, k) /\ \E s \in Sources : <<s, Resolved(a)>> \in links
  BY DEF OpenArticle
<1>2. byUrl[Resolved(a)] # NoArticle
  BY <1>1 DEF Aliased
<1>3. byUrl[a] # NoArticle /\ Resolved(a) = byUrl[a] /\ Resolved(a) \in Articles
  BY <1>2 DEF Resolved, MergeShaped, Maybe
<1>4. k \in Hand /\ k.pc = "mark" /\ k.article = a /\ k.other = byUrl[a]
  BY <1>3 DEF FreeHand, Hand, Maybe
<1>. HIDE DEF k
<1>5. HandHolds(k, byUrl, merged, whole) /\ ~Drains(k)
  BY <1>3, <1>4 DEF HandHolds, Drains
<1>6. MergeShaped'
  BY <1>1, <1>4 DEF MergeShaped, Turn
<1>. QED BY <1>1, <1>4, <1>5, <1>6, Turned

LEMMA SaveStep ==
  ASSUME MergeInv, NEW h \in Hands, Save(h) PROVE MergeInv'
<1>. USE MergeParts
<1>1. /\ UNCHANGED <<canonical, merged, whole, byUrl, byEntry, links>> /\ hand[h].pc = "mark"
      /\ saved' = saved \cup {hand[h].other} /\ marked' = marked \cup {hand[h].article}
      /\ crossed' = IF hand[h].other \in merged THEN crossed \cup {hand[h].article} ELSE crossed
      /\ Turn(h, FreeHand)
  BY DEF Save, Holding
<1>2. /\ hand[h].article \in Articles /\ byUrl[hand[h].article] # NoArticle
      /\ hand[h].other = byUrl[hand[h].article] \/ hand[h].other \in merged
      /\ hand[h].other \in Maybe
  BY <1>1 DEF HandHolds, Hand
<1>3. Aliased(byUrl, byEntry, links, saved', marked', crossed')
  BY <1>1, <1>2 DEF Aliased
<1>5. Leads(byUrl, merged, whole, crossed')
  BY <1>1 DEF Leads
<1>4. MergeShaped'
  BY <1>1, <1>2, FreeHolds DEF MergeShaped, Turn
<1>. QED BY <1>1, <1>3, <1>4, <1>5, FreeHolds, Turned

LEMMA MergeInitHolds ==
  ASSUME MergeInit PROVE MergeInv
<1>1. \A h \in Hands : hand[h] = FreeHand
  BY DEF MergeInit
<1>2. MergeShaped
  BY FreeHolds DEF MergeInit, MergeShaped, Maybe
<1>3. Leads(byUrl, merged, whole, crossed) /\ Aliased(byUrl, byEntry, links, saved, marked, crossed)
  BY DEF MergeInit, Leads, Aliased
<1>4. LeasesApart
  BY <1>1, FreeHolds DEF LeasesApart
<1>. QED BY <1>1, <1>2, <1>3, <1>4, FreeHolds DEF MergeInv

LEMMA ArticlesMergeStep ==
  ASSUME MergeInv, [MergeNext]_mergeVars PROVE MergeInv'
<1>1. CASE UNCHANGED mergeVars
  BY <1>1 DEF mergeVars, MergeInv, MergeShaped, Leads, Aliased, HandHolds, Drains, LeasesApart
<1>2. CASE MergeNext
  BY <1>2, FindDirectStep, MakeAliasStep, ReadTargetStep, MoveStep, FindAliasStep,
     InsertArticleStep, LinkArticleStep, OpenArticleStep, SaveStep DEF MergeNext
<1>. QED BY <1>1, <1>2

LEMMA MergeInvSaves ==
  ASSUME MergeInv PROVE SavedMoves
<1>. USE MergeParts
<1>1. ASSUME NEW a \in merged \ crossed
      PROVE  Resolved(a) \notin merged /\ Resolved(a) \in whole
  BY DEF Leads, Resolved, MergeShaped
<1>2. \A a \in marked \ crossed : Resolved(a) \in saved
  BY DEF Aliased, Resolved
<1>. QED BY <1>1, <1>2 DEF SavedMoves, OldIdsResolve

\* "All source links and personal state move" (rss.ts:684): through any chain of merges
\* of any articles of any sources by any number of invocations at a time, the id of a
\* merged article leads to one that is not merged and has the text, and what the reader
\* saved under an id is saved where the id leads; but the ids that crossed, which a
\* merge or a page has led to an article another merge had left since it was read.
THEOREM SavedAlwaysMoves == MergeSpec => []SavedMoves
<1>1. MergeInit => MergeInv
  BY MergeInitHolds
<1>2. MergeInv /\ [MergeNext]_mergeVars => MergeInv'
  BY ArticlesMergeStep
<1>3. MergeInv => SavedMoves
  BY MergeInvSaves
<1>. QED BY <1>1, <1>2, <1>3, PTL DEF MergeSpec

-----------------------------------------------------------------------------
(* The types of the merge *)

\* What every step of a merge keeps of its values: aliases are of articles with a row,
\* and an invocation works on what its program point needs.
HandFits(k, names, rows, alias) ==
  /\ k.pc # "free" => k.article \in Articles
  /\ k.pc \in {"alias", "target", "move", "mark"} => k.article \in rows
  /\ k.pc \in {"alias", "move", "link", "mark"} => k.other \in rows
  /\ k.pc \in {"insert", "link"} => k.source \in Sources
  /\ k.pc \in {"alias", "target", "move"} => names[k.article] \in Articles
  /\ k.pc = "target" => alias[names[k.article]] \in Articles
HandNamed(k) == HandFits(k, canonical, known, byUrl)
MergeTyped ==
  /\ MergeTypeOK
  /\ \A a \in Articles : byUrl[a] # NoArticle => byUrl[a] \in known
  /\ \A k \in Sources \X Articles : byEntry[k] # NoArticle => byEntry[k] \in known
  /\ \A h \in Hands : HandNamed(hand[h])

LEMMA FreeHandTyped == FreeHand \in Hand /\ HandNamed(FreeHand)
BY DEF FreeHand, Hand, HandNamed, HandFits, Maybe

\* Invocations other than the one that moves find rows and aliases where they were.
LEMMA TurnTyped ==
  ASSUME MergeTyped, NEW h \in Hands, NEW k \in Hand, Turn(h, k), HandFits(k, canonical', known', byUrl'),
         UNCHANGED canonical, known \subseteq known',
         \A a \in Articles : byUrl[a] \in Articles => byUrl'[a] \in Articles
  PROVE  hand' \in [Hands -> Hand] /\ \A g \in Hands : HandFits(hand'[g], canonical', known', byUrl')
<1>1. hand \in [Hands -> Hand] /\ \A g \in Hands : HandNamed(hand[g])
  BY DEF MergeTyped, MergeTypeOK
<1>2. hand' = [hand EXCEPT ![h] = k]
  BY DEF Turn
<1>3. ASSUME NEW g \in Hands, g # h PROVE HandFits(hand'[g], canonical', known', byUrl')
  BY <1>1, <1>2, <1>3 DEF HandNamed, HandFits
<1>4. hand'[h] = k
  BY <1>1, <1>2
<1>5. HandFits(hand'[h], canonical', known', byUrl')
  BY <1>4 DEF HandNamed, HandFits
<1>. QED BY <1>1, <1>2, <1>3, <1>5

LEMMA MergeInitTyped == MergeInit => MergeTyped
<1>. SUFFICES ASSUME MergeInit PROVE MergeTyped
  OBVIOUS
<1>1. mergeSteps \in 0 .. MaxMergeSteps
  BY RssMergeAssumption DEF MergeInit
<1>2. hand \in [Hands -> Hand] /\ \A h \in Hands : HandNamed(hand[h])
  <2>1. hand = [h \in Hands |-> FreeHand]
    BY DEF MergeInit
  <2>. QED BY <2>1, FreeHandTyped
<1>. QED BY <1>1, <1>2 DEF MergeInit, MergeTyped, MergeTypeOK, Maybe

LEMMA MergeStepTyped == MergeTyped /\ [MergeNext]_mergeVars => MergeTyped'
<1>. SUFFICES ASSUME MergeTyped, [MergeNext]_mergeVars PROVE MergeTyped'
  OBVIOUS
<1>0. /\ canonical \in [Articles -> Maybe]
      /\ known \subseteq Articles /\ merged \subseteq known /\ whole \subseteq known
      /\ byUrl \in [Articles -> Maybe] /\ byEntry \in [Sources \X Articles -> Maybe]
      /\ links \subseteq Sources \X known
      /\ saved \subseteq known /\ marked \subseteq known /\ crossed \subseteq Articles
      /\ hand \in [Hands -> Hand] /\ mergeSteps \in 0 .. MaxMergeSteps
      /\ NoArticle \notin Articles /\ MaxMergeSteps \in Nat
      /\ \A a \in Articles : byUrl[a] # NoArticle => byUrl[a] \in known
      /\ \A k \in Sources \X Articles : byEntry[k] # NoArticle => byEntry[k] \in known
      /\ \A h \in Hands : hand[h] \in Hand /\ HandNamed(hand[h])
  BY RssMergeAssumption DEF MergeTyped, MergeTypeOK
<1>1. ASSUME Begin PROVE mergeSteps' \in 0 .. MaxMergeSteps
  BY <1>0, <1>1 DEF Begin
<1>2. ASSUME NEW h \in Hands, NEW a \in Articles, FindDirect(h, a) PROVE MergeTyped'
  <2>. DEFINE k == [FreeHand EXCEPT !.pc = "alias", !.article = a,
                      !.other = IF canonical[a] \in known \ merged THEN canonical[a] ELSE a]
  <2>1. a \in known /\ canonical[a] \in Articles
    BY <1>0, <1>2 DEF FindDirect, Maybe
  <2>2. /\ UNCHANGED <<canonical, known, merged, byUrl, byEntry, links, saved, marked, crossed>>
        /\ whole' = whole \cup {a} /\ Turn(h, k) /\ mergeSteps' \in 0 .. MaxMergeSteps
    BY <1>1, <1>2 DEF FindDirect
  <2>3. k \in Hand /\ k.article = a /\ k.other \in known /\ k.pc = "alias"
    BY <2>1 DEF FreeHand, Hand, Maybe
  <2>. HIDE DEF k
  <2>4. HandFits(k, canonical', known', byUrl')
    BY <1>0, <2>1, <2>2, <2>3 DEF HandNamed, HandFits
  <2>. QED BY <1>0, <2>1, <2>2, <2>3, <2>4, TurnTyped DEF MergeTyped, MergeTypeOK, HandNamed
<1>3. ASSUME NEW h \in Hands, MakeAlias(h) PROVE MergeTyped'
  <2>. DEFINE k == [hand[h] EXCEPT !.pc = "target", !.other = NoArticle]
              url == canonical[hand[h].article]
  <2>1. hand[h].article \in known /\ hand[h].other \in known /\ url \in Articles
    BY <1>0, <1>3 DEF MakeAlias, Holding, HandNamed, HandFits
  <2>2. /\ UNCHANGED <<canonical, known, merged, whole, byEntry, links, saved, marked, crossed, mergeSteps>>
        /\ byUrl' = [byUrl EXCEPT ![url] = IF @ = NoArticle THEN hand[h].other ELSE @]
        /\ Turn(h, k)
    BY <1>3 DEF MakeAlias
  <2>3. byUrl' \in [Articles -> Maybe] /\ byUrl'[url] \in known
    BY <1>0, <2>1, <2>2 DEF Maybe
  <2>4. \A a \in Articles : /\ byUrl'[a] # NoArticle => byUrl'[a] \in known
                            /\ byUrl[a] \in Articles => byUrl'[a] \in Articles
    BY <1>0, <2>1, <2>2
  <2>5. k \in Hand /\ k.article = hand[h].article /\ k.pc = "target"
    BY <1>0, <2>1 DEF Hand, Maybe
  <2>. HIDE DEF k
  <2>6. HandFits(k, canonical', known', byUrl')
    BY <1>0, <2>1, <2>2, <2>3, <2>5 DEF HandNamed, HandFits
  <2>. QED BY <1>0, <2>2, <2>3, <2>4, <2>5, <2>6, TurnTyped DEF MergeTyped, MergeTypeOK, HandNamed
<1>4. ASSUME NEW h \in Hands, ReadTarget(h) PROVE MergeTyped'
  <2>. DEFINE target == byUrl[canonical[hand[h].article]]
              k == [hand[h] EXCEPT !.pc = "move", !.other = target]
  <2>1. /\ hand[h].article \in known /\ canonical[hand[h].article] \in Articles
        /\ target \in known
    BY <1>0, <1>4 DEF ReadTarget, Holding, HandNamed, HandFits
  <2>2. /\ UNCHANGED <<canonical, known, merged, whole, byUrl, byEntry, links, saved, marked, crossed, mergeSteps>>
        /\ Turn(h, FreeHand) \/ Turn(h, k)
    BY <1>4 DEF ReadTarget
  <2>3. k \in Hand /\ k.article = hand[h].article /\ k.pc = "move" /\ k.other \in known
    BY <1>0, <2>1 DEF Hand, Maybe
  <2>. HIDE DEF k
  <2>4. HandFits(k, canonical', known', byUrl') /\ HandFits(FreeHand, canonical', known', byUrl')
    BY <1>0, <2>1, <2>2, <2>3 DEF HandNamed, HandFits, FreeHand
  <2>. QED BY <1>0, <2>2, <2>3, <2>4, FreeHandTyped, TurnTyped DEF MergeTyped, MergeTypeOK, HandNamed
<1>5. ASSUME NEW h \in Hands, Move(h) PROVE MergeTyped'
  <2>. DEFINE a == hand[h].article
              target == hand[h].other
  <2>1. a \in known /\ target \in known /\ target # NoArticle
    BY <1>0, <1>5 DEF Move, Holding, HandNamed, HandFits
  <2>2. /\ UNCHANGED <<canonical, known, marked, mergeSteps>>
        /\ whole' \subseteq whole \cup {target}
        /\ links' = {l \in links : l[2] # a} \cup {<<l[1], target>> : l \in {k \in links : k[2] = a}}
        /\ saved' \subseteq saved \cup {target}
        /\ byUrl' = Redirected(byUrl, a, target) /\ byEntry' = Redirected(byEntry, a, target)
        /\ merged' = merged \cup {a} /\ Turn(h, FreeHand)
        /\ crossed' \subseteq crossed \cup Articles
    BY <1>5 DEF Move, Astray
  <2>3. byUrl' \in [Articles -> Maybe] /\ byEntry' \in [Sources \X Articles -> Maybe]
    BY <1>0, <2>1, <2>2 DEF Redirected, Maybe
  <2>4. \A b \in Articles : /\ byUrl'[b] # NoArticle => byUrl'[b] \in known
                            /\ byUrl[b] \in Articles => byUrl'[b] \in Articles
    BY <1>0, <2>1, <2>2 DEF Redirected
  <2>5. \A k \in Sources \X Articles : byEntry'[k] # NoArticle => byEntry'[k] \in known
    BY <1>0, <2>1, <2>2 DEF Redirected
  <2>6. links' \subseteq Sources \X known
    BY <1>0, <2>1, <2>2
  <2>7. HandFits(FreeHand, canonical', known', byUrl')
    BY DEF HandNamed, HandFits, FreeHand
  <2>8. hand' \in [Hands -> Hand] /\ \A g \in Hands : HandFits(hand'[g], canonical', known', byUrl')
    BY <2>2, <2>4, <2>7, FreeHandTyped, TurnTyped
  <2>. QED BY <1>0, <2>1, <2>2, <2>3, <2>4, <2>5, <2>6, <2>8 DEF MergeTyped, MergeTypeOK, HandNamed
<1>6. ASSUME NEW h \in Hands, NEW s \in Sources, NEW a \in Articles, FindAlias(h, s, a)
      PROVE  MergeTyped'
  <2>. DEFINE id == byEntry[<<s, a>>]
              k == [FreeHand EXCEPT !.pc = IF id = NoArticle THEN "insert" ELSE "link",
                                    !.article = a, !.other = id, !.source = s]
  <2>1. id \in Maybe /\ (id # NoArticle => id \in known)
    BY <1>0
  <2>2. /\ UNCHANGED <<canonical, known, merged, whole, byUrl, byEntry, links, saved, marked, crossed>>
        /\ Turn(h, k) /\ mergeSteps' \in 0 .. MaxMergeSteps
    BY <1>1, <1>6 DEF FindAlias
  <2>3. /\ k \in Hand /\ k.article = a /\ k.source = s /\ k.pc \in {"insert", "link"}
        /\ k.pc = "link" => k.other \in known
    BY <2>1 DEF FreeHand, Hand, Maybe
  <2>. HIDE DEF k
  <2>4. HandFits(k, canonical', known', byUrl')
    BY <2>2, <2>3 DEF HandNamed, HandFits
  <2>. QED BY <1>0, <2>2, <2>3, <2>4, TurnTyped DEF MergeTyped, MergeTypeOK, HandNamed
<1>7. ASSUME NEW h \in Hands, InsertArticle(h) PROVE MergeTyped'
  <2>. DEFINE a == hand[h].article
              k == [hand[h] EXCEPT !.pc = "link", !.other = a]
  <2>1. a \in Articles /\ hand[h].source \in Sources
    BY <1>0, <1>7 DEF InsertArticle, Holding, HandNamed, HandFits
  <2>2. /\ UNCHANGED <<canonical, merged, whole, byUrl, byEntry, links, saved, marked, crossed, mergeSteps>>
        /\ known' = known \cup {a} /\ Turn(h, k)
    BY <1>7 DEF InsertArticle
  <2>3. /\ k \in Hand /\ k.article = a /\ k.source = hand[h].source /\ k.pc = "link" /\ k.other = a
    BY <1>0, <2>1 DEF Hand, Maybe
  <2>. HIDE DEF k
  <2>4. HandFits(k, canonical', known', byUrl')
    BY <2>1, <2>2, <2>3 DEF HandNamed, HandFits
  <2>5. hand' \in [Hands -> Hand] /\ \A g \in Hands : HandFits(hand'[g], canonical', known', byUrl')
    BY <1>0, <2>2, <2>3, <2>4, TurnTyped
  <2>. QED BY <1>0, <2>1, <2>2, <2>5 DEF MergeTyped, MergeTypeOK, HandNamed
<1>8. ASSUME NEW h \in Hands, LinkArticle(h) PROVE MergeTyped'
  <2>. DEFINE a == hand[h].article
              id == hand[h].other
              key == <<hand[h].source, a>>
  <2>1. a \in Articles /\ hand[h].source \in Sources /\ id \in known
    BY <1>0, <1>8 DEF LinkArticle, Holding, HandNamed, HandFits
  <2>2. /\ UNCHANGED <<canonical, known, merged, whole, saved, marked, crossed, mergeSteps>>
        /\ byEntry' = [byEntry EXCEPT ![key] = IF @ = NoArticle THEN id ELSE @]
        /\ byUrl' = [byUrl EXCEPT ![a] = IF @ = NoArticle THEN id ELSE @]
        /\ links' = links \cup {<<hand[h].source, id>>}
        /\ Turn(h, FreeHand)
    BY <1>8 DEF LinkArticle
  <2>3. byUrl' \in [Articles -> Maybe] /\ byEntry' \in [Sources \X Articles -> Maybe]
    BY <1>0, <2>1, <2>2 DEF Maybe
  <2>4. \A b \in Articles : /\ byUrl'[b] # NoArticle => byUrl'[b] \in known
                            /\ byUrl[b] \in Articles => byUrl'[b] \in Articles
    BY <1>0, <2>1, <2>2
  <2>5. \A k \in Sources \X Articles : byEntry'[k] # NoArticle => byEntry'[k] \in known
    BY <1>0, <2>1, <2>2
  <2>6. HandFits(FreeHand, canonical', known', byUrl')
    BY DEF HandNamed, HandFits, FreeHand
  <2>7. hand' \in [Hands -> Hand] /\ \A g \in Hands : HandFits(hand'[g], canonical', known', byUrl')
    BY <2>2, <2>4, <2>6, FreeHandTyped, TurnTyped
  <2>8. links' \subseteq Sources \X known
    BY <1>0, <2>1, <2>2
  <2>9. MergeTypeOK'
    BY <1>0, <2>2, <2>3, <2>7, <2>8 DEF MergeTypeOK
  <2>. HIDE DEF key
  <2>. QED BY <2>2, <2>4, <2>5, <2>7, <2>9 DEF MergeTyped, HandNamed
<1>9. ASSUME NEW h \in Hands, NEW a \in Articles, OpenArticle(h, a) PROVE MergeTyped'
  <2>. DEFINE k == [FreeHand EXCEPT !.pc = "mark", !.article = a, !.other = Resolved(a)]
  <2>1. a \in known /\ Resolved(a) \in known
    BY <1>0, <1>9 DEF OpenArticle, Resolved
  <2>2. /\ UNCHANGED <<canonical, known, merged, whole, byUrl, byEntry, links, saved, marked, crossed>>
        /\ Turn(h, k) /\ mergeSteps' \in 0 .. MaxMergeSteps
    BY <1>1, <1>9 DEF OpenArticle
  <2>3. k \in Hand /\ k.article = a /\ k.pc = "mark" /\ k.other \in known
    BY <1>0, <2>1 DEF FreeHand, Hand, Maybe
  <2>. HIDE DEF k
  <2>4. HandFits(k, canonical', known', byUrl')
    BY <2>1, <2>2, <2>3 DEF HandNamed, HandFits
  <2>. QED BY <1>0, <2>2, <2>3, <2>4, TurnTyped DEF MergeTyped, MergeTypeOK, HandNamed
<1>10. ASSUME NEW h \in Hands, Save(h) PROVE MergeTyped'
  <2>1. hand[h].article \in known /\ hand[h].other \in known
    BY <1>0, <1>10 DEF Save, Holding, HandNamed, HandFits
  <2>2. HandFits(FreeHand, canonical', known', byUrl')
    BY DEF HandNamed, HandFits, FreeHand
  <2>3. hand' \in [Hands -> Hand] /\ \A g \in Hands : HandFits(hand'[g], canonical', known', byUrl')
    BY <1>10, <2>2, FreeHandTyped, TurnTyped DEF Save
  <2>. QED BY <1>0, <1>10, <2>1, <2>3 DEF Save, MergeTyped, MergeTypeOK, HandNamed
<1>11. CASE UNCHANGED mergeVars
  BY <1>0, <1>11 DEF mergeVars, MergeTyped, MergeTypeOK, HandNamed, HandFits
<1>. QED BY <1>2, <1>3, <1>4, <1>5, <1>6, <1>7, <1>8, <1>9, <1>10, <1>11 DEF MergeNext

\* Every reachable state of the merging of articles is well typed, with any number of
\* invocations: an alias leads to an article that has a row, and so does a merge that
\* has read its target.
THEOREM MergeTypeCorrect == MergeSpec => []MergeTypeOK
<1>1. MergeTyped => MergeTypeOK
  BY DEF MergeTyped
<1>. QED BY <1>1, MergeInitTyped, MergeStepTyped, PTL DEF MergeSpec

-----------------------------------------------------------------------------
(* The build of the graph *)

\* The cached graph is of these chunks.
FreshFor(stored, set) == stored.build # 0 /\ Fingerprint(stored.of) = Fingerprint(set)

\* A table of a build in which some rows are still missing.
Filled(build, missing) ==
  [r \in BuildIds \X RowNumbers |-> IF r[1] = build /\ r[2] \notin missing THEN 1 ELSE 0]

\* The tables are those of the cached build.
WholeFor(tables, stored) ==
  \A t \in Tables : tables[t] =
    [r \in BuildIds \X RowNumbers |-> IF r[1] = stored.build /\ stored.of # {} THEN 1 ELSE 0]

Busy(k) == k.pc \in {"read", "clear", "fill", "cache"}

GraphShaped ==
  /\ chunk \in [ChunkIds -> {"unborn", "bare", "embedded", "gone"}]
  /\ table = [t \in Tables |-> table[t]]
  /\ cache \in [build: 0..MaxBuilds, of: SUBSET ChunkIds]
  /\ builder \in [Builders -> BuilderState]
  /\ begun \in SUBSET Builders /\ mixed \in BOOLEAN
  /\ builds \in 0..MaxBuilds

Formed(k) ==
  /\ k.pc = "waiting" => k.deliveries < MaxDeliveries
  /\ Busy(k) => k.build \in BuildIds
  /\ k.pc = "clear" => k.left # {}
  /\ k.pc = "fill" => k.left # {} /\ k.of # {} /\ k.rows # {}

\* A later build has read what an earlier one has, while no chunk is deleted.
Ordered(embedded, stored, turn, last) ==
  /\ stored.of \subseteq embedded
  /\ \A b \in Builders : Busy(turn[b]) =>
       /\ turn[b].of \subseteq embedded /\ turn[b].build <= last
       /\ stored.build <= turn[b].build => stored.of \subseteq turn[b].of
       /\ \A c \in Builders : Busy(turn[c]) /\ turn[c].build <= turn[b].build =>
            turn[c].of \subseteq turn[b].of

\* A build alone has written the tables since it emptied the first.
Wrote(k, tables) ==
  /\ k.pc = "clear" => \A t \in Tables \ k.left : tables[t] = Filled(k.build, RowNumbers)
  /\ k.pc = "fill" =>
       \A t \in Tables : tables[t] =
         Filled(k.build, IF t \notin k.left THEN {}
                         ELSE IF t = Slice(k.left) THEN k.rows ELSE RowNumbers)
  /\ k.pc = "cache" => WholeFor(tables, [build |-> k.build, of |-> k.of])

\* The cache is of fewer chunks.
Stale(stored, set) == stored.build = 0 \/ (stored.of \subseteq set /\ stored.of # set)

\* What holds of the builder that began to write the tables: unless a chunk is deleted,
\* it will find the cache old when its message comes back.
Owns(k, embedded, stored, tables, gone) ==
  /\ k.pc # "idle" /\ Wrote(k, tables)
  /\ ~k.force /\ gone = {} => Stale(stored, IF Busy(k) THEN k.of ELSE embedded)

GraphInv ==
  /\ GraphShaped
  /\ \A b \in Builders : Formed(builder[b])
  /\ Gone = {} => Ordered(Embedded, cache, builder, builds)
  /\ \A b \in begun : begun = {b} /\ ~mixed /\ Owns(builder[b], Embedded, cache, table, Gone)
  /\ begun = {} /\ ~mixed => WholeFor(table, cache)

\* Two sets of chunks with one fingerprint are one, if one has the other.
LEMMA FingerprintTells ==
  ASSUME NEW T \in SUBSET ChunkIds, NEW S \in SUBSET T, Fingerprint(S) = Fingerprint(T)
  PROVE  S = T
<1>1. IsFiniteSet(T) /\ IsFiniteSet(S)
  BY GraphAssumption, FS_Subset
<1>2. Cardinality(S) \in Nat /\ Cardinality(T) \in Nat
  BY <1>1, FS_CardinalityType
<1>3. S = {} <=> Cardinality(S) = 0
  BY <1>1, FS_EmptySet
<1>4. T = {} <=> Cardinality(T) = 0
  BY <1>1, FS_EmptySet
<1>5. Cardinality(S) = Cardinality(T)
  <2>1. Fingerprint(S)[1] = Fingerprint(T)[1]
    OBVIOUS
  <2>2. Fingerprint(S)[1] = Cardinality(S)
    BY <1>3 DEF Fingerprint
  <2>3. Fingerprint(T)[1] = Cardinality(T)
    BY <1>4 DEF Fingerprint
  <2>. QED BY <2>1, <2>2, <2>3
<1>. QED BY <1>1, <1>2, <1>5, FS_Subset

LEMMA StaleNotFresh ==
  ASSUME NEW c, NEW S \in SUBSET ChunkIds, Stale(c, S)
  PROVE  ~FreshFor(c, S)
<1>1. SUFFICES ASSUME FreshFor(c, S) PROVE FALSE
  OBVIOUS
<1>2. c.of \in SUBSET S /\ c.of # S /\ Fingerprint(c.of) = Fingerprint(S)
  BY <1>1 DEF Stale, FreshFor
<1>. QED BY <1>2, FingerprintTells

LEMMA IdleFormed ==
  IdleBuilder \in BuilderState /\ Formed(IdleBuilder) /\ IdleBuilder.pc = "idle"
BY GraphAssumption DEF IdleBuilder, BuilderState, Formed, Busy

LEMMA GraphParts ==
  ASSUME GraphInv
  PROVE  /\ GraphShaped /\ Embedded \subseteq ChunkIds
         /\ \A b \in Builders : builder[b] \in BuilderState /\ Formed(builder[b])
BY DEF GraphInv, GraphShaped, Embedded

\* A step that reads or adds no chunks keeps the order of the builds.
LEMMA OrderKept ==
  ASSUME GraphInv, NEW b \in Builders, NEW k,
         builder' = [builder EXCEPT ![b] = k], UNCHANGED <<chunk, cache, builds>>,
         Busy(k) => Busy(builder[b]) /\ k.of = builder[b].of /\ k.build = builder[b].build
  PROVE  /\ Embedded' = Embedded /\ Gone' = Gone
         /\ Gone = {} => Ordered(Embedded, cache, builder', builds)
<1>1. Embedded' = Embedded /\ Gone' = Gone
  BY DEF Embedded, Gone
<1>2. builder'[b] = k /\ \A c \in Builders \ {b} : builder'[c] = builder[c]
  BY DEF GraphInv, GraphShaped
<1>3. \A c \in Builders : Busy(builder'[c]) =>
        /\ Busy(builder[c]) /\ builder'[c].of = builder[c].of
        /\ builder'[c].build = builder[c].build
  BY <1>2
<1>4. ASSUME Gone = {} PROVE Ordered(Embedded, cache, builder', builds)
  <2>1. Ordered(Embedded, cache, builder, builds)
    BY <1>4 DEF GraphInv
  <2>. HIDE DEF Busy
  <2>. QED BY <1>3, <2>1 DEF Ordered
<1>. QED BY <1>1, <1>4

\* b does something else than write the tables: it goes on, or gives them up.
LEMMA Spared ==
  ASSUME GraphInv, NEW b \in Builders, NEW k \in BuilderState, Formed(k),
         builder' = [builder EXCEPT ![b] = k], UNCHANGED <<chunk, table, cache>>,
         builds' \in 0..MaxBuilds,
         Gone = {} => Ordered(Embedded, cache, builder', builds'),
         \/ /\ UNCHANGED <<begun, mixed>>
            /\ b \in begun => Owns(k, Embedded, cache, table, Gone)
         \/ GiveUp(b)
  PROVE  GraphInv'
<1>1. Embedded' = Embedded /\ Gone' = Gone /\ table' = table /\ cache' = cache
  BY DEF Embedded, Gone
<1>2. builder'[b] = k /\ \A c \in Builders \ {b} : builder'[c] = builder[c]
  BY DEF GraphInv, GraphShaped
<1>3. begun' \in SUBSET Builders /\ mixed' \in BOOLEAN
  BY DEF GraphInv, GraphShaped, GiveUp
<1>4. GraphShaped'
  BY <1>1, <1>3 DEF GraphInv, GraphShaped
<1>5. \A c \in Builders : Formed(builder'[c])
  BY <1>2 DEF GraphInv
<1>6. ASSUME NEW c \in begun'
      PROVE  begun' = {c} /\ ~mixed' /\ Owns(builder'[c], Embedded, cache, table, Gone)
  <2>1. c \in begun /\ begun = {c} /\ ~mixed /\ Owns(builder[c], Embedded, cache, table, Gone)
    BY <1>6 DEF GraphInv, GiveUp
  <2>2. CASE c = b
    BY <1>2, <1>6, <2>1, <2>2 DEF GiveUp
  <2>3. CASE c # b
    <3>1. c \in Builders
      BY <2>1 DEF GraphInv, GraphShaped
    <3>2. begun' = {c} /\ ~mixed'
      <4>1. CASE UNCHANGED <<begun, mixed>>
        BY <2>1, <4>1
      <4>2. CASE GiveUp(b)
        <5>1. begun' = begun \ {b} /\ mixed' = (mixed \/ b \in begun)
          BY <4>2 DEF GiveUp
        <5>2. b \notin begun
          BY <2>1, <2>3
        <5>. QED BY <2>1, <5>1, <5>2
      <4>. QED BY <4>1, <4>2
    <3>. QED BY <1>2, <2>1, <2>3, <3>1, <3>2
  <2>. QED BY <2>2, <2>3
<1>7. begun' = {} /\ ~mixed' => WholeFor(table, cache)
  BY DEF GraphInv, GiveUp
<1>8. /\ \A c \in begun' : begun' = {c} /\ ~mixed' /\
           Owns(builder'[c], Embedded', cache', table', Gone')
      /\ Gone' = {} => Ordered(Embedded', cache', builder', builds')
      /\ begun' = {} /\ ~mixed' => WholeFor(table', cache')
  BY <1>1, <1>6, <1>7
<1>. QED BY <1>4, <1>5, <1>8 DEF GraphInv, Formed, Ordered, Owns, Wrote, WholeFor, Busy, Stale

\* b writes the tables or the cache.
LEMMA RowsWritten ==
  ASSUME GraphInv, NEW b \in Builders, NEW k \in BuilderState, Formed(k),
         builder' = [builder EXCEPT ![b] = k], UNCHANGED <<chunk, builds>>,
         table' = [t \in Tables |-> table'[t]],
         cache' \in [build: 0..MaxBuilds, of: SUBSET ChunkIds],
         Gone = {} => Ordered(Embedded, cache', builder', builds),
         begun' \subseteq {b}, mixed' \in BOOLEAN,
         b \in begun' => ~mixed' /\ Owns(k, Embedded, cache', table', Gone),
         begun' = {} /\ ~mixed' => WholeFor(table', cache')
  PROVE  GraphInv'
<1>1. Embedded' = Embedded /\ Gone' = Gone
  BY DEF Embedded, Gone
<1>2. builder'[b] = k /\ \A c \in Builders \ {b} : builder'[c] = builder[c]
  BY DEF GraphInv, GraphShaped
<1>3. GraphShaped'
  BY DEF GraphInv, GraphShaped
<1>4. \A c \in Builders : Formed(builder'[c])
  BY <1>2 DEF GraphInv
<1>5. /\ \A c \in begun' : begun' = {c} /\ ~mixed' /\
           Owns(builder'[c], Embedded', cache', table', Gone')
      /\ Gone' = {} => Ordered(Embedded', cache', builder', builds')
      /\ begun' = {} /\ ~mixed' => WholeFor(table', cache')
  BY <1>1, <1>2
<1>. QED BY <1>3, <1>4, <1>5 DEF GraphInv, Formed, Ordered, Owns, Wrote, WholeFor, Busy, Stale

LEMMA SendBuildStep ==
  ASSUME GraphInv, NEW b \in Builders, NEW force \in BOOLEAN, SendBuild(b, force)
  PROVE  GraphInv'
<1>. USE GraphParts
<1>. DEFINE k == [IdleBuilder EXCEPT !.pc = "waiting", !.force = force]
<1>1. /\ builder' = [builder EXCEPT ![b] = k] /\ builder[b].pc = "idle"
      /\ UNCHANGED <<chunk, table, cache, begun, mixed, builds>>
  BY DEF SendBuild
<1>2. k \in BuilderState /\ k.pc = "waiting" /\ k.deliveries = 0
  BY IdleFormed DEF IdleBuilder, BuilderState
<1>. HIDE DEF k
<1>3. Formed(k) /\ ~Busy(k)
  BY <1>2, GraphAssumption DEF Formed, Busy
<1>4. Gone = {} => Ordered(Embedded, cache, builder', builds)
  BY <1>1, <1>3, OrderKept
<1>5. b \notin begun
  BY <1>1 DEF GraphInv, Owns
<1>6. builds' \in 0..MaxBuilds /\ builds' = builds
  BY <1>1 DEF GraphShaped
<1>. QED BY <1>1, <1>2, <1>3, <1>4, <1>5, <1>6, Spared

LEMMA ReadChunksStep ==
  ASSUME GraphInv, NEW b \in Builders, ReadChunks(b) PROVE GraphInv'
<1>. USE GraphParts
<1>. DEFINE old == builder[b]
            k == [old EXCEPT !.pc = "read", !.deliveries = old.deliveries + 1,
                             !.of = Embedded, !.build = builds + 1]
<1>1. /\ builder' = [builder EXCEPT ![b] = k] /\ old.pc = "waiting"
      /\ builds < MaxBuilds /\ builds' = builds + 1
      /\ UNCHANGED <<chunk, table, cache, begun, mixed>>
  BY DEF ReadChunks, GraphShaped
<1>2. old \in BuilderState /\ old.deliveries < MaxDeliveries
  BY <1>1 DEF Formed
<1>3. old.deliveries + 1 \in 0..MaxDeliveries /\ builds + 1 \in 0..MaxBuilds
      /\ builds + 1 \in BuildIds /\ builds \in Nat
  BY <1>1, <1>2, GraphAssumption DEF BuilderState, GraphShaped, BuildIds
<1>4. /\ k \in BuilderState /\ k.pc = "read" /\ k.of = Embedded /\ k.build = builds + 1
      /\ k.force = old.force
  BY <1>2, <1>3 DEF BuilderState
<1>. HIDE DEF k
<1>5. Formed(k) /\ Busy(k)
  BY <1>3, <1>4 DEF Formed, Busy
<1>6. builder'[b] = k /\ \A c \in Builders \ {b} : builder'[c] = builder[c]
  BY <1>1 DEF GraphShaped
<1>7. ASSUME Gone = {} PROVE Ordered(Embedded, cache, builder', builds')
  <2>1. Ordered(Embedded, cache, builder, builds)
    BY <1>7 DEF GraphInv
  <2>2. \A c \in Builders : Busy(builder'[c]) =>
          builder'[c].of \subseteq Embedded /\ builder'[c].build <= builds + 1
    <3>1. ASSUME NEW c \in Builders \ {b}, Busy(builder[c])
          PROVE  builder[c].of \subseteq Embedded /\ builder[c].build <= builds + 1
      <4>1. builder[c].build \in Nat /\ builder[c].build <= builds
        BY <2>1, <3>1 DEF Ordered, BuilderState
      <4>. QED BY <1>3, <2>1, <3>1, <4>1 DEF Ordered
    <3>. QED BY <1>3, <1>4, <1>6, <3>1
  <2>3. ASSUME NEW c \in Builders \ {b}, Busy(builder[c])
        PROVE  ~(builds + 1 <= builder[c].build)
    <3>1. builder[c].build \in Nat /\ builder[c].build <= builds
      BY <2>1, <2>3 DEF Ordered, BuilderState
    <3>. QED BY <1>3, <3>1
  <2>4. ASSUME NEW c \in Builders, Busy(builder'[c])
        PROVE  /\ cache.build <= builder'[c].build => cache.of \subseteq builder'[c].of
               /\ \A d \in Builders : Busy(builder'[d]) /\ builder'[d].build <= builder'[c].build =>
                    builder'[d].of \subseteq builder'[c].of
    <3>1. CASE c = b
      BY <1>4, <1>6, <2>1, <2>2, <3>1 DEF Ordered
    <3>2. CASE c # b
      <4>1. Busy(builder[c]) /\ builder'[c] = builder[c]
        BY <1>6, <2>4, <3>2
      <4>2. ASSUME NEW d \in Builders, Busy(builder'[d]), builder'[d].build <= builder'[c].build
            PROVE  builder'[d].of \subseteq builder'[c].of
        <5>1. d # b
          BY <1>4, <1>6, <2>3, <3>2, <4>1, <4>2
        <5>2. builder'[d] = builder[d]
          BY <1>6, <5>1
        <5>. QED BY <2>1, <4>1, <4>2, <5>2 DEF Ordered
      <4>. QED BY <2>1, <4>1, <4>2 DEF Ordered
    <3>. QED BY <3>1, <3>2
  <2>. QED BY <1>1, <2>1, <2>2, <2>4 DEF Ordered
<1>8. ASSUME b \in begun PROVE Owns(k, Embedded, cache, table, Gone)
  <2>1. Owns(old, Embedded, cache, table, Gone)
    BY <1>8 DEF GraphInv
  <2>. QED BY <1>1, <1>4, <2>1 DEF Owns, Wrote, Busy
<1>9. builds' \in 0..MaxBuilds
  BY <1>1, <1>3
<1>. QED BY <1>1, <1>4, <1>5, <1>7, <1>8, <1>9, Spared

LEMMA CheckCacheStep ==
  ASSUME GraphInv, NEW b \in Builders, CheckCache(b) PROVE GraphInv'
<1>. USE GraphParts
<1>. DEFINE old == builder[b]
            begins == [old EXCEPT !.pc = "clear", !.left = Tables]
            stop == ~old.force /\ CacheIsFresh(old.of)
            k == IF stop THEN IdleBuilder ELSE begins
<1>1. /\ builder' = [builder EXCEPT ![b] = k] /\ old.pc = "read"
      /\ IF stop /\ Gone # {} THEN GiveUp(b) ELSE UNCHANGED <<begun, mixed>>
      /\ UNCHANGED <<chunk, table, cache, builds>>
  BY DEF CheckCache
<1>2. stop <=> (~old.force /\ FreshFor(cache, old.of))
  BY DEF CacheIsFresh, FreshFor
<1>3. old \in BuilderState /\ old.build \in BuildIds /\ Busy(old) /\ old.of \in SUBSET ChunkIds
  BY <1>1 DEF Formed, Busy, BuilderState
<1>4. /\ begins \in BuilderState /\ begins.pc = "clear" /\ begins.of = old.of
      /\ begins.build = old.build /\ begins.force = old.force /\ begins.left = Tables
  BY <1>3 DEF BuilderState
<1>. HIDE DEF begins, stop
<1>5. Formed(begins) /\ Busy(begins)
  BY <1>3, <1>4 DEF Formed, Busy, Tables
<1>6. /\ k \in BuilderState /\ Formed(k)
      /\ Busy(k) => k.of = old.of /\ k.build = old.build
  BY <1>4, <1>5, IdleFormed DEF Busy
<1>7. ASSUME b \in begun, ~(stop /\ Gone # {}) PROVE Owns(k, Embedded, cache, table, Gone)
  <2>1. Owns(old, Embedded, cache, table, Gone)
    BY <1>7 DEF GraphInv
  <2>2. ~stop
    <3>1. SUFFICES ASSUME stop PROVE FALSE
      OBVIOUS
    <3>2. Stale(cache, old.of)
      BY <1>2, <1>3, <1>7, <2>1, <3>1 DEF Owns
    <3>. QED BY <1>2, <1>3, <3>1, <3>2, StaleNotFresh
  <2>3. Wrote(begins, table)
    BY <1>4 DEF Wrote, Tables
  <2>. QED BY <1>3, <1>4, <1>5, <2>1, <2>2, <2>3 DEF Owns
<1>. HIDE DEF k
<1>8. Gone = {} => Ordered(Embedded, cache, builder', builds)
  BY <1>1, <1>3, <1>6, OrderKept
<1>9. builds' \in 0..MaxBuilds /\ builds' = builds
  BY <1>1 DEF GraphShaped
<1>. QED BY <1>1, <1>6, <1>7, <1>8, <1>9, Spared

LEMMA SliceOfLeft ==
  ASSUME NEW left \in SUBSET Tables, left # {}
  PROVE  Slice(left) \in left
BY DEF Slice, Tables

LEMMA LowestRow ==
  ASSUME NEW rows \in SUBSET RowNumbers, rows # {}
  PROVE  Min(rows) \in rows
<1>1. rows = {1} \/ rows = {2} \/ rows = {1, 2}
  BY DEF RowNumbers
<1>2. CASE 1 \in rows
  <2>1. 1 \in rows /\ \A y \in rows : 1 <= y
    BY <1>1, <1>2
  <2>. QED BY <2>1 DEF Min
<1>3. CASE rows = {2}
  <2>1. 2 \in rows /\ \A y \in rows : 2 <= y
    BY <1>3
  <2>. QED BY <2>1 DEF Min
<1>. QED BY <1>1, <1>2, <1>3

LEMMA EmptyTable ==
  ASSUME NEW build PROVE NoRows = Filled(build, RowNumbers)
BY DEF NoRows, Filled

LEMMA RowAdded ==
  ASSUME NEW build \in BuildIds, NEW rows \in SUBSET RowNumbers, NEW n \in rows
  PROVE  [Filled(build, rows) EXCEPT ![<<build, n>>] = @ + 1] = Filled(build, rows \ {n})
<1>. DEFINE D == BuildIds \X RowNumbers
            F == Filled(build, rows)
            G == [F EXCEPT ![<<build, n>>] = F[<<build, n>>] + 1]
<1>1. <<build, n>> \in D /\ F = [r \in D |-> F[r]] /\ F[<<build, n>>] = 0
  BY DEF Filled
<1>2. \A r \in D : F[r] = IF r[1] = build /\ r[2] \notin rows THEN 1 ELSE 0
  BY DEF Filled
<1>3. \A r \in D : r = <<build, n>> <=> r[1] = build /\ r[2] = n
  OBVIOUS
<1>. HIDE DEF F
<1>4. G = [r \in D |-> IF r = <<build, n>> THEN 1 ELSE F[r]]
  <2>1. G = [r \in D |-> IF r = <<build, n>> THEN F[<<build, n>>] + 1 ELSE F[r]]
    BY <1>1
  <2>. QED BY <1>1, <2>1
<1>5. \A r \in D : (IF r = <<build, n>> THEN 1 ELSE F[r]) =
        IF r[1] = build /\ r[2] \notin rows \ {n} THEN 1 ELSE 0
  BY <1>2, <1>3
<1>6. G = Filled(build, rows \ {n})
  BY <1>4, <1>5 DEF Filled
<1>. QED BY <1>6 DEF F

LEMMA ClearTableStep ==
  ASSUME GraphInv, NEW b \in Builders, ClearTable(b) PROVE GraphInv'
<1>. USE GraphParts
<1>. DEFINE old == builder[b]
            t == Slice(old.left)
            left == old.left \ {t}
            k == [old EXCEPT
                    !.left = IF left # {} THEN left ELSE IF old.of = {} THEN {} ELSE Tables,
                    !.rows = IF left = {} THEN RowNumbers ELSE {},
                    !.pc = IF left # {} THEN "clear"
                           ELSE IF old.of = {} THEN "cache" ELSE "fill"]
<1>1. /\ builder' = [builder EXCEPT ![b] = k] /\ old.pc = "clear"
      /\ table' = [table EXCEPT ![t] = NoRows]
      /\ UNCHANGED <<chunk, cache, builds>>
  BY DEF ClearTable, GraphShaped
<1>2. IF old.left = Tables
      THEN begun' = (IF Overtaken(b) THEN {} ELSE {b}) /\ mixed' = Overtaken(b)
      ELSE Touch(b)
  BY DEF ClearTable
<1>3. /\ old \in BuilderState /\ old.build \in BuildIds /\ old.left # {} /\ Busy(old)
      /\ old.of \in SUBSET ChunkIds /\ old.build \in Nat
  BY <1>1 DEF Formed, Busy, BuilderState
<1>4. old.left \in SUBSET Tables /\ t \in old.left
  BY <1>3, SliceOfLeft DEF BuilderState
<1>5. ASSUME b \in begun' PROVE \A u \in Tables \ left : table'[u] = Filled(old.build, RowNumbers)
  <2>1. \A u \in Tables \ old.left : table[u] = Filled(old.build, RowNumbers)
    <3>1. CASE old.left = Tables
      BY <3>1
    <3>2. CASE old.left # Tables
      <4>1. b \in begun
        BY <1>2, <1>5, <3>2 DEF Touch
      <4>. QED BY <1>1, <4>1 DEF GraphInv, Owns, Wrote
    <3>. QED BY <3>1, <3>2
  <2>. QED BY <1>1, <1>3, <1>4, <2>1, EmptyTable DEF GraphShaped
<1>6. /\ table' = [u \in Tables |-> table'[u]] /\ begun' \subseteq {b} /\ mixed' \in BOOLEAN
      /\ b \in begun' => ~mixed'
      /\ begun' = {} => mixed'
  BY <1>1, <1>2 DEF GraphShaped, Touch, Overtaken
<1>. HIDE DEF t
<1>7. /\ k \in BuilderState /\ k.build = old.build
      /\ k.of = old.of /\ k.force = old.force
      /\ k.pc = (IF left # {} THEN "clear" ELSE IF old.of = {} THEN "cache" ELSE "fill")
      /\ k.left = (IF left # {} THEN left ELSE IF old.of = {} THEN {} ELSE Tables)
      /\ k.rows = (IF left = {} THEN RowNumbers ELSE {})
  BY <1>3, <1>4 DEF BuilderState
<1>. HIDE DEF k
<1>8. Formed(k) /\ Busy(k)
  BY <1>3, <1>7 DEF Formed, Busy, Tables, RowNumbers
<1>9. ASSUME b \in begun' PROVE Wrote(k, table')
  <2>1. k.pc = "clear" => \A u \in Tables \ k.left : table'[u] = Filled(k.build, RowNumbers)
    BY <1>5, <1>7, <1>9
  <2>2. k.pc = "fill" =>
          \A u \in Tables : table'[u] =
            Filled(k.build, IF u \notin k.left THEN {}
                            ELSE IF u = Slice(k.left) THEN k.rows ELSE RowNumbers)
    BY <1>5, <1>7, <1>9 DEF Tables, RowNumbers
  <2>3. k.pc = "cache" => WholeFor(table', [build |-> k.build, of |-> k.of])
    BY <1>5, <1>7, <1>9 DEF WholeFor, Filled
  <2>. QED BY <2>1, <2>2, <2>3 DEF Wrote
<1>10. Gone = {} => Ordered(Embedded, cache, builder', builds)
  BY <1>1, <1>3, <1>7, OrderKept
<1>11. ASSUME b \in begun', ~old.force, Gone = {} PROVE Stale(cache, old.of)
  <2>1. CASE old.left # Tables
    BY <1>2, <1>3, <1>11, <2>1 DEF Touch, GraphInv, Owns
  <2>2. CASE old.left = Tables
    <3>1. ~(cache.build > old.build) /\ ~CacheIsFresh(old.of)
      BY <1>2, <1>11, <2>2 DEF Overtaken
    <3>2. cache.build \in Nat /\ cache.build <= old.build
      BY <1>3, <3>1 DEF GraphShaped
    <3>3. cache.of \subseteq old.of
      BY <1>3, <1>11, <3>2 DEF GraphInv, Ordered
    <3>. QED BY <3>1, <3>3 DEF Stale, CacheIsFresh
  <2>. QED BY <2>1, <2>2
<1>12. b \in begun' => ~mixed' /\ Owns(k, Embedded, cache, table', Gone)
  BY <1>6, <1>7, <1>8, <1>9, <1>11 DEF Owns, Busy
<1>13. cache' = cache /\ cache \in [build: 0..MaxBuilds, of: SUBSET ChunkIds]
  BY <1>1 DEF GraphShaped
<1>. QED BY <1>1, <1>6, <1>7, <1>8, <1>10, <1>12, <1>13, RowsWritten

LEMMA FillRowStep ==
  ASSUME GraphInv, NEW b \in Builders, FillRow(b) PROVE GraphInv'
<1>. USE GraphParts
<1>. DEFINE old == builder[b]
            t == Slice(old.left)
            n == Min(old.rows)
            last == old.rows = {n}
            k == [old EXCEPT
                    !.rows = IF last THEN RowNumbers ELSE old.rows \ {n},
                    !.left = IF last THEN old.left \ {t} ELSE old.left,
                    !.pc = IF last /\ old.left = {t} THEN "cache" ELSE "fill"]
<1>1. /\ builder' = [builder EXCEPT ![b] = k] /\ old.pc = "fill"
      /\ table' = [table EXCEPT ![t] = [table[t] EXCEPT ![<<old.build, n>>] = @ + 1]]
      /\ UNCHANGED <<chunk, cache, builds>>
  BY DEF FillRow, GraphShaped
<1>2. begun' = begun \cap {b} /\ mixed' = (b \notin begun)
  BY DEF FillRow, Touch
<1>3. /\ old \in BuilderState /\ old.build \in BuildIds /\ Busy(old)
      /\ old.left # {} /\ old.of # {} /\ old.rows # {}
  BY <1>1 DEF Formed, Busy
<1>4. /\ old.left \in SUBSET Tables /\ t \in old.left /\ old.rows \in SUBSET RowNumbers
      /\ n \in old.rows
  BY <1>3, SliceOfLeft, LowestRow DEF BuilderState
<1>5. table' = [u \in Tables |-> table'[u]]
  BY <1>1 DEF GraphShaped
<1>6. ASSUME b \in begun
      PROVE  /\ \A u \in Tables : table[u] =
                  Filled(old.build, IF u \notin old.left THEN {}
                                    ELSE IF u = t THEN old.rows ELSE RowNumbers)
             /\ table'[t] = Filled(old.build, old.rows \ {n})
             /\ \A u \in Tables : u # t => table'[u] = table[u]
  <2>1. \A u \in Tables : table[u] =
          Filled(old.build, IF u \notin old.left THEN {}
                            ELSE IF u = t THEN old.rows ELSE RowNumbers)
    BY <1>1, <1>6 DEF GraphInv, Owns, Wrote
  <2>2. table[t] = Filled(old.build, old.rows)
    BY <1>4, <2>1
  <2>3. [table[t] EXCEPT ![<<old.build, n>>] = @ + 1] = Filled(old.build, old.rows \ {n})
    BY <1>3, <1>4, <2>2, RowAdded
  <2>. QED BY <1>1, <1>4, <2>1, <2>3 DEF GraphShaped
<1>. HIDE DEF t, n
<1>7. /\ k \in BuilderState /\ k.build = old.build
      /\ k.of = old.of /\ k.force = old.force
      /\ k.pc = (IF last /\ old.left = {t} THEN "cache" ELSE "fill")
      /\ k.left = (IF last THEN old.left \ {t} ELSE old.left)
      /\ k.rows = (IF last THEN RowNumbers ELSE old.rows \ {n})
  BY <1>3, <1>4 DEF BuilderState
<1>. HIDE DEF k
<1>8. Formed(k) /\ Busy(k)
  BY <1>3, <1>4, <1>7 DEF Formed, Busy, RowNumbers
<1>9. ASSUME b \in begun PROVE Wrote(k, table')
  <2>1. \A u \in Tables : table'[u] =
          Filled(k.build, IF u \notin k.left THEN {}
                          ELSE IF u = t THEN k.rows ELSE RowNumbers)
    BY <1>4, <1>6, <1>7, <1>9
  <2>2. CASE k.pc = "cache"
    <3>1. last /\ old.left = {t} /\ k.left = {}
      BY <1>7, <2>2
    <3>2. \A u \in Tables : table'[u] = Filled(k.build, {})
      BY <2>1, <3>1
    <3>3. WholeFor(table', [build |-> k.build, of |-> k.of])
      BY <1>3, <1>7, <3>2 DEF WholeFor, Filled
    <3>. QED BY <2>2, <3>3 DEF Wrote
  <2>3. CASE k.pc = "fill"
    <3>1. \A u \in Tables : table'[u] =
            Filled(k.build, IF u \notin k.left THEN {}
                            ELSE IF u = Slice(k.left) THEN k.rows ELSE RowNumbers)
      <4>1. CASE last
        BY <1>4, <1>6, <1>7, <1>9, <2>1, <4>1
      <4>2. CASE ~last
        BY <1>7, <2>1, <4>2 DEF t
      <4>. QED BY <4>1, <4>2
    <3>. QED BY <2>3, <3>1 DEF Wrote
  <2>. QED BY <1>7, <2>2, <2>3
<1>10. Gone = {} => Ordered(Embedded, cache, builder', builds)
  BY <1>1, <1>3, <1>7, OrderKept
<1>11. b \in begun => Owns(k, Embedded, cache, table', Gone)
  BY <1>3, <1>7, <1>8, <1>9 DEF GraphInv, Owns, Busy
<1>12. cache' = cache /\ cache \in [build: 0..MaxBuilds, of: SUBSET ChunkIds]
  BY <1>1 DEF GraphShaped
<1>13. /\ begun' \subseteq {b} /\ mixed' \in BOOLEAN /\ (begun' = {} => mixed')
       /\ b \in begun' => ~mixed' /\ Owns(k, Embedded, cache, table', Gone)
  BY <1>2, <1>11
<1>. QED BY <1>1, <1>5, <1>7, <1>8, <1>10, <1>12, <1>13, RowsWritten

LEMMA WriteCacheStep ==
  ASSUME GraphInv, NEW b \in Builders, WriteCache(b) PROVE GraphInv'
<1>. USE GraphParts
<1>. DEFINE old == builder[b]
            stored == [build |-> old.build, of |-> old.of]
<1>1. /\ builder' = [builder EXCEPT ![b] = IdleBuilder] /\ old.pc = "cache"
      /\ cache' = stored /\ UNCHANGED <<chunk, table, builds>>
      /\ begun' = {} /\ mixed' = (b \notin begun)
  BY DEF WriteCache
<1>2. old \in BuilderState /\ old.build \in 0..MaxBuilds /\ old.of \in SUBSET ChunkIds /\ Busy(old)
  BY <1>1 DEF BuilderState, Busy
<1>3. /\ stored \in [build: 0..MaxBuilds, of: SUBSET ChunkIds]
      /\ stored.build = old.build /\ stored.of = old.of
  BY <1>2
<1>4. b \in begun => WholeFor(table, stored)
  BY <1>1 DEF GraphInv, Owns, Wrote
<1>. HIDE DEF stored
<1>5. ASSUME Gone = {} PROVE Ordered(Embedded, stored, builder', builds)
  <2>1. Ordered(Embedded, cache, builder, builds)
    BY <1>5 DEF GraphInv
  <2>2. \A c \in Builders : Busy(builder'[c]) => Busy(builder[c]) /\ builder'[c] = builder[c]
    BY <1>1, IdleFormed DEF GraphShaped, Busy
  <2>. HIDE DEF Busy
  <2>. QED BY <1>2, <1>3, <2>1, <2>2 DEF Ordered
<1>6. IdleBuilder \in BuilderState /\ Formed(IdleBuilder)
  BY IdleFormed
<1>7. table' = [t \in Tables |-> table'[t]] /\ cache' \in [build: 0..MaxBuilds, of: SUBSET ChunkIds]
  BY <1>1, <1>3 DEF GraphShaped
<1>8. /\ begun' \subseteq {b} /\ mixed' \in BOOLEAN /\ b \notin begun'
      /\ begun' = {} /\ ~mixed' => WholeFor(table', cache')
      /\ Gone = {} => Ordered(Embedded, cache', builder', builds)
  BY <1>1, <1>4, <1>5
<1>. QED BY <1>1, <1>6, <1>7, <1>8, RowsWritten

LEMMA EvictBuilderStep ==
  ASSUME GraphInv, NEW b \in Builders, EvictBuilder(b) PROVE GraphInv'
<1>. USE GraphParts
<1>. DEFINE old == builder[b]
            again == [IdleBuilder EXCEPT !.pc = "waiting", !.force = old.force,
                                         !.deliveries = old.deliveries]
            over == old.deliveries = MaxDeliveries
            k == IF over THEN IdleBuilder ELSE again
<1>1. /\ builder' = [builder EXCEPT ![b] = k] /\ Busy(old)
      /\ IF over THEN GiveUp(b) ELSE UNCHANGED <<begun, mixed>>
      /\ UNCHANGED <<chunk, table, cache, builds>>
  BY DEF EvictBuilder, Returned, GraphShaped, Busy
<1>2. old \in BuilderState /\ old.deliveries \in 0..MaxDeliveries /\ old.of \in SUBSET ChunkIds
  BY DEF BuilderState
<1>3. /\ again \in BuilderState /\ again.pc = "waiting" /\ again.force = old.force
      /\ again.deliveries = old.deliveries
  <2>1. IdleBuilder \in BuilderState /\ old.force \in BOOLEAN
    BY <1>2, IdleFormed DEF BuilderState
  <2>. QED BY <1>2, <2>1 DEF IdleBuilder, BuilderState
<1>. HIDE DEF again
<1>4. k \in BuilderState /\ Formed(k) /\ ~Busy(k)
  <2>1. ~over => Formed(again) /\ ~Busy(again)
    BY <1>2, <1>3, GraphAssumption DEF Formed, Busy
  <2>. QED BY <1>3, <2>1, IdleFormed DEF Busy
<1>5. ASSUME b \in begun, ~over PROVE Owns(k, Embedded, cache, table, Gone)
  <2>1. Owns(old, Embedded, cache, table, Gone)
    BY <1>5 DEF GraphInv
  <2>2. Wrote(again, table)
    BY <1>3 DEF Wrote
  <2>3. ~old.force /\ Gone = {} => Stale(cache, Embedded)
    <3>1. Gone = {} => old.of \subseteq Embedded
      BY <1>1 DEF GraphInv, Ordered
    <3>. QED BY <1>1, <2>1, <3>1 DEF Owns, Stale
  <2>. QED BY <1>3, <1>4, <1>5, <2>2, <2>3 DEF Owns
<1>. HIDE DEF k, over
<1>6. Gone = {} => Ordered(Embedded, cache, builder', builds)
  BY <1>1, <1>4, OrderKept
<1>7. builds' \in 0..MaxBuilds /\ builds' = builds
  BY <1>1 DEF GraphShaped
<1>. QED BY <1>1, <1>4, <1>5, <1>6, <1>7, Spared

LEMMA ChangeChunkStep ==
  ASSUME GraphInv, NEW i \in ChunkIds, ChangeChunk(i) PROVE GraphInv'
<1>. USE GraphParts
<1>1. UNCHANGED <<table, cache, builder, begun, mixed, builds>>
  BY DEF ChangeChunk
<1>2. PICK s \in {"bare", "embedded", "gone"} :
        /\ chunk' = [chunk EXCEPT ![i] = s]
        /\ chunk[i] \in {"unborn", "bare", "embedded"}
        /\ chunk[i] = "embedded" => s \in {"embedded", "gone"}
  <2>1. CASE chunk' = [chunk EXCEPT ![i] = "bare"] /\ \A j \in ChunkIds : j >= i => chunk[j] = "unborn"
    <3>1. i >= i
      BY GraphAssumption
    <3>. QED BY <2>1, <3>1
  <2>. QED BY <2>1 DEF ChangeChunk
<1>3. (Gone' = {} => Gone = {}) /\ (Gone' = {} => Embedded \subseteq Embedded')
  BY <1>2 DEF Embedded, Gone, GraphShaped
<1>4. GraphShaped'
  BY <1>1, <1>2 DEF GraphShaped
<1>5. Gone' = {} => Ordered(Embedded', cache, builder, builds)
  <2>1. SUFFICES ASSUME Gone' = {} PROVE Ordered(Embedded', cache, builder, builds)
    OBVIOUS
  <2>2. Ordered(Embedded, cache, builder, builds)
    BY <1>3, <2>1 DEF GraphInv
  <2>. HIDE DEF Busy
  <2>. QED BY <1>3, <2>1, <2>2 DEF Ordered
<1>6. ASSUME NEW b \in begun PROVE Owns(builder[b], Embedded', cache, table, Gone')
  <2>1. Owns(builder[b], Embedded, cache, table, Gone)
    BY <1>6 DEF GraphInv
  <2>. QED BY <1>3, <2>1 DEF Owns, Stale
<1>7. /\ \A b \in Builders : Formed(builder'[b])
      /\ \A b \in begun' : begun' = {b} /\ ~mixed' /\
           Owns(builder'[b], Embedded', cache', table', Gone')
      /\ Gone' = {} => Ordered(Embedded', cache', builder', builds')
      /\ begun' = {} /\ ~mixed' => WholeFor(table', cache')
  BY <1>1, <1>5, <1>6 DEF GraphInv
<1>. QED BY <1>4, <1>7 DEF GraphInv, Formed, Ordered, Owns, Wrote, WholeFor, Busy, Stale

LEMMA GraphInitHolds ==
  ASSUME GraphInit PROVE GraphInv
<1>1. \A b \in Builders : builder[b] = IdleBuilder
  BY DEF GraphInit
<1>2. GraphShaped
  <2>1. /\ cache = [build |-> 0, of |-> {}] /\ builder = [b \in Builders |-> IdleBuilder]
        /\ begun = {} /\ mixed = FALSE /\ builds = 0
        /\ chunk = [i \in ChunkIds |-> "unborn"] /\ table = [t \in Tables |-> NoRows]
    BY DEF GraphInit, NoGraph
  <2>2. 0 \in 0..MaxBuilds
    BY GraphAssumption
  <2>3. table = [t \in Tables |-> table[t]]
    BY <2>1
  <2>4. builder \in [Builders -> BuilderState]
    BY <2>1, IdleFormed
  <2>. QED BY <2>1, <2>2, <2>3, <2>4 DEF GraphShaped
<1>3. \A b \in Builders : Formed(builder[b]) /\ ~Busy(builder[b])
  BY <1>1, IdleFormed DEF Busy
<1>4. Ordered(Embedded, cache, builder, builds)
  BY <1>3 DEF Ordered, GraphInit, NoGraph
<1>5. WholeFor(table, cache) /\ begun = {}
  BY DEF GraphInit, WholeFor, NoGraph, NoRows
<1>. QED BY <1>2, <1>3, <1>4, <1>5 DEF GraphInv

LEMMA GraphStep ==
  ASSUME GraphInv, [GraphNext]_graphVars PROVE GraphInv'
<1>1. CASE UNCHANGED graphVars
  <2>1. UNCHANGED <<chunk, table, cache, builder, begun, mixed, builds>>
    BY <1>1 DEF graphVars
  <2>2. Embedded' = Embedded /\ Gone' = Gone
    BY <2>1 DEF Embedded, Gone
  <2>3. GraphShaped'
    BY <2>1, <2>2 DEF GraphInv, GraphShaped
  <2>4. /\ \A b \in Builders : Formed(builder'[b])
        /\ \A b \in begun' : begun' = {b} /\ ~mixed' /\
             Owns(builder'[b], Embedded', cache', table', Gone')
        /\ Gone' = {} => Ordered(Embedded', cache', builder', builds')
        /\ begun' = {} /\ ~mixed' => WholeFor(table', cache')
    BY <2>1, <2>2 DEF GraphInv
  <2>. QED BY <2>3, <2>4 DEF GraphInv, Formed, Ordered, Owns, Wrote, WholeFor, Busy, Stale
<1>2. CASE GraphNext
  BY <1>2, SendBuildStep, ReadChunksStep, CheckCacheStep, ClearTableStep, FillRowStep,
     WriteCacheStep, EvictBuilderStep, ChangeChunkStep DEF GraphNext
<1>. QED BY <1>1, <1>2

LEMMA GraphInvWhole ==
  ASSUME GraphInv PROVE WholeWhenFresh
<1>1. ASSUME \A b \in Builders : builder[b].pc = "idle", ~mixed PROVE WholeFor(table, cache)
  <2>1. begun = {}
    BY <1>1 DEF GraphInv, GraphShaped, Owns
  <2>. QED BY <1>1, <2>1 DEF GraphInv
<1>. QED BY <1>1 DEF WholeWhenFresh, WholeFor

\* Once no build is under way or to come, the tables hold the cached build, whole,
\* with any number of builders, whatever they are evicted between and however often,
\* unless builds overlapped or one was given up since a build last ran on its own.
THEOREM WholeAlwaysWhenFresh == GraphSpec => []WholeWhenFresh
<1>1. GraphInit => GraphInv
  BY GraphInitHolds
<1>2. GraphInv /\ [GraphNext]_graphVars => GraphInv'
  BY GraphStep
<1>3. GraphInv => WholeWhenFresh
  BY GraphInvWhole
<1>. QED BY <1>1, <1>2, <1>3, PTL DEF GraphSpec
==============================================================================
