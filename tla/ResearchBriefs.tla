---------------------------- MODULE ResearchBriefs ----------------------------
(***************************************************************************)
(* The research briefs of cf/worker/src/routes/research.ts: users keep names  *)
(* they cover and agents with a theme; the cron, and a user's POST /run, go   *)
(* through the recent items and write a brief for every assignment that       *)
(* matches one.  A pass reads its items once, a user's assignments when it    *)
(* comes to the user, and looks for a brief in a statement before the insert,  *)
(* so that it may meet a brief that another pass has written or an assignment  *)
(* or item that is gone: the insert then breaks a key, and the pass with it.   *)
(*                                                                         *)
(* Every assignment matches every item.  Items are numbered by their dates.    *)
(***************************************************************************)
EXTENDS Naturals, FiniteSets

CONSTANTS
  Assignments,  \* research_coverage before research_agent, by ids never used again
  Agents,       \* those that are agents, which may be disabled
  Readers,      \* ids of users
  ReaderOf,     \* whose assignment it is
  Studies,      \* items
  StudyLimit,   \* items of one pass: 200
  Passes,       \* passes that run at a time
  MaxDisturbances,  \* bound: requests, evictions, items that age or are deleted
  NoPair

ASSUME ResearchAssumption ==
  /\ Assignments \subseteq Nat /\ Readers \subseteq Nat /\ Agents \subseteq Assignments
  /\ ReaderOf \in [Assignments -> Readers]
  /\ Studies \subseteq Nat /\ IsFiniteSet(Studies) /\ StudyLimit \in Nat \ {0}
  /\ NoPair \notin Assignments \X Studies
  /\ MaxDisturbances \in Nat

VARIABLES
  assignment,   \* research_coverage, research_agent
  study,        \* items: done, and published in the last 14 days
  briefs,       \* research_brief
  researching,  \* state of every pass
  disturbances

researchVars == <<assignment, study, briefs, researching, disturbances>>

-----------------------------------------------------------------------------
(* Rows and passes *)

Pair == Assignments \X Studies

Resting == [pc |-> "idle", readers |-> {}, items |-> {}, plan |-> {}, pair |-> NoPair]
Pass == [pc: {"idle", "readers", "look", "insert"}, readers: SUBSET Readers,
         items: SUBSET Studies, plan: SUBSET Pair, pair: Pair \cup {NoPair}]

Active == {a \in Assignments : assignment[a] = "enabled"}
Assigned(w) == {a \in Active : ReaderOf[a] = w}

\* recentItems: the newest of the last 14 days.
Recent ==
  LET new == {i \in Studies : study[i] = "recent"} IN
  {i \in new : Cardinality({j \in new : j > i}) < StudyLimit}

Disturb == disturbances < MaxDisturbances /\ disturbances' = disturbances + 1

Set(p, state) == researching' = [researching EXCEPT ![p] = state]
AtPoint(p, point) == researching[p].pc = point

\* The pass with a plan still to be carried out, or with the next user.
With(p, plan) ==
  [researching[p] EXCEPT !.plan = plan, !.pair = NoPair,
     !.pc = IF plan # {} THEN "look" ELSE "readers"]

\* The newest item first, for one assignment after the other.
FirstOf(plan) ==
  CHOOSE m \in plan : \A n \in plan : m[2] > n[2] \/ (m[2] = n[2] /\ m[1] <= n[1])

-----------------------------------------------------------------------------
(* generateResearchForAllUsers, generateResearch *)

StartTick(p) ==
  /\ AtPoint(p, "idle") /\ Active # {}
  /\ Set(p, [Resting EXCEPT !.pc = "readers", !.readers = {ReaderOf[a] : a \in Active},
                            !.items = Recent])
  /\ UNCHANGED <<assignment, study, briefs, disturbances>>

\* POST /run.
StartRun(p, w) ==
  /\ AtPoint(p, "idle") /\ Disturb
  /\ Set(p, [Resting EXCEPT !.pc = "readers", !.readers = {w}, !.items = Recent])
  /\ UNCHANGED <<assignment, study, briefs>>

\* assignmentsForUser, or the end of the pass.
NextReader(p) ==
  /\ AtPoint(p, "readers")
  /\ \/ /\ researching[p].readers = {}
        /\ Set(p, Resting)
     \/ \E w \in researching[p].readers :
          /\ \A other \in researching[p].readers : w <= other
          /\ Set(p, [With(p, Assigned(w) \X researching[p].items) EXCEPT !.readers = @ \ {w}])
  /\ UNCHANGED <<assignment, study, briefs, disturbances>>

\* Mutant: one brief of an item is enough for a user.
HasBriefOfItem(a, i) == \E b \in Assignments : ReaderOf[b] = ReaderOf[a] /\ <<b, i>> \in briefs

HasBrief(a, i) == <<a, i>> \in briefs

LookForBrief(p) ==
  /\ AtPoint(p, "look")
  /\ LET m == FirstOf(researching[p].plan) IN
       Set(p, IF HasBrief(m[1], m[2]) THEN With(p, researching[p].plan \ {m})
              ELSE [researching[p] EXCEPT !.pc = "insert", !.pair = m])
  /\ UNCHANGED <<assignment, study, briefs, disturbances>>

\* ux_research_brief_assignment and the foreign keys.
Insertable(m) ==
  m \notin briefs /\ assignment[m[1]] \in {"enabled", "disabled"} /\ study[m[2]] # "gone"

InsertBrief(p) ==
  /\ AtPoint(p, "insert")
  /\ LET m == researching[p].pair IN
     IF Insertable(m)
     THEN /\ briefs' = briefs \cup {m}
          /\ Set(p, With(p, researching[p].plan \ {m}))
     ELSE Set(p, Resting) /\ UNCHANGED briefs
  /\ UNCHANGED <<assignment, study, disturbances>>

PassStep(p) == NextReader(p) \/ LookForBrief(p) \/ InsertBrief(p)

EvictPass(p) ==
  /\ ~AtPoint(p, "idle") /\ Disturb
  /\ Set(p, Resting)
  /\ UNCHANGED <<assignment, study, briefs>>

-----------------------------------------------------------------------------
(* Requests of users, and items *)

AddAssignment(a) ==
  /\ Disturb /\ assignment[a] = "unborn"
  /\ assignment' = [assignment EXCEPT ![a] = "enabled"]
  /\ UNCHANGED <<study, briefs, researching>>

\* Its briefs go with it.
DeleteAssignment(a) ==
  /\ Disturb /\ assignment[a] \in {"enabled", "disabled"}
  /\ assignment' = [assignment EXCEPT ![a] = "gone"]
  /\ briefs' = {m \in briefs : m[1] # a}
  /\ UNCHANGED <<study, researching>>

\* PATCH /agents/:id.
SwitchAgent(a) ==
  /\ Disturb /\ a \in Agents /\ assignment[a] \in {"enabled", "disabled"}
  /\ assignment' = [assignment EXCEPT ![a] = IF @ = "enabled" THEN "disabled" ELSE "enabled"]
  /\ UNCHANGED <<study, briefs, researching>>

\* The pipeline finishes an item, its date passes out of the window, an admin deletes it.
FinishStudy(i) ==
  /\ study[i] = "unfinished"
  /\ study' = [study EXCEPT ![i] = "recent"]
  /\ UNCHANGED <<assignment, briefs, researching, disturbances>>

StudyAges(i) ==
  /\ Disturb /\ study[i] = "recent"
  /\ study' = [study EXCEPT ![i] = "old"]
  /\ UNCHANGED <<assignment, briefs, researching>>

RemoveStudy(i) ==
  /\ Disturb /\ study[i] # "gone"
  /\ study' = [study EXCEPT ![i] = "gone"]
  /\ briefs' = {m \in briefs : m[2] # i}
  /\ UNCHANGED <<assignment, researching>>

-----------------------------------------------------------------------------
(* Specification *)

ResearchInit ==
  /\ assignment \in [Assignments -> {"unborn", "enabled"}]
  /\ study = [i \in Studies |-> "unfinished"]
  /\ briefs = {}
  /\ researching = [p \in Passes |-> Resting]
  /\ disturbances = 0

ResearchNext ==
  \/ \E p \in Passes :
       StartTick(p) \/ (\E w \in Readers : StartRun(p, w)) \/ PassStep(p) \/ EvictPass(p)
  \/ \E a \in Assignments : AddAssignment(a) \/ DeleteAssignment(a) \/ SwitchAgent(a)
  \/ \E i \in Studies : FinishStudy(i) \/ StudyAges(i) \/ RemoveStudy(i)

ResearchSpec == ResearchInit /\ [][ResearchNext]_researchVars

\* The cron ticks, and passes go on.
ResearchFairness ==
  /\ WF_researchVars(\E p \in Passes : StartTick(p))
  /\ \A p \in Passes : WF_researchVars(PassStep(p))

-----------------------------------------------------------------------------
(* Properties *)

\* Every variable has its type.
ResearchTypeOK ==
  /\ assignment \in [Assignments -> {"unborn", "enabled", "disabled", "gone"}]
  /\ study \in [Studies -> {"unfinished", "recent", "old", "gone"}]
  /\ briefs \subseteq Pair /\ researching \in [Passes -> Pass]
  /\ disturbances \in 0..MaxDisturbances

\* The plan of a pass may be older than a deletion: what it inserts all the same is of an
\* assignment that is there, and of an item that has been finished and is there.
BriefsGrounded ==
  \A m \in briefs : /\ assignment[m[1]] \in {"enabled", "disabled"}
                    /\ study[m[2]] \in {"recent", "old"}

\* "A missed run is harmless and the next tick can simply catch up" (research.ts:288):
\* whatever pass was evicted, broken by a key, or overtaken, there comes a time when every
\* enabled assignment has its brief of every item among the newest.
BriefsCatchUp ==
  []<>(\A a \in Active, i \in Recent : <<a, i>> \in briefs)
=============================================================================
