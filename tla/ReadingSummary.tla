--------------------------- MODULE ReadingSummary ---------------------------
(***************************************************************************)
(* The reading edition of an item: cf/worker/src/lib/readingSummary.ts       *)
(* (generateReadingSummary, readCached, enqueueReadingSummaries) as the       *)
(* pipeline's messages and the pages of routes/bulletin.ts call it.           *)
(*                                                                         *)
(* One row, of one item in one language.  A caller reads the summary, reads   *)
(* the row, claims it by an upsert whose time is the lease, asks the model    *)
(* for at most 90 seconds, and writes if the lease is still its own.  A       *)
(* version of the summary stands for its hash.  Leases (two minutes) age only *)
(* when their callers are gone.                                             *)
(***************************************************************************)
EXTENDS Naturals, FiniteSets

CONSTANTS
  Callers,        \* messages and requests that run at a time
  MaxSources,     \* bound: versions of the summary
  MaxBriefFaults, \* bound: failures and evictions
  MaxCalls        \* bound: claims

ASSUME ReadingAssumption ==
  MaxSources \in Nat \ {0} /\ MaxBriefFaults \in Nat /\ MaxCalls \in Nat

VARIABLES
  source,   \* version of the summary
  brief,    \* row of reading_summary or reading_summary_lang
  clock,    \* the last time written to the row
  aged,     \* the row was written more than two minutes ago
  caller,   \* state of every caller
  calls,    \* requests to the model
  briefFaults

readingVars == <<source, brief, clock, aged, caller, calls, briefFaults>>

-----------------------------------------------------------------------------
(* Rows and callers *)

Versions == 0 .. MaxSources
Times == Nat

\* Content 0 cannot be parsed, or there is none.
Brief == [of: Versions, status: {"none", "processing", "done", "error"},
          at: Times, content: Versions]

Caller == [pc: {"idle", "look", "claim", "call"}, of: Versions, lease: Times,
           seen: Times, bad: BOOLEAN]
Idle == [pc |-> "idle", of |-> 0, lease |-> 0, seen |-> 0, bad |-> FALSE]

Calling(c) == caller[c].pc = "call"
Set(c, state) == caller' = [caller EXCEPT ![c] = state]

\* readCached: what a reader of version v is told.
Cached(v) ==
  IF brief.status = "none" \/ brief.of # v THEN "missing"
  ELSE IF brief.status = "processing" /\ aged THEN "error"
  ELSE IF brief.status = "done" /\ brief.content = 0 THEN "error"
  ELSE brief.status

-----------------------------------------------------------------------------
(* generateReadingSummary *)

ReadSource(c) ==
  /\ caller[c].pc = "idle"
  /\ calls + Cardinality({d \in Callers : caller[d].pc # "idle"}) < MaxCalls
  /\ Set(c, [Idle EXCEPT !.pc = "look", !.of = source])
  /\ UNCHANGED <<source, brief, clock, aged, calls, briefFaults>>

LookUp(c) ==
  /\ caller[c].pc = "look"
  /\ Set(c, IF Cached(caller[c].of) \in {"done", "processing"} THEN Idle
            ELSE [caller[c] EXCEPT !.pc = "claim", !.seen = brief.at,
                                   !.bad = Cached(caller[c].of) = "error"])
  /\ UNCHANGED <<source, brief, clock, aged, calls, briefFaults>>

\* Mutant: a done row that could not be read is taken without a second look.
ClaimableBlindly(c) ==
  \/ brief.status = "none" \/ brief.of # caller[c].of
  \/ brief.status = "error"
  \/ brief.status = "processing" /\ aged
  \/ brief.status = "done" /\ caller[c].bad

\* The condition of the upsert.
ClaimableBrief(c) ==
  \/ brief.status = "none" \/ brief.of # caller[c].of
  \/ brief.status = "error"
  \/ brief.status = "processing" /\ aged
  \/ brief.status = "done" /\ brief.at = caller[c].seen /\ caller[c].bad

ClaimBrief(c) ==
  /\ caller[c].pc = "claim"
  /\ IF ClaimableBrief(c)
     THEN /\ clock' = clock + 1 /\ calls' = calls + 1 /\ aged' = FALSE
          /\ brief' = [brief EXCEPT !.of = caller[c].of, !.status = "processing", !.at = clock + 1]
          /\ Set(c, [caller[c] EXCEPT !.pc = "call", !.lease = clock + 1])
     ELSE Set(c, Idle) /\ UNCHANGED <<brief, clock, aged, calls>>
  /\ UNCHANGED <<source, briefFaults>>

\* Mutant: the answer is written whoever holds the lease.
HoldsAnyway(c) == brief.of = caller[c].of \/ brief.status = "processing"

\* Writes are conditional on the hash and the lease.
Holds(c) == brief.of = caller[c].of /\ brief.at = caller[c].lease

Written(c, row) ==
  IF Holds(c) THEN brief' = [row EXCEPT !.at = clock + 1] /\ clock' = clock + 1 /\ aged' = FALSE
              ELSE UNCHANGED <<brief, clock, aged>>

Answer(c) ==
  /\ Calling(c)
  /\ Written(c, [brief EXCEPT !.status = "done", !.content = caller[c].of])
  /\ Set(c, Idle)
  /\ UNCHANGED <<source, calls, briefFaults>>

\* No answer in 90 seconds, or one that is incomplete.
FailBrief(c) ==
  /\ Calling(c) /\ briefFaults < MaxBriefFaults /\ briefFaults' = briefFaults + 1
  /\ Written(c, [brief EXCEPT !.status = "error"])
  /\ Set(c, Idle)
  /\ UNCHANGED <<source, calls>>

EvictCaller(c) ==
  /\ caller[c].pc # "idle" /\ briefFaults < MaxBriefFaults /\ briefFaults' = briefFaults + 1
  /\ Set(c, Idle)
  /\ UNCHANGED <<source, brief, clock, aged, calls>>

\* Two minutes pass.
AgeBrief ==
  /\ ~aged /\ brief.status = "processing"
  /\ \A c \in Callers : ~(Calling(c) /\ caller[c].lease = brief.at)
  /\ aged' = TRUE
  /\ UNCHANGED <<source, brief, clock, caller, calls, briefFaults>>

\* The item is summarized again.
Revise ==
  /\ source < MaxSources /\ source' = source + 1
  /\ UNCHANGED <<brief, clock, aged, caller, calls, briefFaults>>

-----------------------------------------------------------------------------
(* The specification *)

\* No row, or one with a content that does not parse.
ReadingInit ==
  /\ source = 1 /\ clock = 0 /\ aged = FALSE /\ calls = 0 /\ briefFaults = 0
  /\ \E status \in {"none", "done"} :
       brief = [of |-> IF status = "done" THEN 1 ELSE 0, status |-> status, at |-> 0, content |-> 0]
  /\ caller = [c \in Callers |-> Idle]

ReadingNext ==
  \/ \E c \in Callers :
       ReadSource(c) \/ LookUp(c) \/ ClaimBrief(c) \/ Answer(c) \/ FailBrief(c) \/ EvictCaller(c)
  \/ AgeBrief \/ Revise

ReadingSpec == ReadingInit /\ [][ReadingNext]_readingVars

-----------------------------------------------------------------------------
(* Properties *)

\* Every variable keeps its type.
ReadingTypeOK ==
  /\ source \in Versions /\ brief \in Brief /\ clock \in Times /\ aged \in BOOLEAN
  /\ caller \in [Callers -> Caller]
  /\ calls \in Nat /\ briefFaults \in 0 .. MaxBriefFaults

\* What a reader of a version is shown was made from that version, although
\* callers of several versions take the row from one another and answers are late.
BriefOfSource ==
  \A v \in Versions : Cached(v) = "done" => brief.content = v

\* The model is asked once for a version, unless a call failed or another
\* version came in between, by however many callers at a time.
AskedOnce == briefFaults = 0 /\ source = 1 => calls <= 1

-----------------------------------------------------------------------------
(* Refinement *)

\* The caller that the lease is of, and what the content was made from.
BriefLeases(callers, kept) ==
  [j \in {"brief"} |->
     {[by |-> c, of |-> callers[c].of] :
        c \in {d \in Callers : /\ callers[d].pc = "call"
                               /\ kept.of = callers[d].of /\ kept.at = callers[d].lease}}]
BriefText(kept) == [j \in {"brief"} |-> kept.content]

BriefTexts == INSTANCE LeasedText WITH
  Jobs <- {"brief"}, Agents <- Callers, Nothing <- 0, TakesOver <- TRUE,
  leases <- BriefLeases(caller, brief), text <- BriefText(brief)

\* The content of the row is stored by the caller that claimed it last, from the version
\* it was asked for; a running lease is taken for another version only
\* (generateReadingSummary).
BriefImplementsLeasedText == BriefTexts!Spec
=============================================================================
