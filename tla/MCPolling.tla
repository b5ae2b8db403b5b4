------------------------------ MODULE MCPolling ------------------------------
(***************************************************************************)
(* One run for what the cron starts and what it leaves: the polls of a        *)
(* follow, the links of items to channels that polls, runs of the pipeline     *)
(* and admins write, and the research briefs.  A poll is here the order of     *)
(* its import (FollowPolling) and there the statements of one import          *)
(* (ItemChannels); they share no row, so that an interleaving shows nothing    *)
(* that one of them alone does not.  `focus` says which of them moves; the    *)
(* others rest in an initial state.                                         *)
(***************************************************************************)
EXTENDS FollowPolling, ItemChannels, ResearchBriefs

VARIABLE focus

pollingVars == <<focus, vars, channelVars, researchVars>>

\* The first item is an episode of a podcast, the others are videos of an uploader.
PublishedBy == [v \in Videos |-> IF v = 1 THEN "podcast" ELSE "uploader"]
PlatformNames == [c \in {"podcast", "uploader"} |->
                    IF c = "podcast" THEN "apple_podcast" ELSE "bilibili"]

\* Two assignments of the first reader, one of the second.
AssignedTo == [a \in Assignments |-> IF a = 3 THEN 2 ELSE 1]

On(part) == focus = part

PollingInit ==
  /\ focus \in {"polls", "channels", "research"}
  /\ Init /\ ChannelsInit /\ ResearchInit
  /\ \A s \in Subs : subscribed[s] = [channel |-> NoOwner, feed |-> Page("podcast")]
  /\ On("channels") \/ \A v \in Videos : videoState[v] = "none"
  /\ On("research") \/ \A a \in Assignments : assignment[a] = "unborn"
  /\ On("polls") \/ (dated /\ feed = {} /\ \A f \in Follows : ~Live(f))

PollingNext ==
  \/ On("polls") /\ Next /\ UNCHANGED <<focus, channelVars, researchVars>>
  \/ On("channels") /\ ChannelsNext /\ UNCHANGED <<focus, vars, researchVars>>
  \/ On("research") /\ ResearchNext /\ UNCHANGED <<focus, vars, channelVars>>

\* The fairness of the part that moves (Fairness of FollowPolling, ResearchFairness).
PollingFairness ==
  /\ WF_vars(On("polls") /\ CronSelect)
  /\ \A f \in Follows :
       /\ WF_vars(On("polls") /\ CronQueue(f))
       /\ WF_vars(On("polls") /\ Age(f))
       /\ WF_vars(On("polls") /\ ExpireLease(f))
  /\ \A s \in Slots : WF_vars(On("polls") /\ Poll(s))
  /\ WF_researchVars(On("research") /\ \E p \in Passes : StartTick(p))
  /\ \A p \in Passes : WF_researchVars(On("research") /\ PassStep(p))

PollingSpec == PollingInit /\ [][PollingNext]_pollingVars /\ PollingFairness

-----------------------------------------------------------------------------
\* Every entry of a feed arrives (Arrives of FollowPolling), when polls move.
ArrivesOn == On("polls") => Arrives

\* Briefs catch up (BriefsCatchUp of ResearchBriefs), when passes move.
BriefsCatchUpOn == On("research") => BriefsCatchUp
=============================================================================
