------------------------------- MODULE PageCache -------------------------------
(***************************************************************************)
(* What a reader's edits do to the pages: frontend/src, whose pages share     *)
(* one cache of answers (queryClient of main.tsx).  A page observes entries   *)
(* of the cache by key; an edit calls routes of the API and, when they have   *)
(* answered, marks every entry under some keys as out of date, or puts an     *)
(* answer into one.  Cached answers are taken as fresh for thirty seconds     *)
(* and nothing else refreshes them, polling apart.  Some pages are made of    *)
(* parts that bring entries and edits of their own.                           *)
(*                                                                         *)
(* The model watches one entry through one edit that changes what it says;    *)
(* Init chooses among all of them.  The cache itself is                       *)
(* @tanstack/react-query 5.101 as the pages use it.                           *)
(***************************************************************************)
EXTENDS ApiRoutes, Naturals, SequencesExt

-----------------------------------------------------------------------------
(* Entries and edits *)

\* An observed entry: its key, the facts the page takes from it, whether the page
\* polls it, and whether scrolling fetches more of it: cutting off a fetch in flight
\* ("over"), only when there is none ("alone"), or when the last one did not fail either
\* ("well").
View(k, facts) == [key |-> k, facts |-> facts, polls |-> "never", scrolls |-> "never"]
Polled(view) == [view EXCEPT !.polls = "always"]
Awaiting(view) == [view EXCEPT !.polls = "sometimes"]
Scrolled(view) == [view EXCEPT !.scrolls = "over"]

\* An edit: the routes it calls in turn, the keys it marks when they have answered, those
\* it marks only for the next visit (refetchType "none"), the entry it puts the answer
\* into (only changing it, if `patches`), the page it leaves for, and whether it is of the
\* page itself, or of a panel that other pages show too and that knows nothing of them.
None == <<>>
Edit(routes, marks) ==
  [calls |-> routes, marks |-> marks, quiet |-> {}, puts |-> None, patches |-> FALSE,
   goes |-> "here", own |-> TRUE]
Puts(e, k) == [e EXCEPT !.puts = k]
Patches(e, k) == [e EXCEPT !.puts = k, !.patches = TRUE]
Leaving(e, page) == [e EXCEPT !.goes = page]
OfPanel(e) == [e EXCEPT !.own = FALSE]
Quietly(e, keys) == [e EXCEPT !.quiet = keys]

-----------------------------------------------------------------------------
(* Parts of pages *)

\* The frame: its dialogs are the reader's own ways to add and to complain.
AddDialog == Edit(<<AddItems>>, {<<"items">>, <<"queue">>})
FeedbackDialog == Edit(<<SendFeedback>>, {})

\* What a reader does to a saved item where it is shown as a card (ItemCard.tsx); each
\* page says what it marks.
CardEdits(kept) ==
  {Edit(<<ToggleFavorite>>, kept), Edit(<<ToggleArchive>>, kept), Edit(<<SetItemGroup>>, kept),
   Edit(<<CreateGroup, SetItemGroup>>, kept)}

\* Lists of cards that are fetched again all the time.
LooseGrid == Polled(Scrolled(View(<<"items", "ungrouped">>, ListItems)))
FolderItems == Polled(Scrolled(View(<<"items", "group">>, ListItems)))

\* The dialog's choice is filed by the folder's page.
AddToFolderDialog == View(<<"items", "picker">>, ListItems)

\* Highlights and comments on an item, in its workspace and in its reader.
HighlightEdits ==
  {Edit(<<facts>>, {<<"item">>, <<"annotations">>}) :
     facts \in {AddHighlight, UpdateHighlight, DeleteHighlight}}
CommentsSection == {Edit(<<AddComment>>, {<<"item">>}), Edit(<<DeleteComment>>, {<<"item">>})}

\* Parts of an item's workspace.
MediaPanel == Edit(<<DeleteMedia>>, {<<"item">>})
SummaryView ==
  [views |-> {Awaiting(View(<<"translation">>, GetTranslation))},
   edits |-> {Edit(<<RequestTranslation>>, {<<"item">>, <<"translation">>})}]
InfographicView ==
  [views |-> {Awaiting(View(<<"infographic">>, GetInfographic))},
   edits |-> {Puts(Edit(<<RequestInfographic>>, {<<"item">>}), <<"infographic">>)}]

\* Parts of an item's reader: what it says of the program, and its transcript with the
\* reader's notes.
ProgramInfo == View(<<"item">>, {"content", "media"})
MediaSourceContent ==
  [views |-> {View(<<"item">>, {"content", "highlights", "comments"})},
   edits |-> HighlightEdits \cup CommentsSection]

\* Mutant of OfChannel: the channel's own entries are forgotten.
OfOtherLists == {<<"channels", "catalog">>, <<"channels", "following">>, <<"subs">>, <<"timeline">>}

\* invalidateChannelQueries, and the controls and rows of a channel that call it.
OfChannel == {<<"channels", "catalog">>, <<"channels", "following">>, <<"channel">>,
              <<"channel", "items">>, <<"subs">>, <<"timeline">>}
FollowControls ==
  {Edit(<<facts>>, OfChannel) : facts \in {FollowChannel, UpdateFollow, DeleteFollow, PollChannel}}
ChannelRow == Edit(<<PollChannel>>, OfChannel)
ChannelNotes ==
  [views |-> {View(<<"sub-annotations">>, ListFollowNotes)},
   edits |-> {Edit(<<AddFollowNote>>, {<<"sub-annotations">>, <<"channel">>})}]

\* The search for sources, a panel of two pages: the catalog and what other directories
\* find, as if always for the same words, with the reader's follows.  A source followed
\* here the panel shows as followed by itself, and its lists only when they are next
\* visited.
FollowedArticleRow == Edit(<<RemoveSource>>, {<<"rss">>, <<"source-search">>, <<"bulletin", "feed">>})
SourceDiscovery ==
  LET lists == {<<"channels">>, <<"rss">>, <<"subs">>, <<"bulletin", "feed">>, <<"timeline">>}
  IN [views |-> {Scrolled(View(<<"source-search", "known">>, SearchSources)),
                 View(<<"source-search", "external">>, SearchSources)},
      edits |-> {OfPanel(Quietly(Edit(<<FollowFound>>, lists), {<<"source-search">>}))}]
AddChannelDialog == Edit(<<ResolveChannel>>, {<<"source-search">>})

\* Parts of the research page; an answered question refetches the questions only.
AskResearch == Edit(<<AskQuestion>>, {<<"research", "asks">>})
ResearchSetup ==
  {Edit(<<facts>>, {<<"research">>}) :
     facts \in {AddCoverage, DeleteCoverage, AddAgent, UpdateAgent, DeleteAgent}}

\* Parts of the admin's page.
FeedbackPanel == View(<<"admin", "feedback">>, ListFeedback)
UsersPanel ==
  LET users == <<"admin", "users">>
  IN [views |-> {Polled(View(users, ListUsers))},
      edits |-> {Edit(<<SetAdmin>>, {users}), Edit(<<DeleteUser>>, {users})}]
QueuePanel ==
  LET queue == <<"admin", "queue">>
  IN [views |-> {Polled(View(queue, AdminQueue))},
      edits |-> {Edit(<<facts>>, {queue}) : facts \in {BumpItem, AdminRetry, DropItem}}]

\* The lists of a collection's track.
TrackSection == Scrolled(View(<<"collection-track-items">>, ListTrackItems))

-----------------------------------------------------------------------------
(* Pages *)

\* Queries that wait for a condition (`enabled`) are taken as enabled, but for the folders
\* of the dialog that adds items, which is closed.
Layout ==
  [views |-> {Polled(View(<<"queue", "count">>, QueueCount))}, edits |-> {AddDialog, FeedbackDialog}]

PublicHome == [views |-> {View(<<"home-balanced-english-picks">>, BrowseItems)}, edits |-> {}]

Library ==
  [views |-> {Polled(Scrolled(View(<<"items", "flat">>, ListItems))),
              Polled(View(<<"groups", "archived">>, ListGroups)), View(<<"groups">>, ListGroups),
              LooseGrid, FolderItems},
   edits |-> CardEdits({<<"items">>, <<"groups">>, <<"ungrouped-count">>})
             \cup {Edit(<<CreateGroup>>, {<<"groups">>})}]

FolderView ==
  LET kept == {<<"items">>, <<"groups">>}
  IN [views |-> {View(<<"groups">>, ListGroups), AddToFolderDialog,
                 Polled(Scrolled(View(<<"items", "folder">>, ListItems)))},
      edits |-> CardEdits(kept) \cup {Edit(<<RenameGroup>>, {<<"groups">>}),
                                      Leaving(Edit(<<DeleteGroup>>, kept), "Library")}]

Timeline ==
  LET kept == {<<"timeline">>, <<"items">>, <<"groups">>}
  IN [views |-> {Polled(Scrolled(View(<<"timeline">>, ListTimeline))), View(<<"groups">>, ListGroups),
                 View(<<"channels", "following", "strip">>, ListChannels)},
      edits |-> CardEdits(kept) \cup {Edit(<<AddItems>>, kept \cup {<<"queue">>, <<"browse">>})}]

Browse ==
  [views |-> {Polled(Scrolled(View(<<"browse">>, BrowseItems)))},
   edits |-> {Edit(<<AddItems>>, {<<"browse">>, <<"items">>, <<"queue">>}),
              Edit(<<PutInterest>>, {<<"browse">>})}]

ChannelDetail ==
  LET kept == {<<"channel", "items">>, <<"items">>, <<"groups">>, <<"timeline">>}
      added == kept \cup OfChannel \cup {<<"browse">>, <<"item">>, <<"queue">>}
  IN [views |-> {Polled(View(<<"channel">>, GetChannel)), View(<<"groups">>, ListGroups),
                 Scrolled(View(<<"channel", "items">>, ListChannelItems))} \cup ChannelNotes.views,
      edits |-> FollowControls \cup CardEdits(kept) \cup {Edit(<<AddItems>>, added)}
                \cup ChannelNotes.edits]

\* The tabs of Subscriptions.tsx are pages of their own here: following and discover,
\* and below those of articles and of Substack.
Following ==
  [views |-> {View(<<"groups">>, {"folders"}),
              Polled(Scrolled(View(<<"channels", "following">>, ListChannels))),
              Polled(View(<<"rss", "sources">>, RssFollowed)),
              Polled(View(<<"rss", "status">>, RssStatus))},
   edits |-> FollowControls \cup {ChannelRow, FollowedArticleRow}]

\* The preview of a channel brings its controls, which know the channel's lists only.
Discover ==
  [views |-> {View(<<"groups">>, {"folders"})} \cup SourceDiscovery.views,
   edits |-> {OfPanel(e) : e \in FollowControls} \cup SourceDiscovery.edits \cup {AddChannelDialog}]

ArticleSources ==
  LET touched == {<<"rss">>, <<"bulletin", "feed">>}
  IN [views |-> {Polled(View(<<"rss", "catalog">>, RssCatalog)),
                 Polled(View(<<"rss", "sources">>, RssFollowed)),
                 View(<<"rss", "status">>, RssStatus)},
      edits |-> {Edit(<<facts>>, touched) : facts \in
                   {FollowSource, AddSource, RemoveSource, ImportSources}}]

SubstackSources ==
  LET touched == {<<"substack">>, <<"rss">>, <<"source-search">>, <<"bulletin", "feed">>}
  IN [views |-> {Polled(View(<<"substack", "connections">>, ListConnections)),
                 View(<<"substack", "subscriptions">>, ListPublications)}
                \cup SourceDiscovery.views,
      edits |-> {Edit(<<facts>>, touched) : facts \in
                   {AddConnection, UpdateConnection, FollowPublication, ImportPublications}}
                \cup SourceDiscovery.edits]

\* The workspace of an item; a removed item is left for the library.
ItemWorkspace ==
  LET kept == {<<"item">>, <<"items">>}
  IN [views |-> {Awaiting(View(<<"item">>, GetItem))} \cup SummaryView.views \cup InfographicView.views,
      edits |->
        {Edit(<<facts>>, kept) : facts \in {ToggleFavorite, ToggleArchive, PutInterest}} \cup
        {Edit(<<facts>>, {<<"item">>}) : facts \in {RegenerateItem, RetryItem}} \cup
        {MediaPanel, Patches(Edit(<<PrepareBulletin>>, {<<"bulletin">>}), <<"item">>),
         Leaving(Edit(<<DeleteItem>>, {<<"items">>}), "Library")} \cup
        HighlightEdits \cup CommentsSection \cup SummaryView.edits \cup InfographicView.edits]

\* The reader of a finished item.
BulletinDetail ==
  [views |-> {Awaiting(View(<<"bulletin", "item">>, GetBulletin)),
              Awaiting(View(<<"translation">>, GetTranslation)), ProgramInfo}
             \cup MediaSourceContent.views,
   edits |-> {Patches(Edit(<<PrepareReadingSummary>>, {}), <<"bulletin", "item">>),
              Edit(<<PrepareBulletin>>, {<<"bulletin", "item">>}),
              Edit(<<RequestTranslation>>, {<<"bulletin", "item">>, <<"translation">>}),
              Edit(<<AddItems>>, {<<"bulletin">>, <<"items">>})} \cup MediaSourceContent.edits]

\* The two feeds ask for their next page only while nothing else is fetched.
Bulletin ==
  [views |-> {[Polled(View(<<"bulletin", "feed">>, ListBulletins)) EXCEPT !.scrolls = "well"]},
   edits |-> {}]

CollectionBulletins ==
  [views |-> {[Awaiting(View(<<"collection-bulletin">>, ListCollectionBulletins))
               EXCEPT !.scrolls = "alone"]},
   edits |-> {}]

Collections == [views |-> {View(<<"collections">>, ListCollections)}, edits |-> {}]

CollectionDetail ==
  [views |-> {View(<<"collection">>, GetCollection), TrackSection},
   edits |-> {Edit(<<AddItems>>,
                   {<<"collection-track-items">>, <<"browse">>, <<"items">>, <<"queue">>})}]

Queue ==
  [views |-> {Polled(View(<<"queue">>, ListQueue))}, edits |-> {Edit(<<RetryItem>>, {<<"queue">>})}]

Admin ==
  [views |-> UsersPanel.views \cup QueuePanel.views \cup {FeedbackPanel},
   edits |-> UsersPanel.edits \cup QueuePanel.edits]

Preferences ==
  LET texts == {<<"research">>, <<"bulletin">>, <<"item">>, <<"collection-bulletin">>, <<"rss">>}
  IN [views |-> {View(<<"bulletin-preference">>, GetPreference)},
      edits |-> {Puts(Edit(<<UpdatePreference>>, texts \cup {<<"me">>}), <<"bulletin-preference">>),
                 Edit(<<BackfillBulletins>>, texts)}]

Research ==
  [views |-> {View(<<"research", "feed">>, ListReports), View(<<"research", "coverage">>, ListCoverage),
              View(<<"research", "agents">>, ListAgents), View(<<"research", "asks">>, ListAsks)},
   edits |-> {Edit(<<RunResearch>>, {<<"research">>}), AskResearch} \cup ResearchSetup]

ResearchBrief == [views |-> {View(<<"research", "brief">>, GetReport)}, edits |-> {}]

Dossier == [views |-> {View(<<"research", "dossier">>, GetDossier)}, edits |-> {}]

RssDetail ==
  LET touched == {<<"rss">>, <<"bulletin", "feed">>}
  IN [views |-> {Awaiting(View(<<"rss", "article">>, GetArticle)),
                 View(<<"rss", "body">>, GetArticleBody)},
      edits |-> {Edit(<<MarkArticle>>, touched), Edit(<<RetryEntry>>, touched)}]

Annotations == [views |-> {View(<<"annotations">>, ListAnnotations)}, edits |-> {}]

\* A rebuild that is asked for changes nothing before the graph job has run.
Graph ==
  [views |-> {View(<<"graph">>, GetGraph), View(<<"groups">>, {"folders"})}, edits |-> {}]

Stats == [views |-> {Polled(View(<<"stats">>, GetStats))}, edits |-> {}]

\* Layout is around all the others.
Pages ==
  [PublicHome |-> PublicHome, Library |-> Library, FolderView |-> FolderView,
   Timeline |-> Timeline, Browse |-> Browse, ChannelDetail |-> ChannelDetail,
   Following |-> Following, Discover |-> Discover, ArticleSources |-> ArticleSources,
   SubstackSources |-> SubstackSources, ItemWorkspace |-> ItemWorkspace,
   BulletinDetail |-> BulletinDetail, Bulletin |-> Bulletin,
   CollectionBulletins |-> CollectionBulletins, Collections |-> Collections,
   CollectionDetail |-> CollectionDetail, Queue |-> Queue, Admin |-> Admin,
   Preferences |-> Preferences, Research |-> Research, ResearchBrief |-> ResearchBrief,
   Dossier |-> Dossier, RssDetail |-> RssDetail, Annotations |-> Annotations,
   Graph |-> Graph, Stats |-> Stats]
PageNames == DOMAIN Pages
Around(p) == IF p = "Layout" THEN Layout ELSE Pages[p]

-----------------------------------------------------------------------------
(* The watched entry and the edit *)

VARIABLES
  key,    \* the key of the watched entry
  edit,   \* the edit, as it bears on the entry
  phase,  \* of the edit: "before", "sent", "settled", "failed"
  served, \* calls of the edit that the worker has carried out
  stayed, \* its page was not left since it was sent
  at,     \* the page the reader is on
  data,   \* what the entry says of the fact: "none", or as "old" or "new"
  stale,  \* the entry is marked as out of date
  fetch,  \* the request for the entry in flight
  cut     \* a mark was lost: see Succeed and Scroll

pageVars == <<key, edit, phase, served, stayed, at, data, stale, fetch, cut>>

NoFetch == [kind |-> "none", got |-> "unread"]
Whole == [kind |-> "whole", got |-> "unread"]
NextPage == [kind |-> "next", got |-> "unread"]

ViewsOn(p) == Around(p).views \cup Layout.views
Observers(p) == {v \in ViewsOn(p) : v.key = key}
Opens(p) == \E v \in Pages[p].views : v.key = key
Elsewhere == "Annotations"
Mounted == Observers(at) # {}

\* An edit e of page q to the entry under key k, of which its i-th call changes a fact:
\* whether it marks it, at once or for the next visit, puts its answer into it, and whether
\* page q shows the fact itself and does not poll it.
Bearing(q, e, k, fact, i) ==
  [page |-> q, calls |-> Len(e.calls), change |-> i, goes |-> e.goes,
   marks |-> \E mark \in e.marks : IsPrefix(mark, k),
   quiet |-> \E mark \in e.quiet : IsPrefix(mark, k),
   puts |-> e.puts = k, patches |-> e.puts = k /\ e.patches,
   ofPage |-> e.own /\ \E v \in Around(q).views :
                v.key = k /\ fact \in v.facts /\ v.polls # "always"]

\* What the worker would say now.
Truth == IF served < edit.change THEN "old" ELSE "new"

Answered == edit.puts /\ (edit.patches => data # "none")

\* The requests that may be in flight once page p is shown: an entry without data, or
\* marked, is fetched when it comes into view; another one if it is thirty seconds old.
Opened(p, due, inFlight) ==
  IF ~Opens(p) \/ inFlight # NoFetch THEN {inFlight}
  ELSE IF data = "none" \/ due THEN {Whole}
  ELSE {inFlight, Whole}

-----------------------------------------------------------------------------
(* The cache *)

\* Pages that neither show the entry nor have the edit are alike: one stands for them.
Visit ==
  \E p \in PageNames \ {at} :
    /\ p \in {edit.page, Elsewhere} \/ Opens(p)
    /\ at' = p
    /\ fetch' \in Opened(p, stale, fetch)
    /\ stayed' = (stayed /\ phase = "before")
    /\ UNCHANGED <<key, edit, phase, served, data, stale, cut>>

\* A poll, or a retry after a failure.
Refetch ==
  /\ Mounted /\ fetch = NoFetch
  /\ \/ \E v \in Observers(at) : v.polls # "never"
     \/ data = "none" \/ stale
  /\ fetch' = Whole
  /\ UNCHANGED <<key, edit, phase, served, stayed, at, data, stale, cut>>

\* fetchNextPage drops a refetch in flight and, when it arrives, passes for one.
Scroll ==
  /\ data # "none" /\ fetch.kind # "next"
  /\ \E v \in Observers(at) :
       \/ v.scrolls = "over"
       \/ v.scrolls = "alone" /\ fetch = NoFetch
       \/ v.scrolls = "well" /\ fetch = NoFetch /\ ~stale
  /\ fetch' = NextPage
  /\ cut' = (cut \/ stale)
  /\ UNCHANGED <<key, edit, phase, served, stayed, at, data, stale>>

ReadTruth ==
  /\ fetch.kind = "whole" /\ fetch.got = "unread"
  /\ fetch' = [fetch EXCEPT !.got = Truth]
  /\ UNCHANGED <<key, edit, phase, served, stayed, at, data, stale, cut>>

Arrive ==
  /\ fetch.kind = "next" \/ fetch.got # "unread"
  /\ data' = IF fetch.kind = "next" THEN data ELSE fetch.got
  /\ stale' = FALSE
  /\ cut' = (cut /\ fetch.got # "new")
  /\ fetch' = NoFetch
  /\ UNCHANGED <<key, edit, phase, served, stayed, at>>

\* A failed request is not repeated; what is cached stays, as out of date.
Fail ==
  /\ fetch # NoFetch
  /\ fetch' = NoFetch
  /\ stale' = TRUE
  /\ UNCHANGED <<key, edit, phase, served, stayed, at, data, cut>>

\* Typing in the search panel takes its requests back, and its entries to what they were
\* before: still out of date, if all was asked for again, or without a mark that has come
\* while more was fetched.
Retype ==
  /\ fetch # NoFetch /\ Opens(at) /\ IsPrefix(<<"source-search">>, key)
  /\ fetch' = NoFetch
  /\ \/ fetch.kind = "whole" /\ stale' = TRUE
     \/ fetch.kind = "next" /\ stale' \in {stale, FALSE}
  /\ UNCHANGED <<key, edit, phase, served, stayed, at, data, cut>>

\* An entry that nothing observes is dropped after five minutes.
Forget ==
  /\ ~Mounted /\ fetch = NoFetch /\ data # "none"
  /\ data' = "none" /\ stale' = FALSE /\ cut' = FALSE
  /\ UNCHANGED <<key, edit, phase, served, stayed, at, fetch>>

-----------------------------------------------------------------------------
(* The edit *)

\* An edit that changes the answer on the page starts from it.
Send ==
  /\ phase = "before" /\ edit.page \in {at, "Layout"}
  /\ edit.patches => data # "none"
  /\ phase' = "sent"
  /\ UNCHANGED <<key, edit, served, stayed, at, data, stale, fetch, cut>>

Serve ==
  /\ phase = "sent" /\ served < edit.calls
  /\ served' = served + 1
  /\ UNCHANGED <<key, edit, phase, stayed, at, data, stale, fetch, cut>>

\* onSuccess.  A marked entry in view is fetched again, in place of a request in flight;
\* one out of view keeps the request that its page left behind, which will take the mark
\* away, and an answer put in is overwritten by an older request.
Succeed ==
  LET again == edit.marks /\ Mounted
      flight == IF again THEN Whole ELSE fetch
      due == edit.marks \/ edit.quiet \/ (stale /\ ~Answered)
      outlived == ~again /\ (fetch.kind = "next" \/ fetch.got = "old")
  IN /\ phase = "sent" /\ served = edit.calls
     /\ phase' = "settled"
     /\ data' = IF Answered THEN "new" ELSE data
     /\ stale' = due
     /\ cut' = (cut \/ ((edit.marks \/ edit.quiet \/ edit.puts) /\ outlived))
     /\ IF edit.goes = "here" THEN at' = at /\ fetch' = flight
        ELSE at' = edit.goes /\ fetch' \in Opened(edit.goes, due, flight)
     /\ stayed' = (stayed /\ edit.goes = "here")
     /\ UNCHANGED <<key, edit, served>>

\* A call fails, before or after it was carried out; nothing is marked.
EditFails ==
  /\ phase = "sent"
  /\ phase' = "failed"
  /\ UNCHANGED <<key, edit, served, stayed, at, data, stale, fetch, cut>>

-----------------------------------------------------------------------------

AllPages == PageNames \cup {"Layout"}

\* Every view of a page with every call of an edit that changes some of what it shows;
\* nothing is cached yet.
PageInit ==
  /\ \E p, q \in AllPages : \E v \in Around(p).views : \E e \in Around(q).edits :
       \E i \in DOMAIN e.calls :
         \E fact \in v.facts \cap e.calls[i] :
           key = v.key /\ edit = Bearing(q, e, v.key, fact, i)
  /\ phase = "before" /\ served = 0 /\ stayed = TRUE
  /\ at = Elsewhere /\ data = "none" /\ stale = FALSE
  /\ fetch = IF Mounted THEN Whole ELSE NoFetch
  /\ cut = FALSE

PageNext ==
  \/ Visit \/ Refetch \/ Scroll \/ ReadTruth \/ Arrive \/ Fail \/ Retype \/ Forget
  \/ Send \/ Serve \/ Succeed \/ EditFails

PageSpec == PageInit /\ [][PageNext]_pageVars

-----------------------------------------------------------------------------
(* Properties *)

\* The entry is to follow the edit: the edit refreshes it, or it is part of the page the
\* edit was made on, which the reader has not left and which does not poll it.  Of a panel
\* that knows nothing of its page that is not asked: the directory of SubstackSources does
\* not show what was followed in the search panel above it, and the search panel of
\* Discover not what was followed or left in the preview below it.
Promised ==
  \/ edit.marks \/ edit.quiet \/ edit.puts
  \/ edit.ofPage /\ stayed

\* Once an edit has settled, what its page shows, and every entry it marks, no longer
\* shows what was before the edit, unless the request for it failed or it is marked for
\* the next visit: no page forgets one of its own lists in an edit of its own, no older
\* answer comes back over an edit, and leaving the page or editing again while requests
\* are in flight changes nothing of this (the hooks of frontend/src/pages, useMutation's
\* onSuccess).  The two ways in which a mark is really lost are told apart by `cut`.
EditsShown ==
  phase = "settled" /\ Promised /\ Mounted /\ fetch = NoFetch /\ ~cut =>
    data = "new" \/ stale

\* "Mutations still invalidate explicitly, so edits stay immediate" (main.tsx, on the
\* thirty seconds an answer is taken as fresh), of every page that shows the fact.
EditsImmediate ==
  phase = "settled" /\ Mounted /\ fetch = NoFetch => data = "new" \/ stale
=============================================================================
