------------------------------- MODULE ApiRoutes -------------------------------
(***************************************************************************)
(* What the worker's routes tell the pages, and what they change, one         *)
(* definition per route: cf/worker/src/routes.  A fact is what a table, or a   *)
(* group of columns of one, says: "shelf" the user_item rows, "catalog" which   *)
(* items there are, "status" their processing columns, "demand" their counts    *)
(* and score, "content" what the pipeline made of them, "follows" the         *)
(* subscription rows, "channels" channels and their links, "localized" the      *)
(* bulletin_translation rows, "briefs" the reading summaries.  Work that a     *)
(* route only queues changes nothing by itself.                              *)
(***************************************************************************)

\* items.ts: the catalog, the library, one item and its editions.
BrowseItems == {"catalog", "status", "demand", "content", "shelf", "interest"}
ListItems == {"shelf", "status", "demand", "content", "interest"}
AddItems == {"shelf", "catalog", "demand"}
PrepareBulletin == {"localized"}
GetItem == {"status", "demand", "content", "media", "channels", "shelf", "interest",
            "comments", "highlights", "translations", "infographic", "localized"}
GetTranslation == {"translations"}
RequestTranslation == {"translations"}
GetInfographic == {"infographic"}
RequestInfographic == {"infographic"}
RetryItem == {"status"}
RegenerateItem == {"status"}
ToggleFavorite == {"shelf"}
ToggleArchive == {"shelf"}
SetItemGroup == {"shelf"}
PutInterest == {"interest", "demand"}
DeleteMedia == {"media"}
DeleteItem == {"shelf", "comments", "highlights", "demand"}

\* folders.ts: a folder is counted with its items; deleting one detaches them, and the
\* follows filed in it (its foreign key).
ListGroups == {"folders", "shelf"}
CreateGroup == {"folders"}
RenameGroup == {"folders"}
DeleteGroup == {"folders", "shelf", "follows"}

\* annotations.ts, and the notes on a follow (subscriptions.ts).
AddComment == {"comments"}
DeleteComment == {"comments"}
AddHighlight == {"highlights"}
UpdateHighlight == {"highlights"}
DeleteHighlight == {"highlights"}
ListAnnotations == {"highlights", "comments", "content"}
AddFollowNote == {"notes"}
ListFollowNotes == {"notes"}

\* queue.ts, timeline.ts, stats.ts and graph.ts.
QueueCount == {"status", "shelf"}
ListQueue == {"status", "demand", "content", "shelf"}
ListTimeline == {"follows", "channels", "status", "demand", "content", "shelf"}
GetStats == {"catalog", "status"}
GetGraph == {"graph", "shelf", "highlights", "comments"}

\* collections.ts.
ListCollections == {"collections", "status"}
GetCollection == {"collections", "status"}
ListTrackItems == {"collections", "status", "demand", "content", "shelf", "interest"}
ListCollectionBulletins == {"collections", "status", "content", "shelf", "localized"}

\* bulletin.ts.
ListBulletins == {"status", "content", "shelf", "follows", "channels", "collections",
                  "localized", "articles", "articleFollows"}
GetBulletin == {"status", "content", "shelf", "localized", "briefs", "translations", "channels"}
PrepareReadingSummary == {"briefs"}

\* channels.ts and sources.ts.
ResolveChannel == {"channels"}
ListChannels == {"channels", "follows", "status", "content"}
GetChannel == {"channels", "follows", "status", "content"}
FollowChannel == {"follows", "demand"}
UpdateFollow == {"follows"}
DeleteFollow == {"follows", "demand"}
ListChannelItems == {"channels", "status", "demand", "content", "shelf"}
PollChannel == {"follows"}
SearchSources == {"channels", "follows", "sources", "articleFollows"}
FollowFound == {"follows", "channels", "demand", "sources", "articleFollows"}

\* auth.ts: the reader's language, and the bulletins queued for it.
GetPreference == {"preference"}
UpdatePreference == {"preference", "localized", "translations"}
BackfillBulletins == {"localized", "translations"}

\* admin.ts and feedback.ts.
ListUsers == {"users", "shelf", "status", "follows"}
SetAdmin == {"users"}
DeleteUser == {"users", "shelf", "comments", "highlights", "follows", "folders", "interest"}
AdminQueue == {"catalog", "status", "demand", "shelf"}
BumpItem == {"demand"}
AdminRetry == {"status"}
DropItem == {"catalog", "shelf"}
SendFeedback == {"feedback"}
ListFeedback == {"feedback"}

\* research.ts.
ListCoverage == {"coverage"}
AddCoverage == {"coverage"}
DeleteCoverage == {"coverage"}
ListAgents == {"agents"}
AddAgent == {"agents"}
UpdateAgent == {"agents"}
DeleteAgent == {"agents"}
ListReports == {"reports", "localized", "agents", "coverage"}
GetReport == {"reports", "localized", "content", "agents", "coverage"}
GetDossier == {"reports", "localized", "coverage"}
RunResearch == {"reports"}
AskQuestion == {"asks"}
ListAsks == {"asks"}

\* rss.ts and substack.ts.
RssStatus == {"articles", "articleFollows"}
RssFollowed == {"sources", "articleFollows", "articles", "connections"}
RssCatalog == {"sources", "articleFollows", "articles", "connections"}
FollowSource == {"sources", "articleFollows"}
AddSource == {"sources", "articleFollows"}
RemoveSource == {"articleFollows"}
ImportSources == {"sources", "articleFollows"}
GetArticle == {"articles", "reads", "articleFollows"}
GetArticleBody == {"articles"}
MarkArticle == {"reads"}
RetryEntry == {"articles"}
ListConnections == {"connections"}
ListPublications == {"connections", "sources", "articleFollows"}
AddConnection == {"connections"}
UpdateConnection == {"connections", "sources", "articles"}
FollowPublication == {"sources", "articleFollows"}
ImportPublications == {"sources", "articleFollows"}
=============================================================================
