------------------------------- MODULE MCScreens -------------------------------
(***************************************************************************)
(* One run for what a reader waits for on three screens: the jobs that       *)
(* finish the page of an item, the feed of bulletins, and the page of an     *)
(* article.  They share no row and no message, so that an interleaving of     *)
(* their steps shows nothing that one of them alone does not.  `focus` says  *)
(* which of them moves; the others rest in an initial state.                *)
(***************************************************************************)
EXTENDS FollowUps, BulletinFeed, RssArticles

VARIABLE focus

screenVars == <<focus, followUpVars, feedVars, articleVars>>

\* Two media items and two articles.
CardsOf == {<<0, 1>>, <<0, 2>>, <<1, 1>>, <<1, 2>>}

On(part) == focus = part

ScreensInit ==
  /\ focus \in {"followUps", "feed", "article"}
  /\ FollowUpsInit /\ FeedInit /\ ArticlesInit
  /\ On("feed") \/ (visible = {} /\ \A c \in Cards : date[c] = 1)
  /\ On("article") \/ (seed = 1 /\ copies = {} /\ readers.prefer = {})

ScreensNext ==
  \/ On("followUps") /\ FollowUpsNext /\ UNCHANGED <<focus, feedVars, articleVars>>
  \/ On("feed") /\ FeedNext /\ UNCHANGED <<focus, followUpVars, articleVars>>
  \/ On("article") /\ ArticlesNext /\ UNCHANGED <<focus, followUpVars, feedVars>>

\* The fairness of the part that moves.
ScreensFairness ==
  /\ \A s \in Slots : WF_followUpVars(On("followUps") /\ FollowUpStep(s))
  /\ WF_feedVars(On("feed") /\ StartAll)
  /\ WF_feedVars(On("feed") /\ ReadPage)
  /\ \A d \in Drains : WF_articleVars(On("article") /\ DrainStep(d))
  /\ WF_articleVars(On("article") /\ ExpireArticle)

ScreensSpec == ScreensInit /\ [][ScreensNext]_screenVars /\ ScreensFairness

-----------------------------------------------------------------------------
\* The poster of a finished summary comes (PosterComes of FollowUps), when the
\* jobs of the item move, unless a message was lost or the poster waits for an
\* edition that nobody queues.
PosterComesOn == On("followUps") => PosterComes

\* The pages shown become those of the feed (FeedSettles of BulletinFeed), when
\* the feed moves.
FeedSettlesOn == On("feed") => FeedSettles

\* An article that is followed comes to rest (ArticleSettles of RssArticles), when
\* it is the article that moves.
ArticleSettlesOn == On("article") => ArticleSettles
=============================================================================
