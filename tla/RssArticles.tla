----------------------------- MODULE RssArticles -----------------------------
(***************************************************************************)
(* How an article of the reader gets its text and its editions:            *)
(* cf/worker/src/lib/rss.ts (drainRss, summarizeRss, wakeRss and the        *)
(* upgrade of a known entry in persistEntries) with the requests of         *)
(* routes/rss.ts.                                                          *)
(*                                                                         *)
(* A drain claims the article by a conditional update that is its lease,    *)
(* extracts the text unless one is saved, writes an edition per language    *)
(* and releases the article.  A long text is first condensed to evidence,   *)
(* a few sections per drain.  Messages only start drains, and the cron      *)
(* sends some at every tick: a drain may start at any time here.            *)
(*                                                                         *)
(* One step is one D1 statement with the call of a service before it.  A    *)
(* text stands for its hash and its completeness.  Waiting times before a   *)
(* retry are left out.  A lease (20 minutes) ends only after its holder is  *)
(* gone: an invocation of the queue lives for 15.  RssMerge has the         *)
(* merging of articles, RssSources the polling.                            *)
(***************************************************************************)
EXTENDS Naturals, FiniteSets

CONSTANTS
  Drains,              \* concurrent invocations of drainRss
  EditionLangs,               \* languages a reader may prefer
  Sections,            \* articleChunks of a long text
  MaxEvidence,         \* sections condensed by one drain
  MaxArticleAttempts,
  AnyLanguage,         \* whether a page may ask for a language nobody prefers
  MaxArticleFaults,    \* bound: evictions, failures, capacity errors
  MaxArticleRequests,  \* bound: requests
  NoDrain

ASSUME RssArticleAssumption ==
  /\ NoDrain \notin Drains
  /\ "original" \notin EditionLangs /\ IsFiniteSet(EditionLangs)
  /\ Sections \in Nat /\ MaxEvidence \in Nat \ {0}
  /\ MaxArticleAttempts \in Nat \ {0} /\ AnyLanguage \in BOOLEAN
  /\ MaxArticleFaults \in Nat /\ MaxArticleRequests \in Nat

VARIABLES
  article,    \* rss_article
  seed,       \* the discovery snapshot of the article in R2
  evidence,   \* condensed sections of each text in R2
  edition,    \* rss_edition: the text each language was written from
  copies,     \* languages whose edition is a copy of the original one
  readers,    \* whether somebody follows a source of it, and what they prefer
  asked,      \* languages a page has asked for that are to come
  active,     \* rssActive
  drain,      \* state of every invocation
  articleFaults, articleRequests

articleVars == <<article, seed, evidence, edition, copies, readers, asked, active,
                 drain, articleFaults, articleRequests>>

-----------------------------------------------------------------------------
(* Rows and invocations *)

\* blank: fewer than ten words; excerpt: completeness partial or missing.
Texts == {"blank", "excerpt", "full", "revised"}
Length(t) == IF t \in {"full", "revised"} THEN Sections ELSE 0

\* A snapshot: 1 an excerpt, 2 the full text, 3 the full text changed later.
Seeds == 1 .. 3
Answers(s) == {"blank", "excerpt", "full"} \cup (IF s = 3 THEN {"revised"} ELSE {})

Editions == {"original"} \cup EditionLangs

Article == [status: {"queued", "fetching", "summarizing", "done", "missing", "error"},
            attempts: 0 .. MaxArticleAttempts, holder: Drains \cup {NoDrain},
            body: Texts \cup {"none"}, hash: Texts \cup {"none"}]

Drain == [pc: {"idle", "extract", "check", "write"},
          text: Texts \cup {"none"}, todo: SUBSET Editions, calls: 0 .. MaxEvidence]
Asleep == [pc |-> "idle", text |-> "none", todo |-> {}, calls |-> 0]

In(d, point) == drain[d].pc = point
Become(d, state) == drain' = [drain EXCEPT ![d] = state]

ArticleFault == articleFaults < MaxArticleFaults /\ articleFaults' = articleFaults + 1
ArticleRequest == /\ articleRequests < MaxArticleRequests
                  /\ articleRequests' = articleRequests + 1

\* Writes of a drain are conditional on its lease_token.
Guarded(d, row) == article' = IF article.holder = d THEN row ELSE article
Released(status) == [article EXCEPT !.status = status, !.holder = NoDrain]

\* The article goes back without an attempt being counted.
SentBack == [Released("queued") EXCEPT !.attempts = IF @ = 0 THEN 0 ELSE @ - 1]

-----------------------------------------------------------------------------
(* A drain: drainRss *)

\* Mutant: an article that is being worked on is taken.
ClaimableAlways ==
  /\ active /\ readers.follow
  /\ article.status \in {"queued", "error", "fetching", "summarizing"}
  /\ article.attempts < MaxArticleAttempts

\* Mutant: an article whose drain was evicted while it wrote is forgotten.
ClaimableFetching ==
  /\ active /\ readers.follow
  /\ article.status \in {"queued", "error", "fetching"}
  /\ article.attempts < MaxArticleAttempts
  /\ article.holder = NoDrain

Claimable ==
  /\ active /\ readers.follow
  /\ article.status \in {"queued", "error", "fetching", "summarizing"}
  /\ article.attempts < MaxArticleAttempts
  /\ article.holder = NoDrain

ClaimArticle(d) ==
  /\ In(d, "idle") /\ Claimable
  /\ article' = [article EXCEPT !.status = "fetching", !.holder = d, !.attempts = @ + 1]
  /\ Become(d, [Asleep EXCEPT !.pc = IF article.body = "none" THEN "extract" ELSE "check",
                              !.text = article.body])
  /\ UNCHANGED <<seed, evidence, edition, copies, readers, asked, active,
                 articleFaults, articleRequests>>

\* The text is extracted from the snapshot or the page, and saved.
Extract(d) ==
  /\ In(d, "extract")
  /\ \E t \in Answers(seed) :
       /\ Guarded(d, [article EXCEPT !.body = t, !.hash = t])
       /\ Become(d, [drain[d] EXCEPT !.pc = "check", !.text = t])
  /\ UNCHANGED <<seed, evidence, edition, copies, readers, asked, active,
                 articleFaults, articleRequests>>

\* Mutant: the languages are not looked up again for a text that has an edition.
CheckOriginal(d) ==
  /\ In(d, "check")
  /\ IF drain[d].text = "blank"
     THEN Guarded(d, Released("missing")) /\ Become(d, Asleep)
     ELSE /\ Guarded(d, [article EXCEPT !.status = "summarizing"])
          /\ Become(d, [drain[d] EXCEPT !.pc = "write",
                        !.todo = IF edition["original"] = drain[d].text THEN {}
                                 ELSE {"original"} \cup readers.prefer])
  /\ UNCHANGED <<seed, evidence, edition, copies, readers, asked, active,
                 articleFaults, articleRequests>>

\* Without a text to speak of there is nothing to write; otherwise the
\* languages the readers prefer are looked up.
Check(d) ==
  /\ In(d, "check")
  /\ IF drain[d].text = "blank"
     THEN Guarded(d, Released("missing")) /\ Become(d, Asleep)
     ELSE /\ Guarded(d, [article EXCEPT !.status = "summarizing"])
          /\ Become(d, [drain[d] EXCEPT !.pc = "write", !.todo = {"original"} \cup readers.prefer])
  /\ UNCHANGED <<seed, evidence, edition, copies, readers, asked, active,
                 articleFaults, articleRequests>>

\* The language a drain is at: the original comes first.
Current(d, l) ==
  /\ In(d, "write") /\ l \in drain[d].todo
  /\ "original" \in drain[d].todo => l = "original"

Copied(l) == l \in copies

\* summarizeRss has more sections to condense than are saved.
Lacking(d, l) ==
  /\ Current(d, l) /\ ~Copied(l) /\ edition[l] # drain[d].text
  /\ evidence[drain[d].text] < Length(drain[d].text)

Condense(d) ==
  /\ \E l \in Editions : Lacking(d, l)
  /\ drain[d].calls < MaxEvidence
  /\ evidence' = [evidence EXCEPT ![drain[d].text] = @ + 1]
  /\ Become(d, [drain[d] EXCEPT !.calls = @ + 1])
  /\ UNCHANGED <<article, seed, edition, copies, readers, asked, active,
                 articleFaults, articleRequests>>

\* rss_continue: the rest is left to the next drain.
Continue(d) ==
  /\ \E l \in Editions : Lacking(d, l)
  /\ drain[d].calls = MaxEvidence
  /\ Guarded(d, SentBack)
  /\ Become(d, Asleep)
  /\ UNCHANGED <<seed, evidence, edition, copies, readers, asked, active,
                 articleFaults, articleRequests>>

\* Mutant: an edition that exists is not written again for another text.
WriteEditionOnce(d) ==
  /\ \E l \in Editions :
       /\ Current(d, l) /\ ~Lacking(d, l)
       /\ edition' = [edition EXCEPT ![l] = IF @ # "none" THEN @
                                            ELSE IF Copied(l) THEN edition["original"] ELSE drain[d].text]
       /\ asked' = asked \ {l}
       /\ Become(d, [drain[d] EXCEPT !.todo = @ \ {l}, !.calls = 0])
  /\ UNCHANGED <<article, seed, evidence, copies, readers, active,
                 articleFaults, articleRequests>>

\* The edition of a language is written, copied, or there already.
WriteEdition(d) ==
  /\ \E l \in Editions :
       /\ Current(d, l) /\ ~Lacking(d, l)
       /\ edition' = [edition EXCEPT ![l] = IF Copied(l) THEN edition["original"] ELSE drain[d].text]
       /\ asked' = asked \ {l}
       /\ Become(d, [drain[d] EXCEPT !.todo = @ \ {l}, !.calls = 0])
  /\ UNCHANGED <<article, seed, evidence, copies, readers, active,
                 articleFaults, articleRequests>>

FinishArticle(d) ==
  /\ In(d, "write") /\ drain[d].todo = {}
  /\ Guarded(d, Released("done"))
  /\ Become(d, Asleep)
  /\ UNCHANGED <<seed, evidence, edition, copies, readers, asked, active,
                 articleFaults, articleRequests>>

\* A service fails, or the container has no capacity for the extraction.
FailArticle(d) ==
  /\ drain[d].pc \in {"extract", "write"} /\ ArticleFault
  /\ \/ Guarded(d, Released("error"))
     \/ In(d, "extract") /\ Guarded(d, SentBack)
  /\ Become(d, Asleep)
  /\ UNCHANGED <<seed, evidence, edition, copies, readers, asked, active, articleRequests>>

EvictDrain(d) ==
  /\ ~In(d, "idle") /\ ArticleFault
  /\ Become(d, Asleep)
  /\ UNCHANGED <<article, seed, evidence, edition, copies, readers, asked, active, articleRequests>>

\* The lease of an invocation that is gone ends.
ExpireArticle ==
  /\ article.holder # NoDrain /\ In(article.holder, "idle")
  /\ article' = [article EXCEPT !.holder = NoDrain]
  /\ UNCHANGED <<seed, evidence, edition, copies, readers, asked, active, drain,
                 articleFaults, articleRequests>>

-----------------------------------------------------------------------------
(* The poll and the cron *)

\* A poll delivers a known entry with a fuller or a changed text: the snapshot
\* is replaced, then the article is queued again unless it is being worked on.
\* Nothing is queued when the poll is cut off in between.
Upgrade(s) ==
  /\ active /\ readers.follow /\ s > seed
  /\ seed' = s
  /\ \/ /\ article' = IF article.holder = NoDrain
                      THEN [article EXCEPT !.status = "queued", !.body = "none", !.attempts = 0]
                      ELSE article
        /\ UNCHANGED articleFaults
     \/ UNCHANGED article /\ ArticleFault
  /\ UNCHANGED <<evidence, edition, copies, readers, asked, active, drain, articleRequests>>

\* wakeRss gives excerpts and missing texts another chance every day.
DailyUpgrade ==
  /\ active /\ readers.follow
  /\ article.hash \in {"blank", "excerpt"} /\ article.status \in {"done", "missing"}
  /\ article.attempts < MaxArticleAttempts
  /\ article' = [article EXCEPT !.status = "queued", !.body = "none"]
  /\ UNCHANGED <<seed, evidence, edition, copies, readers, asked, active, drain,
                 articleFaults, articleRequests>>

-----------------------------------------------------------------------------
(* Requests *)

\* GET /articles/:id in a language that is not there yet.
AskLanguage(l) ==
  /\ readers.follow /\ article.status = "done" /\ edition[l] # article.hash
  /\ l \in readers.prefer \/ AnyLanguage
  /\ ArticleRequest
  /\ article' = [article EXCEPT !.status = "queued", !.attempts = 0]
  /\ asked' = asked \cup {l}
  /\ UNCHANGED <<seed, evidence, edition, copies, readers, active, drain, articleFaults>>

\* POST /articles/:id/retry.
RetryArticle(refetch) ==
  /\ readers.follow /\ ArticleRequest
  /\ article' = IF article.holder = NoDrain
                THEN [article EXCEPT !.status = "queued", !.attempts = 0,
                                     !.body = IF refetch THEN "none" ELSE @]
                ELSE article
  /\ UNCHANGED <<seed, evidence, edition, copies, readers, asked, active, drain, articleFaults>>

\* A reader follows a source of the article, stops, or changes the language.
Read(follow, prefer) ==
  /\ ArticleRequest
  /\ readers' = [follow |-> follow, prefer |-> IF follow THEN prefer ELSE {}]
  /\ readers' # readers
  /\ asked' = IF AnyLanguage THEN asked ELSE asked \cap readers'.prefer
  /\ UNCHANGED <<article, seed, evidence, edition, copies, active, drain, articleFaults>>

\* POST /control.
Pause ==
  /\ ArticleRequest
  /\ active' = ~active
  /\ UNCHANGED <<article, seed, evidence, edition, copies, readers, asked, drain, articleFaults>>

-----------------------------------------------------------------------------
(* The specification *)

\* An entry that a poll has just found.
ArticlesInit ==
  /\ article = [status |-> "queued", attempts |-> 0, holder |-> NoDrain,
                body |-> "none", hash |-> "none"]
  /\ seed \in {1, 2}
  /\ evidence = [t \in Texts |-> 0]
  /\ edition = [l \in Editions |-> "none"]
  /\ copies \in SUBSET EditionLangs
  /\ \E prefer \in SUBSET EditionLangs : readers = [follow |-> TRUE, prefer |-> prefer]
  /\ asked = {} /\ active = TRUE
  /\ drain = [d \in Drains |-> Asleep]
  /\ articleFaults = 0 /\ articleRequests = 0

DrainStep(d) ==
  \/ ClaimArticle(d) \/ Extract(d) \/ Check(d) \/ Condense(d) \/ Continue(d)
  \/ WriteEdition(d) \/ FinishArticle(d)

ArticlesNext ==
  \/ \E d \in Drains : DrainStep(d) \/ FailArticle(d) \/ EvictDrain(d)
  \/ ExpireArticle \/ DailyUpgrade \/ Pause
  \/ \E s \in Seeds : Upgrade(s)
  \/ \E l \in EditionLangs : AskLanguage(l)
  \/ \E refetch \in BOOLEAN : RetryArticle(refetch)
  \/ \E follow \in BOOLEAN : \E prefer \in SUBSET EditionLangs : Read(follow, prefer)

ArticlesSpec == ArticlesInit /\ [][ArticlesNext]_articleVars

\* Messages are delivered, drains go on until they are through, leases end.
ArticlesFairness ==
  /\ \A d \in Drains : WF_articleVars(DrainStep(d))
  /\ WF_articleVars(ExpireArticle)

ArticlesFairSpec == ArticlesSpec /\ ArticlesFairness

-----------------------------------------------------------------------------
(* Properties *)

\* Every variable keeps its type.
ArticlesTypeOK ==
  /\ article \in Article
  /\ seed \in Seeds
  /\ evidence \in [Texts -> 0 .. Sections]
  /\ edition \in [Editions -> Texts \cup {"none"}]
  /\ copies \subseteq EditionLangs /\ asked \subseteq EditionLangs
  /\ readers \in [follow: BOOLEAN, prefer: SUBSET EditionLangs] /\ active \in BOOLEAN
  /\ drain \in [Drains -> Drain]
  /\ articleFaults \in 0 .. MaxArticleFaults /\ articleRequests \in 0 .. MaxArticleRequests

\* What a page shows of a done article was written from the text that is saved
\* (pages select editions by body_hash): no upgrade, retry or second drain
\* leaves a done article with an edition of another text.
DoneIsCurrent ==
  article.status = "done" =>
    article.body = article.hash /\ edition["original"] = article.hash

\* "DB leases prevent duplicate work" (cf/rss/README.md:145): drains do not
\* work on one article together.
OneDrain == Cardinality({d \in Drains : ~In(d, "idle")}) <= 1

\* Out of attempts, and nobody works on it.
Exhausted == article.attempts = MaxArticleAttempts /\ article.holder = NoDrain

\* An article that somebody follows is done in the end, or found to have no
\* text, or was tried as often as it may be.
ArticleSettles ==
  article.status \in {"queued", "fetching", "summarizing"} ~>
    \/ article.status \in {"done", "missing"} \/ Exhausted
    \/ ~readers.follow \/ ~active

\* "Opening a completed article in Chinese queues a missing edition from its
\* saved body" (cf/rss/README.md:136): the edition comes.
AskedArrives ==
  \A l \in EditionLangs : l \in asked ~>
    \/ l \notin asked \/ Exhausted \/ article.status = "missing"
    \/ ~readers.follow \/ ~active
=============================================================================
