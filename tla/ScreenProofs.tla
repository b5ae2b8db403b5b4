---------------------------- MODULE ScreenProofs ----------------------------
(***************************************************************************)
(* Theorems about the parts that MCScreens composes: an article            *)
(* (RssArticles: types, one drain at a time, editions of the text that is   *)
(* saved), the jobs that follow a summary (FollowUps: what waits has        *)
(* somebody at work on it, pictures are paid once) and the feed of          *)
(* bulletins (BulletinFeed: no page skips a card), for any number of        *)
(* drains, languages, messages, requests, cards, pages and faults.          *)
(***************************************************************************)
EXTENDS FollowUps, RssArticles, BulletinFeed, FiniteSetTheorems, WellFoundedInduction,
        NaturalsInduction, TLAPS

-----------------------------------------------------------------------------
(* The article is well typed *)

\* A drain that checks or writes has a text.
HasText == \A d \in Drains : drain[d].pc \in {"check", "write"} => drain[d].text \in Texts

Typed == ArticlesTypeOK /\ HasText

LEMMA ConstantsTyped ==
  /\ Asleep \in Drain /\ Asleep.pc = "idle"
  /\ "original" \in Editions /\ EditionLangs \subseteq Editions
  /\ 0 \in 0 .. MaxArticleAttempts /\ 0 \in 0 .. MaxEvidence
<1>1. 0 \in 0 .. MaxArticleAttempts /\ 0 \in 0 .. MaxEvidence
  BY RssArticleAssumption
<1>. QED BY <1>1 DEF Asleep, Drain, Editions

\* What becomes of the row.
LEMMA RowTyped ==
  ASSUME article \in Article, NEW status \in {"queued", "done", "missing", "error"}
  PROVE  /\ Released(status) \in Article /\ SentBack \in Article
         /\ Released(status).holder = NoDrain /\ SentBack.holder = NoDrain
<1>1. article.attempts \in 0 .. MaxArticleAttempts /\ MaxArticleAttempts \in Nat
  BY RssArticleAssumption DEF Article
<1>2. (IF article.attempts = 0 THEN 0 ELSE article.attempts - 1) \in 0 .. MaxArticleAttempts
  BY <1>1
<1>. QED BY <1>2 DEF Released, SentBack, Article

LEMMA GuardedTyped ==
  ASSUME article \in Article, NEW d, NEW row \in Article, Guarded(d, row)
  PROVE  article' \in Article
BY DEF Guarded

LEMMA BecomeTyped ==
  ASSUME Typed, NEW d \in Drains, NEW state \in Drain, Become(d, state),
         state.pc \in {"check", "write"} => state.text \in Texts
  PROVE  drain' \in [Drains -> Drain] /\ HasText'
BY DEF Typed, ArticlesTypeOK, HasText, Become

LEMMA ArticlesInitTyped == ArticlesInit => Typed
<1>. SUFFICES ASSUME ArticlesInit PROVE Typed
  OBVIOUS
<1>1. article \in Article
  BY ConstantsTyped DEF ArticlesInit, Article
<1>2. evidence \in [Texts -> 0 .. Sections]
  BY RssArticleAssumption DEF ArticlesInit
<1>3. edition \in [Editions -> Texts \cup {"none"}]
  BY DEF ArticlesInit
<1>4. readers \in [follow: BOOLEAN, prefer: SUBSET EditionLangs] /\ active \in BOOLEAN
  BY DEF ArticlesInit
<1>5. drain \in [Drains -> Drain] /\ HasText
  BY ConstantsTyped DEF ArticlesInit, HasText
<1>6. articleFaults \in 0 .. MaxArticleFaults /\ articleRequests \in 0 .. MaxArticleRequests
  BY RssArticleAssumption DEF ArticlesInit
<1>7. seed \in Seeds /\ copies \subseteq EditionLangs /\ asked \subseteq EditionLangs
  BY DEF ArticlesInit, Seeds
<1>. QED BY <1>1, <1>2, <1>3, <1>4, <1>5, <1>6, <1>7 DEF Typed, ArticlesTypeOK

\* Counted faults and requests stay in their bounds.
LEMMA FaultTyped == ASSUME ArticlesTypeOK, ArticleFault PROVE articleFaults' \in 0 .. MaxArticleFaults
BY RssArticleAssumption DEF ArticlesTypeOK, ArticleFault
LEMMA RequestTyped ==
  ASSUME ArticlesTypeOK, ArticleRequest PROVE articleRequests' \in 0 .. MaxArticleRequests
BY RssArticleAssumption DEF ArticlesTypeOK, ArticleRequest

LEMMA DrainStepTyped ==
  ASSUME Typed, NEW d \in Drains, DrainStep(d) PROVE Typed'
<1>. USE DEF Typed
<1>1. drain[d] \in Drain /\ article \in Article
  BY DEF ArticlesTypeOK
<1>2. CASE ClaimArticle(d)
  <2>1. article.attempts + 1 \in 0 .. MaxArticleAttempts
    BY <1>1, <1>2, RssArticleAssumption DEF ClaimArticle, Claimable, Article
  <2>2. article' \in Article
    BY <1>1, <1>2, <2>1 DEF ClaimArticle, Article
  <2>3. DEFINE next == IF article.body = "none" THEN "extract" ELSE "check"
        state == [Asleep EXCEPT !.pc = next, !.text = article.body]
  <2>4. state \in Drain /\ (state.pc \in {"check", "write"} => state.text \in Texts)
    BY <1>1, ConstantsTyped DEF Article, Drain, Asleep
  <2>5. drain' \in [Drains -> Drain] /\ HasText'
    BY <1>2, <2>4, BecomeTyped DEF ClaimArticle
  <2>. QED BY <1>2, <2>2, <2>5 DEF ClaimArticle, ArticlesTypeOK
<1>3. CASE Extract(d)
  <2>1. PICK t \in Answers(seed) :
          /\ Guarded(d, [article EXCEPT !.body = t, !.hash = t])
          /\ Become(d, [drain[d] EXCEPT !.pc = "check", !.text = t])
    BY <1>3 DEF Extract
  <2>2. t \in Texts
    BY DEF Answers, Texts
  <2>3. article' \in Article
    BY <1>1, <2>1, <2>2, GuardedTyped DEF Article
  <2>4. [drain[d] EXCEPT !.pc = "check", !.text = t] \in Drain
    BY <1>1, <2>2 DEF Drain
  <2>5. [drain[d] EXCEPT !.pc = "check", !.text = t].text \in Texts
    BY <1>1, <2>2 DEF Drain
  <2>6. drain' \in [Drains -> Drain] /\ HasText'
    BY <2>1, <2>4, <2>5, BecomeTyped
  <2>. QED BY <1>3, <2>3, <2>6 DEF Extract, ArticlesTypeOK
<1>4. CASE Check(d)
  <2>1. drain[d].text \in Texts
    BY <1>4 DEF Check, In, HasText
  <2>2. CASE drain[d].text = "blank"
    <3>1. article' \in Article
      BY <1>1, <1>4, <2>2, RowTyped, GuardedTyped DEF Check
    <3>2. drain' \in [Drains -> Drain] /\ HasText'
      BY <1>4, <2>2, BecomeTyped, ConstantsTyped DEF Check
    <3>. QED BY <1>4, <3>1, <3>2 DEF Check, ArticlesTypeOK
  <2>3. CASE drain[d].text # "blank"
    <3>1. article' \in Article
      BY <1>1, <1>4, <2>3, GuardedTyped DEF Check, Article
    <3>2. {"original"} \cup readers.prefer \in SUBSET Editions
      BY ConstantsTyped DEF ArticlesTypeOK
    <3>3. [drain[d] EXCEPT !.pc = "write", !.todo = {"original"} \cup readers.prefer] \in Drain
      BY <1>1, <3>2 DEF Drain
    <3>4. [drain[d] EXCEPT !.pc = "write", !.todo = {"original"} \cup readers.prefer].text \in Texts
      BY <1>1, <2>1 DEF Drain
    <3>5. drain' \in [Drains -> Drain] /\ HasText'
      BY <1>4, <2>3, <3>3, <3>4, BecomeTyped DEF Check
    <3>. QED BY <1>4, <3>1, <3>5 DEF Check, ArticlesTypeOK
  <2>. QED BY <2>2, <2>3
<1>5. CASE Condense(d)
  <2>1. PICK l \in Editions : Lacking(d, l)
    BY <1>5 DEF Condense
  <2>2. drain[d].text \in Texts /\ drain[d].pc = "write"
    BY <2>1 DEF Lacking, Current, In, HasText
  <2>3. evidence[drain[d].text] \in 0 .. Sections /\ Length(drain[d].text) \in {0, Sections}
    BY <2>2 DEF ArticlesTypeOK, Length
  <2>4. evidence[drain[d].text] + 1 \in 0 .. Sections
    BY <2>1, <2>3, RssArticleAssumption DEF Lacking
  <2>5. evidence' \in [Texts -> 0 .. Sections]
    BY <1>5, <2>4 DEF Condense, ArticlesTypeOK
  <2>6. drain[d].calls + 1 \in 0 .. MaxEvidence
    BY <1>1, <1>5, RssArticleAssumption DEF Condense, Drain
  <2>7. [drain[d] EXCEPT !.calls = @ + 1] \in Drain
    BY <1>1, <2>6 DEF Drain
  <2>8. [drain[d] EXCEPT !.calls = @ + 1].text = drain[d].text
    BY <1>1 DEF Drain
  <2>9. drain' \in [Drains -> Drain] /\ HasText'
    BY <1>5, <2>2, <2>7, <2>8, BecomeTyped DEF Condense
  <2>. QED BY <1>5, <2>5, <2>9 DEF Condense, ArticlesTypeOK
<1>6. CASE Continue(d)
  <2>1. article' \in Article
    BY <1>1, <1>6, RowTyped, GuardedTyped DEF Continue
  <2>2. drain' \in [Drains -> Drain] /\ HasText'
    BY <1>6, BecomeTyped, ConstantsTyped DEF Continue
  <2>. QED BY <1>6, <2>1, <2>2 DEF Continue, ArticlesTypeOK
<1>7. CASE WriteEdition(d)
  <2>1. PICK l \in Editions :
          /\ Current(d, l)
          /\ edition' = [edition EXCEPT ![l] = IF Copied(l) THEN edition["original"] ELSE drain[d].text]
          /\ asked' = asked \ {l}
          /\ Become(d, [drain[d] EXCEPT !.todo = @ \ {l}, !.calls = 0])
    BY <1>7 DEF WriteEdition
  <2>2. drain[d].text \in Texts /\ drain[d].pc = "write"
    BY <2>1 DEF Current, In, HasText
  <2>3. edition["original"] \in Texts \cup {"none"}
    BY ConstantsTyped DEF ArticlesTypeOK
  <2>4. edition' \in [Editions -> Texts \cup {"none"}]
    BY <2>1, <2>2, <2>3 DEF ArticlesTypeOK
  <2>5. [drain[d] EXCEPT !.todo = @ \ {l}, !.calls = 0] \in Drain
    BY <1>1, ConstantsTyped DEF Drain
  <2>6. [drain[d] EXCEPT !.todo = @ \ {l}, !.calls = 0].text = drain[d].text
    BY <1>1 DEF Drain
  <2>7. drain' \in [Drains -> Drain] /\ HasText'
    BY <2>1, <2>2, <2>5, <2>6, BecomeTyped
  <2>. QED BY <1>7, <2>1, <2>4, <2>7 DEF WriteEdition, ArticlesTypeOK
<1>8. CASE FinishArticle(d)
  <2>1. article' \in Article
    BY <1>1, <1>8, RowTyped, GuardedTyped DEF FinishArticle
  <2>2. drain' \in [Drains -> Drain] /\ HasText'
    BY <1>8, BecomeTyped, ConstantsTyped DEF FinishArticle
  <2>. QED BY <1>8, <2>1, <2>2 DEF FinishArticle, ArticlesTypeOK
<1>. QED BY <1>2, <1>3, <1>4, <1>5, <1>6, <1>7, <1>8 DEF DrainStep

LEMMA FailureTyped ==
  ASSUME Typed, NEW d \in Drains, FailArticle(d) \/ EvictDrain(d) PROVE Typed'
<1>. USE DEF Typed
<1>1. article' \in Article
  BY RowTyped, GuardedTyped DEF FailArticle, EvictDrain, ArticlesTypeOK
<1>2. drain' \in [Drains -> Drain] /\ HasText'
  BY BecomeTyped, ConstantsTyped DEF FailArticle, EvictDrain
<1>3. articleFaults' \in 0 .. MaxArticleFaults
  BY FaultTyped DEF FailArticle, EvictDrain
<1>. QED BY <1>1, <1>2, <1>3 DEF FailArticle, EvictDrain, ArticlesTypeOK

\* What the row becomes when it is sent back, or its lease ends.
LEMMA RequeuedTyped ==
  ASSUME article \in Article, NEW body \in {"none", article.body}
  PROVE  /\ [article EXCEPT !.status = "queued", !.attempts = 0, !.body = body] \in Article
         /\ [article EXCEPT !.status = "queued", !.attempts = 0] \in Article
         /\ [article EXCEPT !.status = "queued", !.body = "none", !.attempts = 0] \in Article
         /\ [article EXCEPT !.status = "queued", !.body = "none"] \in Article
         /\ [article EXCEPT !.holder = NoDrain] \in Article
BY ConstantsTyped DEF Article

LEMMA UpgradeTyped ==
  ASSUME Typed, ExpireArticle \/ DailyUpgrade \/ \E s \in Seeds : Upgrade(s) PROVE Typed'
<1>. USE DEF Typed
<1>1. article' \in Article
  BY RequeuedTyped DEF ExpireArticle, DailyUpgrade, Upgrade, ArticlesTypeOK
<1>2. articleFaults' \in 0 .. MaxArticleFaults
  BY FaultTyped DEF ExpireArticle, DailyUpgrade, Upgrade, ArticlesTypeOK
<1>3. seed' \in Seeds
  BY DEF ExpireArticle, DailyUpgrade, Upgrade, ArticlesTypeOK
<1>4. UNCHANGED <<evidence, edition, copies, readers, asked, active, drain, articleRequests>>
  BY DEF ExpireArticle, DailyUpgrade, Upgrade
<1>. QED BY <1>1, <1>2, <1>3, <1>4 DEF ArticlesTypeOK, HasText

LEMMA AskTyped ==
  ASSUME Typed,
         \/ \E l \in EditionLangs : AskLanguage(l)
         \/ \E refetch \in BOOLEAN : RetryArticle(refetch)
  PROVE  Typed'
<1>. USE DEF Typed
<1>1. article' \in Article
  <2>1. ASSUME NEW l \in EditionLangs, AskLanguage(l) PROVE article' \in Article
    BY <2>1, RequeuedTyped DEF AskLanguage, ArticlesTypeOK
  <2>2. ASSUME NEW refetch \in BOOLEAN, RetryArticle(refetch) PROVE article' \in Article
    <3>. DEFINE body == IF refetch THEN "none" ELSE article.body
    <3>1. article \in Article /\ body \in {"none", article.body}
      BY DEF ArticlesTypeOK
    <3>2. [article EXCEPT !.status = "queued", !.attempts = 0, !.body = body] \in Article
      BY <3>1, RequeuedTyped
    <3>. QED BY <2>2, <3>1, <3>2 DEF RetryArticle
  <2>. QED BY <2>1, <2>2
<1>2. articleRequests' \in 0 .. MaxArticleRequests
  BY RequestTyped DEF AskLanguage, RetryArticle
<1>3. asked' \subseteq EditionLangs
  BY DEF AskLanguage, RetryArticle, ArticlesTypeOK
<1>4. UNCHANGED <<seed, evidence, edition, copies, readers, active, drain, articleFaults>>
  BY DEF AskLanguage, RetryArticle
<1>. QED BY <1>1, <1>2, <1>3, <1>4 DEF ArticlesTypeOK, HasText

LEMMA ReadTyped ==
  ASSUME Typed, NEW follow \in BOOLEAN, NEW prefer \in SUBSET EditionLangs, Read(follow, prefer)
  PROVE  Typed'
<1>. USE DEF Typed
<1>1. readers' \in [follow: BOOLEAN, prefer: SUBSET EditionLangs]
  BY DEF Read
<1>2. asked' \subseteq EditionLangs
  BY DEF Read, ArticlesTypeOK
<1>3. articleRequests' \in 0 .. MaxArticleRequests
  BY RequestTyped DEF Read
<1>4. UNCHANGED <<article, seed, evidence, edition, copies, active, drain, articleFaults>>
  BY DEF Read
<1>. QED BY <1>1, <1>2, <1>3, <1>4 DEF ArticlesTypeOK, HasText

LEMMA PauseTyped == ASSUME Typed, Pause PROVE Typed'
<1>. USE DEF Typed
<1>1. active' \in BOOLEAN
  BY DEF Pause
<1>2. articleRequests' \in 0 .. MaxArticleRequests
  BY RequestTyped DEF Pause
<1>. QED BY <1>1, <1>2 DEF Pause, ArticlesTypeOK, HasText

LEMMA ArticlesStepTyped == Typed /\ [ArticlesNext]_articleVars => Typed'
<1>. SUFFICES ASSUME Typed, [ArticlesNext]_articleVars PROVE Typed'
  OBVIOUS
<1>1. CASE UNCHANGED articleVars
  BY <1>1 DEF articleVars, Typed, ArticlesTypeOK, HasText
<1>. QED BY <1>1, DrainStepTyped, FailureTyped, UpgradeTyped, AskTyped, ReadTyped, PauseTyped
         DEF ArticlesNext

\* Every variable of an article keeps its type.
THEOREM ArticlesTypeCorrect == ArticlesSpec => []ArticlesTypeOK
<1>1. ArticlesInit => Typed
  BY ArticlesInitTyped
<1>2. Typed /\ [ArticlesNext]_articleVars => Typed'
  BY ArticlesStepTyped
<1>3. Typed => ArticlesTypeOK
  BY DEF Typed
<1>. QED BY <1>1, <1>2, <1>3, PTL DEF ArticlesSpec

-----------------------------------------------------------------------------
(* The lease *)

\* Whoever works on the article holds it, and its status says so.
HolderWorks ==
  /\ \A d \in Drains : ~In(d, "idle") => article.holder = d
  /\ article.holder # NoDrain => article.status \in {"fetching", "summarizing"}

\* What a drain works on is what is saved; once the original edition is written
\* it is of that text.
WorksOnSaved ==
  /\ article.body \in {"none", article.hash}
  /\ \A d \in Drains :
       /\ drain[d].pc \in {"check", "write"} =>
            drain[d].text = article.body /\ article.body = article.hash
       /\ drain[d].pc = "write" /\ "original" \notin drain[d].todo =>
            edition["original"] = drain[d].text
  /\ DoneIsCurrent

Kept == Typed /\ HolderWorks /\ WorksOnSaved

LEMMA KeptInit == ArticlesInit => Kept
<1>. SUFFICES ASSUME ArticlesInit PROVE Kept
  OBVIOUS
<1>1. Typed
  BY ArticlesInitTyped
<1>2. HolderWorks /\ WorksOnSaved
  BY DEF ArticlesInit, HolderWorks, WorksOnSaved, DoneIsCurrent, In, Asleep
<1>. QED BY <1>1, <1>2 DEF Kept

\* A drain that works leaves the others alone, since they are idle.
LEMMA OthersIdle ==
  ASSUME Kept, NEW d \in Drains, ~In(d, "idle")
  PROVE  /\ article.holder = d /\ d # NoDrain
         /\ \A e \in Drains \ {d} : In(e, "idle")
BY RssArticleAssumption DEF Kept, HolderWorks

\* The drain d is idle now and the row is as Released or SentBack leave it.
LEMMA LeftKept ==
  ASSUME Kept, Typed', NEW d \in Drains, ~In(d, "idle"), Become(d, Asleep), edition' = edition,
         article'.holder = NoDrain, article'.body = article.body, article'.hash = article.hash,
         article'.status = "done" => /\ article.body = article.hash
                                     /\ edition["original"] = article.hash
  PROVE  Kept'
<1>1. drain'[d] = Asleep /\ \A e \in Drains \ {d} : drain'[e] = drain[e]
  BY DEF Become, Kept, Typed, ArticlesTypeOK
<1>2. \A e \in Drains : drain'[e].pc = "idle"
  BY <1>1, OthersIdle DEF In, Asleep
<1>3. HolderWorks'
  BY <1>2 DEF HolderWorks, In
<1>4. WorksOnSaved'
  BY <1>2 DEF WorksOnSaved, DoneIsCurrent, Kept
<1>. QED BY <1>3, <1>4 DEF Kept

LEMMA LeavingKept ==
  ASSUME Kept, Typed', NEW d \in Drains, Continue(d) \/ FailArticle(d) \/ FinishArticle(d)
  PROVE  Kept'
<1>1. ~In(d, "idle") /\ Become(d, Asleep) /\ edition' = edition
  BY DEF Continue, FailArticle, FinishArticle, In, Lacking, Current
<1>2. article.holder = d
  BY <1>1, OthersIdle
<1>3. article \in Article
  BY DEF Kept, Typed, ArticlesTypeOK
<1>4. CASE Continue(d) \/ FailArticle(d)
  <2>1. article' = SentBack \/ article' = Released("error")
    BY <1>2, <1>4 DEF Continue, FailArticle, Guarded
  <2>2. /\ article'.holder = NoDrain /\ article'.status \in {"queued", "error"}
        /\ article'.body = article.body /\ article'.hash = article.hash
    BY <1>3, <2>1 DEF SentBack, Released, Article
  <2>. QED BY <1>1, <2>2, LeftKept
<1>5. CASE FinishArticle(d)
  <2>1. article' = Released("done")
    BY <1>2, <1>5 DEF FinishArticle, Guarded
  <2>2. /\ article'.holder = NoDrain
        /\ article'.body = article.body /\ article'.hash = article.hash
    BY <1>3, <2>1 DEF Released, Article
  <2>3. article.body = article.hash /\ edition["original"] = article.hash
    BY <1>5 DEF FinishArticle, In, Kept, WorksOnSaved
  <2>. QED BY <1>1, <2>2, <2>3, LeftKept
<1>. QED BY <1>4, <1>5

\* The drain d goes on, holding the article.
LEMMA GoingOnKept ==
  ASSUME Kept, Typed', NEW d \in Drains, NEW state \in Drain, Become(d, state),
         state.pc # "idle",
         \A e \in Drains \ {d} : In(e, "idle"),
         article'.holder = d, article'.status \in {"fetching", "summarizing"},
         article'.body \in {"none", article'.hash},
         state.pc \in {"check", "write"} => state.text = article'.body /\ article'.body = article'.hash,
         state.pc = "write" /\ "original" \notin state.todo => edition'["original"] = state.text
  PROVE  Kept'
<1>1. drain'[d] = state /\ \A e \in Drains \ {d} : drain'[e] = drain[e]
  BY DEF Become, Kept, Typed, ArticlesTypeOK
<1>2. HolderWorks'
  BY <1>1 DEF HolderWorks, In
<1>3. WorksOnSaved'
  BY <1>1 DEF WorksOnSaved, DoneIsCurrent, In
<1>. QED BY <1>2, <1>3 DEF Kept

LEMMA WorkingKept ==
  ASSUME Kept, Typed', NEW d \in Drains,
         ClaimArticle(d) \/ Extract(d) \/ Check(d) \/ Condense(d) \/ WriteEdition(d)
  PROVE  Kept'
<1>1. article \in Article /\ drain[d] \in Drain
  BY DEF Kept, Typed, ArticlesTypeOK
<1>2. CASE ClaimArticle(d)
  <2>. DEFINE next == IF article.body = "none" THEN "extract" ELSE "check"
              state == [Asleep EXCEPT !.pc = next, !.text = article.body]
  <2>1. \A e \in Drains : In(e, "idle")
    BY <1>2, RssArticleAssumption DEF ClaimArticle, Claimable, Kept, HolderWorks
  <2>2. /\ article'.holder = d /\ article'.status = "fetching"
        /\ article'.body = article.body /\ article'.hash = article.hash
    BY <1>1, <1>2 DEF ClaimArticle, Article
  <2>3. state \in Drain /\ state.pc = next /\ state.text = article.body
    BY <1>1, ConstantsTyped DEF Article, Drain, Asleep
  <2>4. article.body \in {"none", article.hash}
    BY DEF Kept, WorksOnSaved
  <2>5. Become(d, state)
    BY <1>2 DEF ClaimArticle
  <2>. HIDE DEF state
  <2>. QED BY <2>1, <2>2, <2>3, <2>4, <2>5, GoingOnKept
<1>3. CASE Extract(d)
  <2>1. PICK t \in Answers(seed) :
          /\ Guarded(d, [article EXCEPT !.body = t, !.hash = t])
          /\ Become(d, [drain[d] EXCEPT !.pc = "check", !.text = t])
    BY <1>3 DEF Extract
  <2>. DEFINE state == [drain[d] EXCEPT !.pc = "check", !.text = t]
  <2>2. article.holder = d /\ (\A e \in Drains \ {d} : In(e, "idle"))
    BY <1>3, OthersIdle DEF Extract, In
  <2>3. article.status \in {"fetching", "summarizing"}
    BY <2>2, OthersIdle, <1>3 DEF Kept, HolderWorks, Extract, In
  <2>4. /\ article'.holder = d /\ article'.status = article.status
        /\ article'.body = t /\ article'.hash = t
    BY <1>1, <2>1, <2>2 DEF Guarded, Article
  <2>5. t \in Texts
    BY DEF Answers, Texts
  <2>6. state \in Drain /\ state.pc = "check" /\ state.text = t
    BY <1>1, <2>5 DEF Drain
  <2>7. Become(d, state)
    BY <2>1
  <2>. HIDE DEF state
  <2>. QED BY <2>2, <2>3, <2>4, <2>6, <2>7, GoingOnKept
<1>4. CASE Check(d)
  <2>1. ~In(d, "idle") /\ drain[d].pc = "check"
    BY <1>4 DEF Check, In
  <2>2. article.holder = d /\ (\A e \in Drains \ {d} : In(e, "idle"))
    BY <2>1, OthersIdle
  <2>3. drain[d].text = article.body /\ article.body = article.hash
    BY <2>1 DEF Kept, WorksOnSaved
  <2>4. CASE drain[d].text = "blank"
    <3>1. article' = Released("missing") /\ Become(d, Asleep) /\ edition' = edition
      BY <1>4, <2>2, <2>4 DEF Check, Guarded
    <3>2. /\ article'.holder = NoDrain /\ article'.status = "missing"
          /\ article'.body = article.body /\ article'.hash = article.hash
      BY <1>1, <3>1 DEF Released, Article
    <3>. QED BY <2>1, <3>1, <3>2, LeftKept
  <2>5. CASE drain[d].text # "blank"
    <3>. DEFINE state == [drain[d] EXCEPT !.pc = "write", !.todo = {"original"} \cup readers.prefer]
    <3>1. /\ article'.holder = d /\ article'.status = "summarizing"
          /\ article'.body = article.body /\ article'.hash = article.hash
      BY <1>1, <1>4, <2>2, <2>5 DEF Check, Guarded, Article
    <3>2. {"original"} \cup readers.prefer \in SUBSET Editions
      BY ConstantsTyped DEF Kept, Typed, ArticlesTypeOK
    <3>3. /\ state \in Drain /\ state.pc = "write" /\ state.text = drain[d].text
          /\ "original" \in state.todo
      BY <1>1, <3>2 DEF Drain
    <3>4. Become(d, state)
      BY <1>4, <2>5 DEF Check
    <3>. HIDE DEF state
    <3>. QED BY <2>2, <2>3, <3>1, <3>3, <3>4, GoingOnKept
  <2>. QED BY <2>4, <2>5
<1>5. ASSUME Condense(d) \/ WriteEdition(d) PROVE Kept'
  <2>1. drain[d].pc = "write" /\ ~In(d, "idle") /\ article' = article
    BY <1>5 DEF Condense, WriteEdition, Lacking, Current, In
  <2>2. article.holder = d /\ d # NoDrain /\ (\A e \in Drains \ {d} : In(e, "idle"))
    BY <2>1, OthersIdle
  <2>3. drain[d].text = article.body /\ article.body = article.hash
    BY <2>1 DEF Kept, WorksOnSaved
  <2>4. article.status \in {"fetching", "summarizing"}
    BY <2>2 DEF Kept, HolderWorks
  <2>5. "original" \notin drain[d].todo => edition["original"] = drain[d].text
    BY <2>1 DEF Kept, WorksOnSaved
  <2>6. drain'[d] \in Drain
    BY DEF Typed, ArticlesTypeOK
  <2>7. CASE Condense(d)
    <3>1. Become(d, drain'[d]) /\ edition' = edition
      BY <2>7 DEF Condense, Become, Kept, Typed, ArticlesTypeOK
    <3>2. /\ drain'[d].pc = "write" /\ drain'[d].text = drain[d].text
          /\ drain'[d].todo = drain[d].todo
      BY <1>1, <2>1, <2>7 DEF Condense, Become, Drain, Kept, Typed, ArticlesTypeOK
    <3>. QED BY <2>1, <2>2, <2>3, <2>4, <2>5, <2>6, <3>1, <3>2, GoingOnKept
  <2>8. CASE WriteEdition(d)
    <3>1. PICK l \in Editions :
            /\ Current(d, l)
            /\ edition' = [edition EXCEPT ![l] = IF Copied(l) THEN edition["original"] ELSE drain[d].text]
            /\ Become(d, [drain[d] EXCEPT !.todo = @ \ {l}, !.calls = 0])
      BY <2>8 DEF WriteEdition
    <3>2. Become(d, drain'[d])
      BY <3>1 DEF Become, Kept, Typed, ArticlesTypeOK
    <3>3. /\ drain'[d].pc = "write" /\ drain'[d].text = drain[d].text
          /\ drain'[d].todo = drain[d].todo \ {l}
      BY <1>1, <2>1, <3>1 DEF Become, Drain, Kept, Typed, ArticlesTypeOK
    <3>4. ~Copied("original")
      BY RssArticleAssumption DEF Copied, Kept, Typed, ArticlesTypeOK
    <3>5. edition \in [Editions -> Texts \cup {"none"}] /\ "original" \in Editions
      BY ConstantsTyped DEF Kept, Typed, ArticlesTypeOK
    <3>6. "original" \notin drain'[d].todo => edition'["original"] = drain[d].text
      <4>1. CASE l = "original"
        BY <3>1, <3>4, <3>5, <4>1
      <4>2. CASE l # "original"
        BY <2>5, <3>1, <3>3, <3>5, <4>2 DEF Current
      <4>. QED BY <4>1, <4>2
    <3>. QED BY <2>1, <2>2, <2>3, <2>4, <2>6, <3>2, <3>3, <3>6, GoingOnKept
  <2>. QED BY <1>5, <2>7, <2>8
<1>. QED BY <1>2, <1>3, <1>4, <1>5

LEMMA EvictKept == ASSUME Kept, Typed', NEW d \in Drains, EvictDrain(d) PROVE Kept'
<1>1. article' = article /\ edition' = edition /\ ~In(d, "idle") /\ Become(d, Asleep)
  BY DEF EvictDrain
<1>2. \A e \in Drains : drain'[e].pc = "idle"
  BY <1>1, OthersIdle DEF Become, In, Asleep, Kept, Typed, ArticlesTypeOK
<1>. QED BY <1>1, <1>2 DEF Kept, HolderWorks, WorksOnSaved, DoneIsCurrent, In

\* Everyone is idle, and the row is sent back or its lease ends.
LEMMA AtRestKept ==
  ASSUME Kept, Typed', \A d \in Drains : In(d, "idle"), drain' = drain, edition' = edition,
         article'.holder = NoDrain,
         \/ article'.status = "queued"
         \/ article'.status = article.status /\ article'.body = article.body,
         article'.body \in {"none", article.body}, article'.hash = article.hash
  PROVE  Kept'
BY DEF Kept, HolderWorks, WorksOnSaved, DoneIsCurrent, In

LEMMA RequeueKept ==
  ASSUME Kept, Typed',
         \/ ExpireArticle \/ DailyUpgrade
         \/ \E s \in Seeds : Upgrade(s)
         \/ \E l \in EditionLangs : AskLanguage(l)
         \/ \E refetch \in BOOLEAN : RetryArticle(refetch)
  PROVE  Kept'
<1>1. article \in Article
  BY DEF Kept, Typed, ArticlesTypeOK
<1>2. drain' = drain /\ edition' = edition
  BY DEF ExpireArticle, DailyUpgrade, Upgrade, AskLanguage, RetryArticle
<1>3. CASE article' = article
  BY <1>2, <1>3 DEF Kept, HolderWorks, WorksOnSaved, DoneIsCurrent, In
<1>4. CASE article' # article
  <2>1. CASE ExpireArticle
    <3>1. \A d \in Drains : In(d, "idle")
      BY <2>1 DEF ExpireArticle, Kept, HolderWorks
    <3>2. /\ article'.holder = NoDrain /\ article'.status = article.status
          /\ article'.body = article.body /\ article'.hash = article.hash
      BY <1>1, <2>1 DEF ExpireArticle, Article
    <3>. QED BY <1>2, <3>1, <3>2, AtRestKept
  <2>2. CASE ~ExpireArticle
    <3>1. article.holder = NoDrain
      BY <1>4, <2>2 DEF DailyUpgrade, Upgrade, AskLanguage, RetryArticle, Kept, HolderWorks
    <3>2. \A d \in Drains : In(d, "idle")
      BY <3>1, RssArticleAssumption DEF Kept, HolderWorks
    <3>. DEFINE Requeued == /\ article'.holder = NoDrain /\ article'.status = "queued"
                            /\ article'.body \in {"none", article.body}
                            /\ article'.hash = article.hash
    <3>3. Requeued
      <4>1. ASSUME DailyUpgrade PROVE Requeued
        BY <1>1, <3>1, <4>1 DEF DailyUpgrade, Article
      <4>2. ASSUME NEW t \in Seeds, Upgrade(t) PROVE Requeued
        BY <1>1, <1>4, <3>1, <4>2 DEF Upgrade, Article
      <4>3. ASSUME NEW l \in EditionLangs, AskLanguage(l) PROVE Requeued
        BY <1>1, <3>1, <4>3 DEF AskLanguage, Article
      <4>4. ASSUME NEW refetch \in BOOLEAN, RetryArticle(refetch) PROVE Requeued
        BY <1>1, <3>1, <4>4 DEF RetryArticle, Article
      <4>. QED BY <2>2, <4>1, <4>2, <4>3, <4>4
    <3>. QED BY <1>2, <3>2, <3>3, AtRestKept
  <2>. QED BY <2>1, <2>2
<1>. QED BY <1>3, <1>4

LEMMA KeptStep == Kept /\ [ArticlesNext]_articleVars => Kept'
<1>. SUFFICES ASSUME Kept, [ArticlesNext]_articleVars PROVE Kept'
  OBVIOUS
<1>1. Typed'
  BY ArticlesStepTyped DEF Kept
<1>2. ASSUME NEW follow \in BOOLEAN, NEW prefer \in SUBSET EditionLangs, Read(follow, prefer)
      PROVE  Kept'
  BY <1>1, <1>2 DEF Read, Kept, HolderWorks, WorksOnSaved, DoneIsCurrent, In
<1>3. CASE Pause
  BY <1>1, <1>3 DEF Pause, Kept, HolderWorks, WorksOnSaved, DoneIsCurrent, In
<1>4. CASE UNCHANGED articleVars
  BY <1>1, <1>4 DEF articleVars, Kept, HolderWorks, WorksOnSaved, DoneIsCurrent, In
<1>. QED BY <1>1, <1>2, <1>3, <1>4, LeavingKept, WorkingKept, EvictKept, RequeueKept
         DEF ArticlesNext, DrainStep

LEMMA KeptAlways == ArticlesSpec => []Kept
BY KeptInit, KeptStep, PTL DEF ArticlesSpec

\* What a page shows of a done article was written from the text that is saved:
\* no upgrade, retry, eviction or second drain leaves it with an edition of
\* another text.
THEOREM DoneAlwaysCurrent == ArticlesSpec => []DoneIsCurrent
<1>1. Kept => DoneIsCurrent
  BY DEF Kept, WorksOnSaved
<1>. QED BY <1>1, KeptAlways, PTL

LEMMA HolderAlone == HolderWorks => OneDrain
<1>. SUFFICES ASSUME HolderWorks PROVE OneDrain
  OBVIOUS
<1>. DEFINE awake == {d \in Drains : ~In(d, "idle")}
<1>1. CASE awake = {}
  BY <1>1, FS_EmptySet DEF OneDrain
<1>2. CASE awake # {}
  <2>1. awake = {article.holder}
    BY <1>2 DEF HolderWorks
  <2>2. Cardinality(awake) = 1
    BY <2>1, FS_Singleton
  <2>. QED BY <2>2 DEF OneDrain
<1>. QED BY <1>1, <1>2

\* Drains do not work on one article together, for any number of them and of
\* leases that end.
THEOREM OneDrainAlways == ArticlesSpec => []OneDrain
<1>1. Kept => OneDrain
  BY HolderAlone DEF Kept
<1>. QED BY <1>1, KeptAlways, PTL

-----------------------------------------------------------------------------
(* The jobs that follow a summary are well typed *)

SlotPoints == {"free", "asked", "waiting", "claim", "call", "save", "totals",
               "follow", "ready", "enqueue"}

LEMMA MessagesTyped ==
  /\ FreeSlot \in Slot /\ FreeSlot.kind = "none" /\ FreeSlot.pc = "free"
  /\ \A k \in Kinds \cup {"none"} :
       /\ Message(k) \in Slot /\ Message(k).kind = k /\ Message(k).pc = "waiting"
       /\ [Message(k) EXCEPT !.pc = "asked"] \in Slot
       /\ \A n \in 1 .. MaxTries : [Message(k) EXCEPT !.tries = n] \in Slot
<1>1. 1 \in 1 .. MaxTries /\ 0 \in 0 .. MaxVersions
  BY FollowUpsAssumption
<1>. QED BY <1>1 DEF FreeSlot, Message, Slot, Kinds

\* What the slots become.
LEMMA SlotsMove ==
  ASSUME slot \in [Slots -> Slot], NEW s \in Slots
  PROVE  /\ \A pc \in SlotPoints : To(s, pc) \in [Slots -> Slot]
         /\ Done(s) \in [Slots -> Slot]
         /\ Again(s) \in [Slots -> Slot]
         /\ \A k \in Kinds : [slot EXCEPT ![s] = Message(k)] \in [Slots -> Slot]
<1>1. \A pc \in SlotPoints : To(s, pc) \in [Slots -> Slot]
  BY DEF To, SlotPoints, Slot
<1>2. Done(s) \in [Slots -> Slot]
  BY MessagesTyped DEF Done
<1>3. slot[s].kind \in Kinds \cup {"none"} /\ slot[s].tries \in 1 .. MaxTries
  BY DEF Slot
<1>4. slot[s].tries # MaxTries => slot[s].tries + 1 \in 1 .. MaxTries
  BY <1>3, FollowUpsAssumption
<1>5. slot[s].tries # MaxTries
        => [Message(slot[s].kind) EXCEPT !.tries = slot[s].tries + 1] \in Slot
  BY <1>3, <1>4, MessagesTyped
<1>6. Again(s) \in [Slots -> Slot]
  BY <1>5, MessagesTyped DEF Again
<1>7. \A k \in Kinds : [slot EXCEPT ![s] = Message(k)] \in [Slots -> Slot]
  BY MessagesTyped
<1>. QED BY <1>1, <1>2, <1>6, <1>7

LEMMA SlotsRecord ==
  ASSUME slot \in [Slots -> Slot], NEW s \in Slots
  PROVE  /\ slot[s].todo \in SUBSET Langs /\ slot[s].base \in 0 .. MaxVersions
         /\ \A left \in SUBSET Langs :
              /\ [slot EXCEPT ![s].todo = left] \in [Slots -> Slot]
              /\ [slot EXCEPT ![s].pc = "follow", ![s].todo = left] \in [Slots -> Slot]
         /\ \A base \in 0 .. MaxVersions :
              [slot EXCEPT ![s].pc = "call", ![s].base = base] \in [Slots -> Slot]
<1>1. slot[s] \in Slot
  OBVIOUS
<1>2. \A left \in SUBSET Langs : [slot[s] EXCEPT !.todo = left] \in Slot
  BY <1>1 DEF Slot
<1>3. \A left \in SUBSET Langs : [[slot[s] EXCEPT !.pc = "follow"] EXCEPT !.todo = left] \in Slot
  BY <1>1 DEF Slot
<1>4. \A base \in 0 .. MaxVersions :
        [[slot[s] EXCEPT !.pc = "call"] EXCEPT !.base = base] \in Slot
  BY <1>1 DEF Slot
<1>5. slot[s].todo \in SUBSET Langs /\ slot[s].base \in 0 .. MaxVersions
  BY <1>1 DEF Slot
<1>. QED BY <1>2, <1>3, <1>4, <1>5

\* The room that is taken was free.
LEMMA RoomTaken ==
  ASSUME Room # {}
  PROVE  /\ (CHOOSE s \in Room : TRUE) \in Slots
         /\ slot[CHOOSE s \in Room : TRUE].pc = "free"
BY DEF Room

LEMMA RowsKeepStatus ==
  ASSUME translation \in [Langs -> Statuses], poster \in Statuses, NEW k
  PROVE  /\ \A status \in Statuses :
              /\ [translation EXCEPT ![k] = status] \in [Langs -> Statuses]
              /\ [translation EXCEPT ![k] = Marked(@, status)] \in [Langs -> Statuses]
              /\ Marked(poster, status) \in Statuses
         /\ [translation EXCEPT ![k] = Withdrawn(@)] \in [Langs -> Statuses]
         /\ Withdrawn(poster) \in Statuses
BY DEF Statuses, Marked, Withdrawn

LEMMA FollowUpsInitTyped == FollowUpsInit => FollowUpsTypeOK
<1>. SUFFICES ASSUME FollowUpsInit PROVE FollowUpsTypeOK
  OBVIOUS
<1>1. FreeSlot \in Slot /\ Message("summary") \in Slot
  BY MessagesTyped DEF Kinds
<1>2. slot \in [Slots -> Slot]
  BY <1>1 DEF FollowUpsInit
<1>3. /\ 0 \in 0 .. MaxVersions /\ 0 \in 0 .. MaxFollowUpFaults
      /\ 0 \in 0 .. MaxFollowUpRequests /\ 0 \in Nat
  BY FollowUpsAssumption
<1>4. translation \in [Langs -> Statuses] /\ poster \in Statuses
  BY DEF FollowUpsInit, Statuses
<1>. QED BY <1>2, <1>3, <1>4 DEF FollowUpsInit, FollowUpsTypeOK

LEMMA FollowUpStepTyped ==
  ASSUME FollowUpsTypeOK, NEW s \in Slots, FollowUpStep(s)
  PROVE  FollowUpsTypeOK'
<1>. USE SlotsMove, RowsKeepStatus DEF FollowUpsTypeOK, SlotPoints
<1>1. CASE StartTranslation(s)
  <2>1. /\ translation' \in {[translation EXCEPT ![slot[s].kind] = Withdrawn(@)],
                             [translation EXCEPT ![slot[s].kind] = Marked(@, "processing")]}
        /\ slot' \in {Done(s), To(s, "call")}
    BY <1>1 DEF StartTranslation
  <2>2. slot' \in [Slots -> Slot]
    BY <2>1
  <2>3. translation' \in [Langs -> Statuses]
    BY <2>1, RowsKeepStatus DEF Statuses, Marked, Withdrawn
  <2>. QED BY <1>1, <2>2, <2>3 DEF StartTranslation
<1>2. CASE FinishTranslation(s)
  BY <1>2 DEF FinishTranslation, Statuses
<1>3. CASE CheckReady(s)
  BY <1>3 DEF CheckReady
<1>4. CASE QueuePoster(s)
  <2>1. [slot EXCEPT ![s] = Message("poster")] \in [Slots -> Slot]
    BY DEF Kinds
  <2>2. slot' \in [Slots -> Slot]
    <3>1. slot' \in {Done(s), Again(s), [slot EXCEPT ![s] = Message("poster")]}
      BY <1>4 DEF QueuePoster
    <3>2. Done(s) \in [Slots -> Slot] /\ Again(s) \in [Slots -> Slot]
      BY SlotsMove
    <3>. QED BY <2>1, <3>1, <3>2
  <2>4. poster' \in Statuses /\ lost' \in BOOLEAN
    BY <1>4 DEF QueuePoster, Statuses
  <2>3. followUpFaults' \in 0 .. MaxFollowUpFaults
    BY <1>4, FollowUpsAssumption DEF QueuePoster, FollowUpFault
  <2>. QED BY <1>4, <2>2, <2>3, <2>4 DEF QueuePoster
<1>5. CASE StartPoster(s)
  BY <1>5 DEF StartPoster
<1>6. CASE ClaimPoster(s)
  BY <1>6 DEF ClaimPoster, Statuses
<1>7. CASE Paint(s)
  BY <1>7 DEF Paint
<1>8. CASE SavePoster(s)
  BY <1>8 DEF SavePoster, Statuses
<1>9. CASE AddTotals(s)
  BY <1>9 DEF AddTotals
<1>10. CASE StartSummary(s)
  BY <1>10 DEF StartSummary
<1>11. CASE FinishSummary(s)
  <2>1. text + 1 \in 0 .. MaxVersions
    BY <1>11, FollowUpsAssumption DEF FinishSummary
  <2>2. native' \subseteq Langs
    BY <1>11, FollowUpsAssumption DEF FinishSummary
  <2>3. ((IF Public THEN Required ELSE {}) \cup Preferred) \ native' \subseteq Langs
    BY FollowUpsAssumption
  <2>4. slot' \in [Slots -> Slot]
    <3>. DEFINE left == ((IF Public THEN Required ELSE {}) \cup Preferred) \ native'
    <3>1. left \in SUBSET Langs
      BY <2>3
    <3>2. slot' = [slot EXCEPT ![s].pc = "follow", ![s].todo = left]
      BY <1>11 DEF FinishSummary
    <3>. HIDE DEF left
    <3>. QED BY <3>1, <3>2, SlotsRecord
  <2>. QED BY <1>11, <2>1, <2>2, <2>4 DEF FinishSummary
<1>12. CASE QueueTranslation(s)
  <2>. PICK l \in slot[s].todo :
         /\ Missing(translation[l]) => Room # {}
         /\ LET rest == [slot EXCEPT ![s].todo = @ \ {l}] IN
            \/ /\ IF Missing(translation[l])
                  THEN translation' = [translation EXCEPT ![l] = "queued"] /\ slot' = With(rest, l)
                  ELSE slot' = rest /\ UNCHANGED translation
               /\ UNCHANGED <<lost, followUpFaults>>
            \/ /\ FollowUpFault /\ lost' = TRUE
               /\ \/ /\ translation' = [translation EXCEPT ![l] = "error"]
                     /\ \E others \in SUBSET rest[s].todo : slot' = [slot EXCEPT ![s].todo = others]
                  \/ translation' = [translation EXCEPT ![l] = "queued"] /\ slot' = Again(s)
    BY <1>12 DEF QueueTranslation
  <2>. DEFINE shorter == [slot EXCEPT ![s].todo = @ \ {l}]
  <2>1. slot[s].todo \subseteq Langs /\ l \in Langs /\ Langs \subseteq Kinds
    BY SlotsRecord DEF Kinds
  <2>2. shorter \in [Slots -> Slot] /\ shorter[s].todo \subseteq Langs
    <3>1. slot[s].todo \ {l} \in SUBSET Langs
      BY <2>1
    <3>2. shorter = [slot EXCEPT ![s].todo = slot[s].todo \ {l}]
      OBVIOUS
    <3>3. shorter \in [Slots -> Slot]
      BY <3>1, <3>2, SlotsRecord
    <3>. HIDE DEF shorter
    <3>. QED BY <3>3 DEF Slot
  <2>3. Missing(translation[l]) => With(shorter, l) \in [Slots -> Slot]
    BY <2>1, <2>2, RoomTaken, MessagesTyped DEF With
  <2>4. \A others \in SUBSET shorter[s].todo : [slot EXCEPT ![s].todo = others] \in [Slots -> Slot]
    BY <2>2, SlotsRecord
  <2>5. slot' \in [Slots -> Slot]
    <3>1. (slot' = With(shorter, l) /\ Missing(translation[l])) \/ slot' = shorter \/ slot' = Again(s)
          \/ \E others \in SUBSET shorter[s].todo : slot' = [slot EXCEPT ![s].todo = others]
      OBVIOUS
    <3>. DEFINE Good == slot' \in [Slots -> Slot]
                Shortened == \E others \in SUBSET shorter[s].todo :
                               slot' = [slot EXCEPT ![s].todo = others]
    <3>2. slot' = With(shorter, l) /\ Missing(translation[l]) => Good
      BY <2>3
    <3>3. slot' = shorter => Good
      BY <2>2
    <3>4. slot' = Again(s) => Good
      BY SlotsMove
    <3>5. ASSUME NEW others \in SUBSET shorter[s].todo, slot' = [slot EXCEPT ![s].todo = others]
          PROVE  Good
      <4>1. [slot EXCEPT ![s].todo = others] \in [Slots -> Slot]
        BY <2>4
      <4>. QED BY <3>5, <4>1
    <3>6. Shortened => Good
      BY <3>5
    <3>. HIDE DEF Good, Shortened
    <3>7. (slot' = With(shorter, l) /\ Missing(translation[l])) \/ slot' = shorter \/ slot' = Again(s)
          \/ Shortened
      BY <3>1 DEF Shortened
    <3>8. Good
      BY <3>2, <3>3, <3>4, <3>6, <3>7
    <3>. QED BY <3>8 DEF Good
  <2>6. translation' \in [Langs -> Statuses] /\ lost' \in BOOLEAN
    BY <1>12 DEF Statuses
  <2>7. followUpFaults' \in 0 .. MaxFollowUpFaults
    BY <1>12, FollowUpsAssumption DEF FollowUpFault
  <2>. QED BY <1>12, <2>5, <2>6, <2>7 DEF QueueTranslation
<1>13. CASE EndTranslations(s)
  BY <1>13 DEF EndTranslations
<1>14. CASE StartBackfill(s)
  <2>1. [slot EXCEPT ![s].pc = "call", ![s].base = structured] \in [Slots -> Slot]
    BY SlotsRecord
  <2>. QED BY <1>14, <2>1 DEF StartBackfill
<1>15. CASE SaveBackfill(s)
  <2>1. slot[s].base \in 0 .. MaxVersions
    BY SlotsRecord
  <2>. QED BY <1>15, <2>1 DEF SaveBackfill
<1>16. CASE AskFor(s)
  <2>1. slot' \in [Slots -> Slot] /\ lost' \in BOOLEAN
    BY <1>16 DEF AskFor
  <2>2. /\ poster' \in {"queued", poster}
        /\ translation' \in {translation, [translation EXCEPT ![slot[s].kind] = "queued"]}
    BY <1>16 DEF AskFor
  <2>4. poster' \in Statuses /\ translation' \in [Langs -> Statuses]
    BY <2>2 DEF Statuses
  <2>3. followUpFaults' \in 0 .. MaxFollowUpFaults
    BY <1>16, FollowUpsAssumption DEF AskFor, FollowUpFault
  <2>. QED BY <1>16, <2>1, <2>3, <2>4 DEF AskFor
<1>. QED
  BY <1>1, <1>2, <1>3, <1>4, <1>5, <1>6, <1>7, <1>8, <1>9, <1>10, <1>11, <1>12, <1>13,
     <1>14, <1>15, <1>16 DEF FollowUpStep

LEMMA FollowUpFailureTyped ==
  ASSUME FollowUpsTypeOK, NEW s \in Slots, FollowUpFailure(s)
  PROVE  FollowUpsTypeOK'
<1>. USE SlotsMove, RowsKeepStatus, FollowUpsAssumption DEF FollowUpsTypeOK, FollowUpFault
<1>1. CASE FailTranslation(s)
  BY <1>1 DEF FailTranslation, Dead, Statuses
<1>2. CASE FailPoster(s)
  BY <1>2 DEF FailPoster, Dead, Statuses
<1>3. CASE FailBackfill(s)
  BY <1>3 DEF FailBackfill
<1>4. CASE EvictFollowUp(s)
  BY <1>4 DEF EvictFollowUp, Dead
<1>. QED BY <1>1, <1>2, <1>3, <1>4 DEF FollowUpFailure

LEMMA FollowUpAskTyped ==
  ASSUME FollowUpsTypeOK,
         \/ \E k \in FollowUpKinds : FollowUpAsk(k)
         \/ \E l \in Langs \cap FollowUpKinds : AskNative(l) \/ Prefer(l)
  PROVE  FollowUpsTypeOK'
<1>. USE RowsKeepStatus, FollowUpsAssumption DEF FollowUpsTypeOK, FollowUpRequest
<1>1. ASSUME NEW k \in FollowUpKinds, Look(k) PROVE FollowUpsTypeOK'
  <2>1. k \in Kinds
    BY <1>1 DEF Look, Kinds
  <2>2. slot' \in [Slots -> Slot]
    BY <1>1, <2>1, RoomTaken, MessagesTyped DEF Look
  <2>. QED BY <1>1, <2>2 DEF Look
<1>2. ASSUME NEW k \in FollowUpKinds, AskAgain(k) PROVE FollowUpsTypeOK'
  <2>1. k \in Kinds
    BY <1>2 DEF AskAgain, Kinds
  <2>2. slot' \in [Slots -> Slot]
    BY <1>2, <2>1, RoomTaken, MessagesTyped DEF AskAgain, With
  <2>. QED BY <1>2, <2>2 DEF AskAgain
<1>3. ASSUME NEW l \in Langs, AskNative(l) PROVE FollowUpsTypeOK'
  BY <1>3 DEF AskNative, Statuses
<1>4. ASSUME NEW l \in Langs, Prefer(l) PROVE FollowUpsTypeOK'
  <2>1. slot' \in [Slots -> Slot]
    BY <1>4, RoomTaken, MessagesTyped DEF Prefer, With, Kinds
  <2>. QED BY <1>4, <2>1 DEF Prefer, Statuses
<1>. QED BY <1>1, <1>2, <1>3, <1>4 DEF FollowUpAsk

LEMMA FollowUpsTypeKept ==
  ASSUME FollowUpsTypeOK, [FollowUpsNext]_followUpVars
  PROVE  FollowUpsTypeOK'
<1>1. CASE FollowUpsNext
  BY <1>1, FollowUpStepTyped, FollowUpFailureTyped, FollowUpAskTyped DEF FollowUpsNext
<1>2. CASE UNCHANGED followUpVars
  BY <1>2 DEF followUpVars, FollowUpsTypeOK
<1>. QED BY <1>1, <1>2

-----------------------------------------------------------------------------
(* A row that waits has somebody who sees to it *)

\* A message or a job that has not written its row's last status.
Working(v, k) == v.kind = k /\ v.pc \in {"waiting", "claim", "call", "save"}
RowOf(k) == IF k = "poster" THEN poster ELSE translation[k]
Wanted == Langs \cup {"poster"}
CarryInv ==
  /\ FollowUpsTypeOK
  /\ \A k \in Wanted : RowOf(k) \in Wanting => lost \/ \E s \in Slots : Working(slot[s], k)

\* How a step leaves a row: finished, given up, with somebody at work, or as it was.
Handled(k) ==
  \/ RowOf(k)' \notin Wanting
  \/ lost'
  \/ \E s \in Slots : Working(slot'[s], k)
  \/ /\ RowOf(k)' = RowOf(k) /\ lost' = lost
     /\ \A s \in Slots : Working(slot[s], k) => Working(slot'[s], k)

LEMMA HandledIsCarried ==
  ASSUME CarryInv, NEW k \in Wanted, Handled(k)
  PROVE  RowOf(k)' \in Wanting => lost' \/ \E s \in Slots : Working(slot'[s], k)
BY DEF CarryInv, Handled

\* A job that is done with its row, or has another one, does not carry it.
LEMMA OthersWork ==
  ASSUME slot \in [Slots -> Slot], NEW s \in Slots, NEW k, NEW v,
         ~Working(slot[s], k) \/ Working(v, k)
  PROVE  \A t \in Slots : Working(slot[t], k) => Working([slot EXCEPT ![s] = v][t], k)
BY DEF Working

LEMMA AgainWorks ==
  ASSUME slot \in [Slots -> Slot], NEW s \in Slots, NEW k, Working(slot[s], k)
  PROVE  Dead(s) \/ Working(Again(s)[s], k)
BY DEF Working, Dead, Again, Message, FreeSlot

LEMMA AgainElsewhere ==
  ASSUME slot \in [Slots -> Slot], NEW s \in Slots, NEW k
  PROVE  \A t \in Slots : t # s /\ Working(slot[t], k) => Working(Again(s)[t], k)
BY DEF Again

LEMMA StepHandled ==
  ASSUME FollowUpsTypeOK, NEW s \in Slots, FollowUpStep(s), NEW k \in Wanted
  PROVE  Handled(k)
<1>. slot \in [Slots -> Slot] /\ translation \in [Langs -> Statuses] /\ poster \in Statuses
  BY DEF FollowUpsTypeOK
<1>. Langs \cap {"poster", "headline", "structured", "summary", "none"} = {}
  BY FollowUpsAssumption
<1>. USE DEF Handled, RowOf, Wanted, Working, Of, To, Done, FreeSlot
<1>1. CASE StartTranslation(s)
  <2>. DEFINE l == slot[s].kind
  <2>1. l \in Langs /\ slot[s].pc = "waiting" /\ poster' = poster /\ lost' = lost
    BY <1>1 DEF StartTranslation
  <2>2. CASE AlreadyChinese(l)
    BY <1>1, <2>1, <2>2 DEF StartTranslation, Withdrawn, Wanting
  <2>3. CASE ~AlreadyChinese(l)
    <3>1. slot' = [slot EXCEPT ![s].pc = "call"]
          /\ translation' = [translation EXCEPT ![l] = Marked(@, "processing")]
      BY <1>1, <2>3 DEF StartTranslation
    <3>2. Working(slot'[s], l)
      BY <2>1, <3>1 DEF Slot
    <3>3. \A t \in Slots : Working(slot[t], k) => Working(slot'[t], k)
      BY <2>1, <3>1 DEF Slot
    <3>. QED BY <2>1, <3>1, <3>2, <3>3
  <2>. QED BY <2>2, <2>3
<1>2. CASE FinishTranslation(s)
  BY <1>2 DEF FinishTranslation, Marked, Wanting
<1>3. CASE CheckReady(s)
  BY <1>3 DEF CheckReady
<1>4. CASE QueuePoster(s)
  BY <1>4 DEF QueuePoster, Message
<1>5. CASE StartPoster(s)
  <2>1. CASE Ready
    <3>1. /\ slot' = [slot EXCEPT ![s].pc = "claim"] /\ slot[s].pc = "waiting"
          /\ translation' = translation /\ poster' = poster /\ lost' = lost
      BY <1>5, <2>1 DEF StartPoster
    <3>2. \A t \in Slots : Working(slot[t], k) => Working(slot'[t], k)
      BY <3>1 DEF Slot
    <3>. QED BY <3>1, <3>2
  <2>2. CASE ~Ready
    BY <1>5, <2>2 DEF StartPoster, Withdrawn, Wanting
  <2>. QED BY <2>1, <2>2
<1>6. CASE ClaimPoster(s)
  BY <1>6 DEF ClaimPoster
<1>7. CASE Paint(s)
  BY <1>7 DEF Paint
<1>8. CASE SavePoster(s)
  BY <1>8 DEF SavePoster, Marked, Wanting
<1>9. CASE AddTotals(s)
  BY <1>9 DEF AddTotals
<1>10. CASE StartSummary(s)
  BY <1>10 DEF StartSummary
<1>11. CASE FinishSummary(s)
  BY <1>11 DEF FinishSummary
<1>12. CASE QueueTranslation(s)
  <2>. PICK l \in slot[s].todo :
         /\ Missing(translation[l]) => Room # {}
         /\ LET rest == [slot EXCEPT ![s].todo = @ \ {l}] IN
            \/ /\ IF Missing(translation[l])
                  THEN translation' = [translation EXCEPT ![l] = "queued"] /\ slot' = With(rest, l)
                  ELSE slot' = rest /\ UNCHANGED translation
               /\ UNCHANGED <<lost, followUpFaults>>
            \/ /\ FollowUpFault /\ lost' = TRUE
               /\ \/ /\ translation' = [translation EXCEPT ![l] = "error"]
                     /\ \E others \in SUBSET rest[s].todo : slot' = [slot EXCEPT ![s].todo = others]
                  \/ translation' = [translation EXCEPT ![l] = "queued"] /\ slot' = Again(s)
    BY <1>12 DEF QueueTranslation
  <2>. DEFINE r == CHOOSE t \in Room : TRUE
  <2>1. l \in Langs
    BY DEF Slot
  <2>2. CASE lost'
    BY <2>2
  <2>3. CASE ~Missing(translation[l]) /\ slot' = [slot EXCEPT ![s].todo = @ \ {l}]
             /\ UNCHANGED <<translation, lost, poster>>
    BY <1>12, <2>3 DEF QueueTranslation
  <2>4. CASE /\ Missing(translation[l]) /\ lost' = lost /\ poster' = poster
             /\ translation' = [translation EXCEPT ![l] = "queued"]
             /\ slot' = With([slot EXCEPT ![s].todo = @ \ {l}], l)
    <3>1. r \in Slots /\ slot[r].pc = "free" /\ r # s
      BY <1>12, <2>4, RoomTaken DEF QueueTranslation
    <3>2. slot' = [[slot EXCEPT ![s].todo = @ \ {l}] EXCEPT ![r] = Message(l)]
      BY <2>4 DEF With
    <3>3. Working(slot'[r], l)
      BY <3>1, <3>2 DEF Message
    <3>4. \A t \in Slots : Working(slot[t], k) => Working(slot'[t], k)
      BY <3>1, <3>2, <1>12 DEF QueueTranslation
    <3>. QED BY <2>1, <2>4, <3>1, <3>3, <3>4
  <2>. QED BY <1>12, <2>2, <2>3, <2>4 DEF QueueTranslation
<1>13. CASE EndTranslations(s)
  BY <1>13 DEF EndTranslations
<1>14. CASE StartBackfill(s)
  BY <1>14 DEF StartBackfill
<1>15. CASE SaveBackfill(s)
  BY <1>15 DEF SaveBackfill
<1>16. CASE AskFor(s)
  <2>1. CASE lost'
    BY <2>1
  <2>2. CASE ~lost'
    <3>1. slot' = [slot EXCEPT ![s].pc = "waiting"] /\ lost' = lost /\ slot[s].pc = "asked"
      BY <1>16, <2>2 DEF AskFor
    <3>2. CASE k = slot[s].kind
      BY <3>1, <3>2 DEF Slot
    <3>3. CASE k # slot[s].kind
      BY <1>16, <3>1, <3>3 DEF AskFor, Slot
    <3>. QED BY <3>2, <3>3
  <2>. QED BY <2>1, <2>2
<1>. QED
  BY <1>1, <1>2, <1>3, <1>4, <1>5, <1>6, <1>7, <1>8, <1>9, <1>10, <1>11, <1>12, <1>13,
     <1>14, <1>15, <1>16 DEF FollowUpStep

LEMMA FailureHandled ==
  ASSUME FollowUpsTypeOK, NEW s \in Slots, FollowUpFailure(s), NEW k \in Wanted
  PROVE  Handled(k)
<1>. slot \in [Slots -> Slot] /\ translation \in [Langs -> Statuses] /\ poster \in Statuses
     /\ lost \in BOOLEAN
  BY DEF FollowUpsTypeOK
<1>. Langs \cap {"poster", "headline", "structured", "summary", "none"} = {}
  BY FollowUpsAssumption
<1>0. slot' = Again(s)
  BY DEF FollowUpFailure, FailTranslation, FailPoster, FailBackfill, EvictFollowUp
<1>1. CASE lost'
  BY <1>1 DEF Handled
<1>2. CASE ~lost' /\ Working(slot[s], k)
  <2>1. Dead(s) \/ Working(slot'[s], k)
    BY <1>0, <1>2, AgainWorks
  <2>2. ~FailBackfill(s)
    BY <1>2 DEF FailBackfill, Working, Of, Wanted
  <2>3. Dead(s) => lost'
    BY <2>2 DEF FollowUpFailure, FailTranslation, FailPoster, EvictFollowUp
  <2>. QED BY <1>2, <2>1, <2>3 DEF Handled
<1>3. CASE ~lost' /\ ~Working(slot[s], k)
  <2>1. \A t \in Slots : Working(slot[t], k) => Working(slot'[t], k)
    BY <1>0, <1>3, AgainElsewhere
  <2>2. lost' = lost
    BY <1>3 DEF FollowUpFailure, FailTranslation, FailPoster, FailBackfill, EvictFollowUp
  <2>3. CASE FailTranslation(s)
    BY <1>3, <2>1, <2>2, <2>3 DEF FailTranslation, Handled, RowOf, Of, Working, Wanted
  <2>4. CASE FailPoster(s)
    BY <2>1, <2>2, <2>4 DEF FailPoster, Handled, RowOf, Marked, Wanting, Wanted
  <2>5. CASE FailBackfill(s) \/ EvictFollowUp(s)
    BY <2>1, <2>2, <2>5 DEF FailBackfill, EvictFollowUp, Handled, RowOf
  <2>. QED BY <2>3, <2>4, <2>5 DEF FollowUpFailure
<1>. QED BY <1>1, <1>2, <1>3

\* A message takes a free slot, and leaves the others.
LEMMA RoomHandled ==
  ASSUME FollowUpsTypeOK, Room # {}, NEW v, NEW k,
         slot' = [slot EXCEPT ![CHOOSE s \in Room : TRUE] = v]
  PROVE  /\ \A t \in Slots : Working(slot[t], k) => Working(slot'[t], k)
         /\ Working(v, k) => \E t \in Slots : Working(slot'[t], k)
BY RoomTaken DEF FollowUpsTypeOK, Working

LEMMA AskHandled ==
  ASSUME FollowUpsTypeOK, NEW k \in Wanted,
         \/ \E a \in FollowUpKinds : FollowUpAsk(a)
         \/ \E l \in Langs \cap FollowUpKinds : AskNative(l) \/ Prefer(l)
  PROVE  Handled(k)
<1>. translation \in [Langs -> Statuses] /\ "poster" \notin Langs
  BY FollowUpsAssumption DEF FollowUpsTypeOK
<1>1. ASSUME NEW a, Look(a) PROVE Handled(k)
  BY <1>1, RoomHandled DEF Look, Handled, RowOf
<1>2. ASSUME NEW a, AskAgain(a) PROVE Handled(k)
  BY <1>2, RoomHandled DEF AskAgain, With, Handled, RowOf
<1>3. ASSUME NEW l \in Langs, AskNative(l) PROVE Handled(k)
  BY <1>3 DEF AskNative, Handled, RowOf, Wanting, Wanted
<1>4. ASSUME NEW l \in Langs, Prefer(l) PROVE Handled(k)
  <2>1. Working(Message(l), l)
    BY DEF Working, Message, FreeSlot
  <2>2. CASE k = l
    <3>1. Room # {} /\ slot' = [slot EXCEPT ![CHOOSE s \in Room : TRUE] = Message(l)]
      BY <1>4 DEF Prefer, With
    <3>. QED BY <2>1, <2>2, <3>1, RoomHandled DEF Handled
  <2>3. CASE k # l
    BY <1>4, <2>3, RoomHandled DEF Prefer, With, Handled, RowOf, Wanted
  <2>. QED BY <2>2, <2>3
<1>. QED BY <1>1, <1>2, <1>3, <1>4 DEF FollowUpAsk

\* Every reachable state of translations, poster and backfills is well typed.
THEOREM FollowUpsTypeCorrect == FollowUpsSpec => []FollowUpsTypeOK
<1>1. FollowUpsTypeOK /\ [FollowUpsNext]_followUpVars => FollowUpsTypeOK'
  BY FollowUpsTypeKept
<1>. QED BY <1>1, FollowUpsInitTyped, PTL DEF FollowUpsSpec

\* A row that shows as queued or processing has a message or a job that will see to
\* it, unless a message was dropped (WantedIsCarried).
THEOREM WantedAlwaysCarried == FollowUpsSpec => []WantedIsCarried
<1>1. FollowUpsInit => CarryInv
  BY FollowUpsInitTyped DEF FollowUpsInit, CarryInv, RowOf, Wanted, Wanting
<1>2. CarryInv /\ [FollowUpsNext]_followUpVars => CarryInv'
  <2>. SUFFICES ASSUME CarryInv, [FollowUpsNext]_followUpVars PROVE CarryInv'
    OBVIOUS
  <2>1. FollowUpsTypeOK'
    BY FollowUpsTypeKept DEF CarryInv
  <2>2. ASSUME NEW k \in Wanted PROVE Handled(k)
    <3>1. CASE FollowUpsNext
      BY <3>1, StepHandled, FailureHandled, AskHandled DEF FollowUpsNext, CarryInv
    <3>2. CASE UNCHANGED followUpVars
      BY <3>2 DEF followUpVars, Handled, RowOf
    <3>. QED BY <3>1, <3>2
  <2>3. ASSUME NEW k \in Wanted
        PROVE  RowOf(k)' \in Wanting => lost' \/ \E s \in Slots : Working(slot'[s], k)
    BY <2>2, HandledIsCarried
  <2>. QED BY <2>1, <2>3 DEF CarryInv
<1>3. CarryInv => WantedIsCarried
  BY FollowUpsAssumption DEF CarryInv, WantedIsCarried, Carried, Working, RowOf, Wanted
<1>. QED BY <1>1, <1>2, <1>3, PTL DEF FollowUpsSpec
-----------------------------------------------------------------------------
(* No picture is paid that nobody asked for *)

\* Who will pay for a picture unless stopped, and the picture every item may have.
Painter(v) == v.kind = "poster" /\ v.pc \in {"asked", "waiting", "claim", "call"}
Painters(slots) == {s \in Slots : Painter(slots[s])}
FirstToCome(row) == IF row = "none" THEN 1 ELSE 0
Afforded(slots, row, paid, requested) ==
  row # "error" /\ paid + Cardinality(Painters(slots)) + FirstToCome(row) <= 1 + requested
PaidInv ==
  /\ FollowUpsTypeOK
  /\ followUpFaults = 0 => Afforded(slot, poster, pictures, followUpRequests)

LEMMA PaintersCount ==
  ASSUME NEW slots
  PROVE  IsFiniteSet(Painters(slots)) /\ Cardinality(Painters(slots)) \in Nat
<1>1. Painters(slots) \subseteq Slots
  BY DEF Painters
<1>. QED BY <1>1, FollowUpsAssumption, FS_Subset, FS_CardinalityType

\* One slot changes.
LEMMA PaintersChange ==
  ASSUME NEW slots \in [Slots -> Slot], NEW s \in Slots, NEW v
  PROVE  LET before == Cardinality(Painters(slots))
             after == Cardinality(Painters([slots EXCEPT ![s] = v]))
         IN /\ after <= before + 1
            /\ (Painter(v) => Painter(slots[s])) => after <= before
            /\ Painter(slots[s]) /\ ~Painter(v) => after = before - 1
<1>. DEFINE old == Painters(slots)
            new == Painters([slots EXCEPT ![s] = v])
<1>1. /\ IsFiniteSet(old) /\ Cardinality(old) \in Nat
      /\ IsFiniteSet(new) /\ Cardinality(new) \in Nat
  BY PaintersCount
<1>2. CASE Painter(v) <=> Painter(slots[s])
  <2>1. new = old
    BY <1>2 DEF Painters
  <2>. QED BY <1>1, <1>2, <2>1
<1>3. CASE Painter(v) /\ ~Painter(slots[s])
  <2>1. new = old \cup {s} /\ s \notin old
    BY <1>3 DEF Painters
  <2>2. Cardinality(new) = Cardinality(old) + 1
    BY <1>1, <2>1, FS_AddElement
  <2>. QED BY <1>1, <1>3, <2>2
<1>4. CASE ~Painter(v) /\ Painter(slots[s])
  <2>1. new = old \ {s} /\ s \in old
    BY <1>4 DEF Painters
  <2>2. Cardinality(new) = Cardinality(old) - 1
    BY <1>1, <2>1, FS_RemoveElement
  <2>. QED BY <1>1, <1>4, <2>2
<1>. QED BY <1>2, <1>3, <1>4

\* A step that adds no painter, pays for nothing and does not withdraw the row.
LEMMA StaysAfforded ==
  ASSUME NEW slots, NEW row, NEW paid \in Nat, NEW requested \in Nat,
         Afforded(slot, poster, paid, requested),
         Cardinality(Painters(slots)) <= Cardinality(Painters(slot)),
         row # "error", row = "none" => poster = "none"
  PROVE  Afforded(slots, row, paid, requested)
BY PaintersCount DEF Afforded, FirstToCome

LEMMA StepAfforded ==
  ASSUME PaidInv, NEW s \in Slots, FollowUpStep(s), followUpFaults' = 0
  PROVE  Afforded(slot', poster', pictures', followUpRequests')
<1>0. /\ slot \in [Slots -> Slot] /\ pictures \in Nat /\ followUpRequests \in Nat
      /\ followUpFaults \in Nat
  BY FollowUpsAssumption DEF PaidInv, FollowUpsTypeOK
<1>. Langs \cap {"poster", "headline", "structured", "summary", "none"} = {}
  BY FollowUpsAssumption
<1>1. followUpFaults = 0
  <2>1. followUpFaults' = followUpFaults \/ followUpFaults' = followUpFaults + 1
    BY DEF FollowUpStep, StartTranslation, FinishTranslation, CheckReady, QueuePoster,
     StartPoster, ClaimPoster, Paint, SavePoster, AddTotals, StartSummary, FinishSummary,
       QueueTranslation, EndTranslations, StartBackfill, SaveBackfill, AskFor, FollowUpFault
  <2>. QED BY <1>0, <2>1
<1>2. Afforded(slot, poster, pictures, followUpRequests)
  BY <1>1 DEF PaidInv
<1>3. followUpRequests' = followUpRequests
  BY DEF FollowUpStep, StartTranslation, FinishTranslation, CheckReady, QueuePoster,
     StartPoster, ClaimPoster, Paint, SavePoster, AddTotals, StartSummary, FinishSummary,
     QueueTranslation, EndTranslations, StartBackfill, SaveBackfill, AskFor
<1>. DEFINE Quiet == /\ pictures' = pictures
                     /\ poster' # "error" /\ (poster' = "none" => poster = "none")
                     /\ Cardinality(Painters(slot')) <= Cardinality(Painters(slot))
<1>4. ASSUME Quiet PROVE Afforded(slot', poster', pictures', followUpRequests')
  BY <1>0, <1>2, <1>3, <1>4, StaysAfforded
<1>5. ASSUME pictures' = pictures, poster' # "error", poster' = "none" => poster = "none",
             NEW v, Painter(v) => Painter(slot[s]), slot' = [slot EXCEPT ![s] = v]
      PROVE  Quiet
  BY <1>0, <1>5, PaintersChange
<1>6. poster # "error"
  BY <1>2 DEF Afforded
<1>7. CASE StartTranslation(s) \/ FinishTranslation(s)
  <2>1. ~Painter([slot[s] EXCEPT !.pc = "call"]) /\ ~Painter([slot[s] EXCEPT !.pc = "ready"])
        /\ ~Painter(FreeSlot)
    BY <1>0, <1>7 DEF StartTranslation, FinishTranslation, Of, Painter, Slot, FreeSlot
  <2>2. \/ slot' = [slot EXCEPT ![s] = [slot[s] EXCEPT !.pc = "call"]]
        \/ slot' = [slot EXCEPT ![s] = [slot[s] EXCEPT !.pc = "ready"]]
        \/ slot' = [slot EXCEPT ![s] = FreeSlot]
    BY <1>7 DEF StartTranslation, FinishTranslation, To, Done
  <2>3. pictures' = pictures /\ poster' = poster
    BY <1>7 DEF StartTranslation, FinishTranslation
  <2>. QED BY <1>4, <1>5, <1>6, <2>1, <2>2, <2>3
<1>8. CASE CheckReady(s) \/ AddTotals(s) \/ EndTranslations(s)
  <2>1. ~Painter([slot[s] EXCEPT !.pc = "enqueue"]) /\ ~Painter([slot[s] EXCEPT !.pc = "ready"])
        /\ ~Painter(FreeSlot)
    BY <1>0 DEF Painter, Slot, FreeSlot
  <2>2. \/ slot' = [slot EXCEPT ![s] = [slot[s] EXCEPT !.pc = "enqueue"]]
        \/ slot' = [slot EXCEPT ![s] = [slot[s] EXCEPT !.pc = "ready"]]
        \/ slot' = [slot EXCEPT ![s] = FreeSlot]
    BY <1>8 DEF CheckReady, AddTotals, EndTranslations, To, Done
  <2>3. pictures' = pictures /\ poster' = poster
    BY <1>8 DEF CheckReady, AddTotals, EndTranslations
  <2>. QED BY <1>4, <1>5, <1>6, <2>1, <2>2, <2>3
<1>9. CASE StartSummary(s) \/ StartBackfill(s) \/ SaveBackfill(s)
  <2>1. slot[s].kind # "poster" /\ pictures' = pictures /\ poster' = poster
    BY <1>9 DEF StartSummary, StartBackfill, SaveBackfill, Of
  <2>2. PICK v : slot' = [slot EXCEPT ![s] = v] /\ v.kind \in {slot[s].kind, "none"}
    <3>1. [slot[s] EXCEPT !.pc = "call"].kind = slot[s].kind
          /\ [[slot[s] EXCEPT !.pc = "call"] EXCEPT !.base = structured].kind = slot[s].kind
          /\ FreeSlot.kind = "none"
      BY <1>0 DEF Slot, FreeSlot
    <3>2. \/ slot' = [slot EXCEPT ![s] = [slot[s] EXCEPT !.pc = "call"]]
          \/ slot' = [slot EXCEPT ![s] = [[slot[s] EXCEPT !.pc = "call"] EXCEPT !.base = structured]]
          \/ slot' = [slot EXCEPT ![s] = FreeSlot]
      BY <1>0, <1>9 DEF StartSummary, StartBackfill, SaveBackfill, To, Done
    <3>. QED BY <3>1, <3>2
  <2>3. ~Painter(v)
    BY <2>1, <2>2 DEF Painter
  <2>. QED BY <1>4, <1>5, <1>6, <2>1, <2>2, <2>3
<1>10. CASE FinishSummary(s)
  <2>1. Painters(slot') = Painters(slot)
    BY <1>0, <1>10 DEF FinishSummary, Painters, Painter, Of
  <2>. QED BY <1>4, <1>6, <1>10, <2>1, PaintersCount DEF FinishSummary
<1>11. CASE QueueTranslation(s)
  <2>1. Painters(slot') = Painters(slot)
    <3>0. ~FollowUpFault
      BY <1>0, <1>1 DEF FollowUpFault
    <3>. PICK l \in slot[s].todo :
           /\ Missing(translation[l]) => Room # {}
           /\ \/ /\ Missing(translation[l])
                 /\ slot' = With([slot EXCEPT ![s].todo = @ \ {l}], l)
              \/ slot' = [slot EXCEPT ![s].todo = @ \ {l}]
      BY <1>11, <3>0 DEF QueueTranslation
    <3>1. l # "poster" /\ slot[s].pc = "follow"
      BY <1>0, <1>11 DEF Slot, QueueTranslation
    <3>2. CASE slot' = [slot EXCEPT ![s].todo = @ \ {l}]
      BY <1>0, <3>2 DEF Painters, Painter
    <3>3. CASE Missing(translation[l]) /\ slot' = With([slot EXCEPT ![s].todo = @ \ {l}], l)
      <4>. DEFINE r == CHOOSE t \in Room : TRUE
      <4>1. r \in Slots /\ slot[r].pc = "free"
        BY <3>3, RoomTaken
      <4>2. slot' = [[slot EXCEPT ![s].todo = @ \ {l}] EXCEPT ![r] = Message(l)]
        BY <3>3 DEF With
      <4>. HIDE DEF r
      <4>3. ~Painter(Message(l)) /\ ~Painter(slot[r])
        BY <3>1, <4>1 DEF Painter, Message, FreeSlot
      <4>4. \A t \in Slots \ {r} : slot'[t].kind = slot[t].kind /\ slot'[t].pc = slot[t].pc
        BY <1>0, <4>1, <4>2 DEF Slot
      <4>5. slot'[r] = Message(l)
        BY <1>0, <4>1, <4>2
      <4>6. \A t \in Slots : Painter(slot'[t]) <=> Painter(slot[t])
        BY <4>1, <4>3, <4>4, <4>5 DEF Painter
      <4>. QED BY <4>6 DEF Painters
    <3>. QED BY <3>2, <3>3
  <2>. QED BY <1>4, <1>6, <1>11, <2>1, PaintersCount DEF QueueTranslation
<1>12. CASE QueuePoster(s)
  <2>1. CASE ~Missing(poster)
    <3>1. ~Painter(FreeSlot) /\ slot' = [slot EXCEPT ![s] = FreeSlot]
          /\ pictures' = pictures /\ poster' = poster
      BY <1>12, <2>1 DEF QueuePoster, Done, Painter, FreeSlot
    <3>. QED BY <1>4, <1>5, <1>6, <3>1
  <2>2. CASE Missing(poster)
    <3>1. poster = "none"
      BY <1>6, <2>2 DEF Missing
    <3>2. poster' = "queued" /\ pictures' = pictures /\ slot' = [slot EXCEPT ![s] = Message("poster")]
      BY <1>0, <1>1, <1>12, <2>2 DEF QueuePoster, FollowUpFault
    <3>3. Cardinality(Painters(slot')) <= Cardinality(Painters(slot)) + 1
      BY <1>0, <3>2, PaintersChange
    <3>. QED BY <1>0, <1>2, <1>3, <3>1, <3>2, <3>3, PaintersCount DEF Afforded, FirstToCome
  <2>. QED BY <2>1, <2>2
<1>13. CASE StartPoster(s)
  <2>1. Painter(slot[s]) /\ ~Painter(FreeSlot) /\ pictures' = pictures
    BY <1>13 DEF StartPoster, Of, Painter, FreeSlot
  <2>2. CASE Ready
    <3>1. slot' = [slot EXCEPT ![s] = [slot[s] EXCEPT !.pc = "claim"]] /\ poster' = poster
      BY <1>13, <2>2 DEF StartPoster, To
    <3>. QED BY <1>4, <1>5, <1>6, <2>1, <3>1
  <2>3. CASE ~Ready
    <3>1. slot' = [slot EXCEPT ![s] = FreeSlot] /\ poster' = Withdrawn(poster)
      BY <1>13, <2>3 DEF StartPoster, Done
    <3>2. Cardinality(Painters(slot')) = Cardinality(Painters(slot)) - 1
      BY <1>0, <2>1, <3>1, PaintersChange
    <3>3. poster' # "error"
      BY <1>6, <3>1 DEF Withdrawn
    <3>. QED
      BY <1>0, <1>2, <1>3, <2>1, <3>2, <3>3, PaintersCount DEF Afforded, FirstToCome
  <2>. QED BY <2>2, <2>3
<1>14. CASE ClaimPoster(s)
  <2>1. /\ Painter(slot[s]) /\ pictures' = pictures
        /\ slot' = [slot EXCEPT ![s] = [slot[s] EXCEPT !.pc = "call"]]
        /\ poster' # "error" /\ (poster' = "none" => poster = "none")
    BY <1>14 DEF ClaimPoster, Of, To, Painter, Marked
  <2>. QED BY <1>4, <1>5, <2>1
<1>15. CASE Paint(s)
  <2>1. /\ Painter(slot[s]) /\ ~Painter([slot[s] EXCEPT !.pc = "save"])
        /\ pictures' = pictures + 1 /\ poster' = poster
        /\ slot' = [slot EXCEPT ![s] = [slot[s] EXCEPT !.pc = "save"]]
    BY <1>0, <1>15 DEF Paint, Of, To, Painter, Slot
  <2>2. Cardinality(Painters(slot')) = Cardinality(Painters(slot)) - 1
    BY <1>0, <2>1, PaintersChange
  <2>. QED BY <1>0, <1>2, <1>3, <2>1, <2>2, PaintersCount DEF Afforded, FirstToCome
<1>16. CASE SavePoster(s)
  <2>1. /\ ~Painter([slot[s] EXCEPT !.pc = "totals"]) /\ pictures' = pictures
        /\ slot' = [slot EXCEPT ![s] = [slot[s] EXCEPT !.pc = "totals"]]
        /\ poster' # "error" /\ (poster' = "none" => poster = "none")
    BY <1>0, <1>16 DEF SavePoster, Of, To, Painter, Marked, Slot
  <2>. QED BY <1>4, <1>5, <2>1
<1>17. CASE AskFor(s)
  <2>1. /\ slot[s].pc = "asked" /\ pictures' = pictures
        /\ slot' = [slot EXCEPT ![s] = [slot[s] EXCEPT !.pc = "waiting"]]
        /\ poster' \in {"queued", poster}
    BY <1>0, <1>1, <1>17 DEF AskFor, To, FollowUpFault
  <2>2. Painter([slot[s] EXCEPT !.pc = "waiting"]) => Painter(slot[s])
    BY <1>0, <2>1 DEF Painter, Slot
  <2>. QED BY <1>4, <1>5, <1>6, <2>1, <2>2
<1>. QED
  BY <1>7, <1>8, <1>9, <1>10, <1>11, <1>12, <1>13, <1>14, <1>15, <1>16, <1>17
     DEF FollowUpStep

LEMMA AskAfforded ==
  ASSUME PaidInv, followUpFaults' = 0,
         \/ \E a \in FollowUpKinds : FollowUpAsk(a)
         \/ \E l \in Langs \cap FollowUpKinds : AskNative(l) \/ Prefer(l)
  PROVE  Afforded(slot', poster', pictures', followUpRequests')
<1>0. slot \in [Slots -> Slot] /\ pictures \in Nat /\ followUpRequests \in Nat
  BY FollowUpsAssumption DEF PaidInv, FollowUpsTypeOK
<1>1. Afforded(slot, poster, pictures, followUpRequests)
      /\ poster' = poster /\ pictures' = pictures
  BY DEF PaidInv, FollowUpAsk, Look, AskAgain, AskNative, Prefer
<1>. DEFINE r == CHOOSE t \in Room : TRUE
<1>2. ASSUME Room # {}, NEW v, slot' = [slot EXCEPT ![r] = v],
             followUpRequests' = followUpRequests + 1
      PROVE  Afforded(slot', poster', pictures', followUpRequests')
  <2>1. Cardinality(Painters(slot')) <= Cardinality(Painters(slot)) + 1
    BY <1>0, <1>2, RoomTaken, PaintersChange
  <2>. QED BY <1>0, <1>1, <1>2, <2>1, PaintersCount DEF Afforded, FirstToCome
<1>3. ASSUME NEW l \in Langs, AskNative(l)
      PROVE  Afforded(slot', poster', pictures', followUpRequests')
  BY <1>1, <1>3 DEF AskNative
<1>4. ASSUME NEW a, FollowUpAsk(a) \/ Prefer(a)
      PROVE  Afforded(slot', poster', pictures', followUpRequests')
  BY <1>2, <1>4 DEF FollowUpAsk, Look, AskAgain, Prefer, With, FollowUpRequest
<1>. QED BY <1>3, <1>4

\* As long as nothing fails, no picture is paid that nobody asked for, but the first
\* (PaidAccounted).
THEOREM PaidAlwaysAccounted == FollowUpsSpec => []PaidAccounted
<1>1. FollowUpsInit => PaidInv
  <2>. SUFFICES ASSUME FollowUpsInit PROVE PaidInv
    OBVIOUS
  <2>1. Painters(slot) = {}
    BY DEF FollowUpsInit, Painters, Painter, Message, FreeSlot
  <2>2. Cardinality(Painters(slot)) = 0
    BY <2>1, FS_EmptySet
  <2>. QED BY <2>2, FollowUpsInitTyped DEF FollowUpsInit, PaidInv, Afforded, FirstToCome
<1>2. PaidInv /\ [FollowUpsNext]_followUpVars => PaidInv'
  <2>. SUFFICES ASSUME PaidInv, [FollowUpsNext]_followUpVars PROVE PaidInv'
    OBVIOUS
  <2>1. FollowUpsTypeOK'
    BY FollowUpsTypeKept DEF PaidInv
  <2>2. ASSUME followUpFaults' = 0
        PROVE  Afforded(slot', poster', pictures', followUpRequests')
    <3>1. ASSUME NEW s \in Slots, FollowUpStep(s)
          PROVE  Afforded(slot', poster', pictures', followUpRequests')
      BY <2>2, <3>1, StepAfforded
    <3>2. ASSUME NEW s \in Slots, FollowUpFailure(s) PROVE FALSE
      <4>1. followUpFaults' = followUpFaults + 1
        BY <3>2 DEF FollowUpFailure, FailTranslation, FailPoster, FailBackfill, EvictFollowUp,
           FollowUpFault
      <4>2. followUpFaults \in Nat
        BY FollowUpsAssumption DEF PaidInv, FollowUpsTypeOK
      <4>. QED BY <2>2, <4>1, <4>2
    <3>3. CASE UNCHANGED followUpVars
      BY <2>2, <3>3 DEF PaidInv, followUpVars
    <3>4. CASE FollowUpsNext
      BY <2>2, <3>1, <3>2, <3>4, AskAfforded DEF FollowUpsNext
    <3>. QED BY <3>3, <3>4
  <2>. QED BY <2>1, <2>2 DEF PaidInv, Afforded
<1>3. PaidInv => PaidAccounted
  <2>. SUFFICES ASSUME PaidInv, followUpFaults = 0 PROVE pictures <= 1 + followUpRequests
    BY DEF PaidAccounted
  <2>1. pictures \in Nat /\ followUpRequests \in Nat /\ FirstToCome(poster) \in {0, 1}
    BY FollowUpsAssumption DEF PaidInv, FollowUpsTypeOK, FirstToCome
  <2>. QED BY <2>1, PaintersCount DEF PaidInv, Afforded
<1>. QED BY <1>1, <1>2, <1>3, PTL DEF FollowUpsSpec
-----------------------------------------------------------------------------
(* The order of the feed *)

\* The keys of the cards are totally ordered, and the filter of a cursor lets
\* through those that come after it.
LEMMA FeedOrder ==
  ASSUME NEW k \in Key, NEW l \in Key
  PROVE  /\ ~Precedes(k, k)
         /\ k # l => Precedes(k, l) \/ Precedes(l, k)
         /\ ~(Precedes(k, l) /\ Precedes(l, k))
         /\ Behind(k, l) <=> Precedes(l, k)
         /\ \A m \in Key : Precedes(k, l) /\ Precedes(l, m) => Precedes(k, m)
<1>1. \A m \in Key : /\ m.date \in Nat /\ m.card[1] \in Nat /\ m.card[2] \in Nat
                     /\ m = [card |-> <<m.card[1], m.card[2]>>, date |-> m.date]
  <2>. TAKE m \in Key
  <2>1. m.card \in {0, 1} \X (Nat \ {0}) /\ m.date \in Nat
    BY FeedAssumption DEF Key
  <2>2. m = [card |-> m.card, date |-> m.date]
    BY DEF Key
  <2>3. m.card = <<m.card[1], m.card[2]>> /\ m.card[1] \in Nat /\ m.card[2] \in Nat
    BY <2>1
  <2>. QED BY <2>1, <2>2, <2>3
<1>2. k # l => \/ k.date # l.date \/ k.card[1] # l.card[1] \/ k.card[2] # l.card[2]
  BY <1>1
<1>. QED BY <1>1, <1>2 DEF Precedes, Behind

Before(k, keys) == {l \in keys : Precedes(l, k)}

LEMMA BeforeFinite ==
  ASSUME NEW keys, IsFiniteSet(keys), NEW k
  PROVE  /\ IsFiniteSet(Before(k, keys)) /\ Cardinality(Before(k, keys)) \in Nat
BY FS_Subset, FS_CardinalityType DEF Before

FewerThan == {p \in Nat \X Nat : p[1] < p[2]}

LEMMA Fewest ==
  ASSUME NEW S \in SUBSET Nat, S # {}
  PROVE  \E n \in S : \A m \in S : n <= m
<1>1. IsWellFoundedOn(FewerThan, Nat)
  BY NatLessThanWellFounded DEF OpToRel, FewerThan
<1>2. PICK n \in S : \A m \in S : <<m, n>> \notin FewerThan
  BY <1>1, WFMin
<1>3. ASSUME NEW m \in S PROVE n <= m
  <2>1. m \in Nat /\ n \in Nat /\ ~(m < n)
    BY <1>2 DEF FewerThan
  <2>. QED BY <2>1
<1>. QED BY <1>3

\* Of the keys of a finite set, the one with the fewest before it has none.
LEMMA FirstKeyOf ==
  ASSUME NEW keys \in SUBSET Key, keys # {}, IsFiniteSet(keys)
  PROVE  \E k \in keys : Before(k, keys) = {}
<1>. DEFINE Counts == {Cardinality(Before(k, keys)) : k \in keys}
<1>1. \A k \in keys : IsFiniteSet(Before(k, keys)) /\ Cardinality(Before(k, keys)) \in Nat
  BY BeforeFinite
<1>2. Counts \in SUBSET Nat /\ Counts # {}
  BY <1>1
<1>3. PICK k \in keys : \A l \in keys : Cardinality(Before(k, keys)) <= Cardinality(Before(l, keys))
  <2>1. PICK n \in Counts : \A m \in Counts : n <= m
    <3>. HIDE DEF Counts
    <3>. QED BY <1>2, Fewest
  <2>. QED BY <2>1
<1>4. ASSUME NEW l \in Before(k, keys) PROVE FALSE
  <2>1. l \in keys /\ l \in Key /\ k \in Key
    BY DEF Before
  <2>2. Before(l, keys) \subseteq Before(k, keys) /\ Before(l, keys) # Before(k, keys)
    BY <2>1, FeedOrder DEF Before
  <2>3. Cardinality(Before(l, keys)) < Cardinality(Before(k, keys))
    BY <1>1, <2>1, <2>2, FS_Subset
  <2>. QED BY <1>1, <1>3, <2>1, <2>3
<1>. QED BY <1>4

After(k, keys) == {l \in keys : Precedes(k, l)}

LEMMA LastKeyOf ==
  ASSUME NEW keys \in SUBSET Key, keys # {}, IsFiniteSet(keys)
  PROVE  /\ LastKey(keys) \in keys
         /\ \A l \in keys : l = LastKey(keys) \/ Precedes(l, LastKey(keys))
<1>. DEFINE Counts == {Cardinality(After(k, keys)) : k \in keys}
<1>1. \A k \in keys : IsFiniteSet(After(k, keys)) /\ Cardinality(After(k, keys)) \in Nat
  BY FS_Subset, FS_CardinalityType DEF After
<1>2. Counts \in SUBSET Nat /\ Counts # {}
  BY <1>1
<1>3. PICK k \in keys : \A l \in keys : Cardinality(After(k, keys)) <= Cardinality(After(l, keys))
  <2>1. PICK n \in Counts : \A m \in Counts : n <= m
    <3>. HIDE DEF Counts
    <3>. QED BY <1>2, Fewest
  <2>. QED BY <2>1
<1>4. ASSUME NEW l \in After(k, keys) PROVE FALSE
  <2>1. l \in keys /\ l \in Key /\ k \in Key
    BY DEF After
  <2>2. After(l, keys) \subseteq After(k, keys) /\ After(l, keys) # After(k, keys)
    BY <2>1, FeedOrder DEF After
  <2>3. Cardinality(After(l, keys)) < Cardinality(After(k, keys))
    BY <1>1, <2>1, <2>2, FS_Subset
  <2>. QED BY <1>1, <1>3, <2>1, <2>3
<1>5. \A l \in keys : l = k \/ Precedes(l, k)
  BY <1>4, FeedOrder DEF After
<1>. QED BY <1>5 DEF LastKey

\* What is before a key of the first ones is one of them.
LEMMA FirstPrecede ==
  ASSUME NEW keys \in SUBSET Key, IsFiniteSet(keys), NEW n \in Nat,
         NEW k \in Key, ~(Cardinality(Before(k, keys)) < n)
  PROVE  \A l \in First(n, keys) : Precedes(l, k)
<1>. SUFFICES ASSUME NEW l \in First(n, keys) PROVE Precedes(l, k)
  OBVIOUS
<1>1. l \in keys /\ l \in Key /\ Cardinality(Before(l, keys)) < n
  BY DEF First, Before
<1>2. l # k
  BY <1>1
<1>3. ASSUME Precedes(k, l) PROVE FALSE
  <2>1. Before(k, keys) \subseteq Before(l, keys)
    BY <1>1, <1>3, FeedOrder DEF Before
  <2>2. Cardinality(Before(k, keys)) <= Cardinality(Before(l, keys))
    BY <2>1, BeforeFinite, FS_Subset
  <2>3. Cardinality(Before(k, keys)) \in Nat /\ Cardinality(Before(l, keys)) \in Nat
    BY BeforeFinite
  <2>. QED BY <1>1, <2>2, <2>3
<1>. QED BY <1>1, <1>2, <1>3, FeedOrder

\* The first n are n, or all.
LEMMA FirstN ==
  ASSUME NEW keys \in SUBSET Key, IsFiniteSet(keys), NEW n \in Nat
  PROVE  /\ First(n, keys) \subseteq keys /\ IsFiniteSet(First(n, keys))
         /\ Cardinality(First(n, keys)) \in Nat
         /\ Cardinality(First(n, keys)) <= n
         /\ Cardinality(First(n, keys)) < n => First(n, keys) = keys
<1>. DEFINE first == First(n, keys)
<1>1. first \subseteq keys /\ IsFiniteSet(first) /\ Cardinality(first) \in Nat
  <2>1. first \subseteq keys
    BY DEF First
  <2>. HIDE DEF first
  <2>. QED BY <2>1, FS_Subset, FS_CardinalityType
<1>2. Cardinality(first) <= n
  <2>1. CASE first = {}
    <3>1. Cardinality(first) = 0
      BY <2>1, FS_EmptySet
    <3>. HIDE DEF first
    <3>. QED BY <3>1
  <2>2. CASE first # {}
    <3>. DEFINE last == LastKey(first)
    <3>1. last \in first /\ \A l \in first : l = last \/ Precedes(l, last)
      <4>. HIDE DEF first
      <4>. QED BY <1>1, <2>2, LastKeyOf
    <3>2. Cardinality(Before(last, keys)) < n /\ last \in Key
      BY <3>1, <1>1 DEF First, Before
    <3>3. first \ {last} \subseteq Before(last, keys)
      BY <1>1, <3>1 DEF Before
    <3>4. IsFiniteSet(Before(last, keys)) /\ Cardinality(Before(last, keys)) \in Nat
      BY BeforeFinite
    <3>. HIDE DEF first, last
    <3>5. Cardinality(first \ {last}) = Cardinality(first) - 1
      BY <1>1, <3>1, FS_RemoveElement
    <3>6. Cardinality(first \ {last}) <= Cardinality(Before(last, keys))
      BY <3>3, <3>4, FS_Subset
    <3>. QED BY <1>1, <3>2, <3>4, <3>5, <3>6
  <2>. QED BY <2>1, <2>2
<1>3. ASSUME Cardinality(first) < n, first # keys PROVE FALSE
  <2>. DEFINE others == keys \ first
  <2>1. others \in SUBSET Key /\ others # {} /\ IsFiniteSet(others)
    <3>. HIDE DEF first
    <3>. QED BY <1>1, <1>3, FS_Subset
  <2>2. PICK k \in others : Before(k, others) = {}
    <3>. HIDE DEF others
    <3>. QED BY <2>1, FirstKeyOf
  <2>3. Before(k, keys) \subseteq first
    <3>. HIDE DEF first
    <3>. QED BY <2>2 DEF Before
  <2>4. Cardinality(Before(k, keys)) <= Cardinality(first)
    <3>. HIDE DEF first
    <3>. QED BY <1>1, <2>3, FS_Subset
  <2>5. ~(Cardinality(Before(k, keys)) < n)
    BY <2>2 DEF First, Before
  <2>6. Cardinality(Before(k, keys)) \in Nat
    BY BeforeFinite
  <2>. HIDE DEF first
  <2>. QED BY <1>1, <1>3, <2>4, <2>5, <2>6
<1>. QED BY <1>1, <1>2, <1>3
-----------------------------------------------------------------------------
(* What a list of pages covers *)

KeyAt(dates, c) == [card |-> c, date |-> dates[c]]

\* Card c comes behind the pages of the list.
Ahead(list, dates, c) == list = <<>> \/ Behind(KeyAt(dates, c), LastKey(Last(list).keys))

OnPages(list, k) == \E i \in DOMAIN list : k \in list[i].keys

\* The list has every one of the cards, or tells the reader that there is more.
Covers(list, dates, cards) ==
  list # <<>> =>
    \A c \in cards : \/ OnPages(list, KeyAt(dates, c))
                     \/ Last(list).more /\ Ahead(list, dates, c)

\* The tables that have been read for the next page of the list have given every
\* one of the cards behind it, or a page of others before it.
Gathers(got, unread, list, dates, cards) ==
  \A c \in cards :
    c[1] \notin unread /\ Ahead(list, dates, c)
      => \/ KeyAt(dates, c) \in got
         \/ Cardinality(Before(KeyAt(dates, c), got)) > Limit

KeySet(got) == got \in SUBSET Key /\ IsFiniteSet(got)

LEMMA KeyTyped ==
  ASSUME NEW dates \in [Cards -> FeedDates], NEW c \in Cards
  PROVE  KeyAt(dates, c) \in Key
BY DEF KeyAt, Key

\* What both tables have given for it makes a page that goes on where the list ends.
LEMMA AppendCovers ==
  ASSUME NEW list \in Seq(CardPage), NEW dates \in [Cards -> FeedDates],
         NEW cards \in SUBSET Cards, NEW got, KeySet(got),
         Covers(list, dates, cards), Gathers(got, {}, list, dates, cards)
  PROVE  Covers(Append(list, PageOf(got)), dates, cards)
<1>. DEFINE page == PageOf(got)
            longer == Append(list, page)
<1>0. Limit \in Nat /\ Limit > 0
  BY FeedAssumption
<1>1. /\ page.keys = First(Limit, got) /\ page.more = (Cardinality(got) > Limit)
  BY DEF PageOf
<1>2. /\ First(Limit, got) \subseteq got /\ IsFiniteSet(First(Limit, got))
      /\ Cardinality(First(Limit, got)) \in Nat /\ Cardinality(First(Limit, got)) <= Limit
      /\ Cardinality(First(Limit, got)) < Limit => First(Limit, got) = got
      /\ Cardinality(got) \in Nat
  BY <1>0, FirstN, FS_CardinalityType DEF KeySet
<1>. HIDE DEF page
<1>3. /\ DOMAIN longer = 1 .. (Len(list) + 1) /\ DOMAIN list = 1 .. Len(list) /\ Len(list) \in Nat
      /\ \A i \in DOMAIN list : longer[i] = list[i]
      /\ longer[Len(list) + 1] = page /\ Last(longer) = page /\ longer # <<>>
  BY DEF Last
<1>. HIDE DEF longer
<1>4. \A k : OnPages(list, k) \/ k \in page.keys => OnPages(longer, k)
  <2>1. Len(list) + 1 \in DOMAIN longer /\ \A i \in DOMAIN list : i \in DOMAIN longer
    BY <1>3
  <2>. QED BY <1>3, <2>1 DEF OnPages
<1>5. ASSUME NEW c \in cards
      PROVE  \/ OnPages(longer, KeyAt(dates, c))
             \/ page.more /\ Behind(KeyAt(dates, c), LastKey(page.keys))
  <2>. DEFINE k == KeyAt(dates, c)
  <2>0. k \in Key
    BY KeyTyped
  <2>. HIDE DEF k
  <2>1. CASE OnPages(list, k)
    BY <1>4, <2>1 DEF k
  <2>2. CASE k \in page.keys
    BY <1>4, <2>2 DEF k
  <2>3. CASE ~OnPages(list, k) /\ k \notin page.keys
    <3>1. Ahead(list, dates, c)
      BY <2>3 DEF Covers, Ahead, k
    <3>2. k \in got \/ Cardinality(Before(k, got)) > Limit
      BY <3>1 DEF Gathers, k
    <3>3. Cardinality(Before(k, got)) \in Nat /\ IsFiniteSet(Before(k, got))
      BY BeforeFinite DEF KeySet
    <3>4. ~(Cardinality(Before(k, got)) < Limit)
      <4>1. CASE k \in got
        BY <1>1, <2>3, <4>1 DEF First, Before
      <4>2. CASE Cardinality(Before(k, got)) > Limit
        BY <1>0, <3>3, <4>2
      <4>. QED BY <3>2, <4>1, <4>2
    <3>5. \A l \in page.keys : Precedes(l, k)
      BY <1>0, <1>1, <2>0, <3>4, FirstPrecede DEF KeySet
    <3>6. Before(k, got) \subseteq got
      BY DEF Before
    <3>7. Cardinality(Before(k, got)) <= Cardinality(got)
      BY <3>6, FS_Subset DEF KeySet
    <3>8. page.keys # {}
      <4>1. CASE page.keys = {}
        <5>1. Cardinality(First(Limit, got)) = 0
          BY <1>1, <4>1, FS_EmptySet
        <5>2. got = {}
          BY <1>0, <1>1, <1>2, <4>1, <5>1
        <5>3. Cardinality(got) = 0
          BY <5>2, FS_EmptySet
        <5>. QED BY <1>0, <3>3, <3>4, <3>7, <5>3
      <4>. QED BY <4>1
    <3>9. LastKey(page.keys) \in page.keys /\ LastKey(page.keys) \in Key
      BY <1>1, <1>2, <3>8, LastKeyOf DEF KeySet
    <3>10. Behind(k, LastKey(page.keys))
      BY <2>0, <3>5, <3>9, FeedOrder
    <3>11. page.more
      <4>1. CASE k \in got
        <5>1. k \notin Before(k, got)
          BY <2>0, FeedOrder DEF Before
        <5>2. Before(k, got) # got
          BY <4>1, <5>1
        <5>3. Cardinality(Before(k, got)) < Cardinality(got)
          BY <1>2, <3>3, <3>6, <5>2, FS_Subset DEF KeySet
        <5>4. Cardinality(got) > Limit
          BY <1>0, <1>2, <3>3, <3>4, <5>3
        <5>. QED BY <1>1, <5>4
      <4>2. CASE k \notin got
        <5>1. Cardinality(got) > Limit
          BY <1>0, <1>2, <3>2, <3>3, <3>7, <4>2
        <5>. QED BY <1>1, <5>1
      <4>. QED BY <4>1, <4>2
    <3>. QED BY <3>10, <3>11 DEF k
  <2>. QED BY <2>1, <2>2, <2>3 DEF k
<1>6. Covers(longer, dates, cards)
  BY <1>3, <1>5 DEF Covers, Ahead
<1>. QED BY <1>6 DEF longer, page
\* The rows of a table that a statement looks at.
TableKeys(rank) == KeysOf({c \in visible : c[1] = rank})
Looked(rank, list) == IF list = <<>> THEN TableKeys(rank)
                      ELSE {k \in TableKeys(rank) : Behind(k, LastKey(Last(list).keys))}

LEMMA LookedKeys ==
  ASSUME FeedTypeOK, NEW rank, NEW list
  PROVE  KeySet(Looked(rank, list))
<1>. DEFINE rows == {c \in visible : c[1] = rank}
<1>1. rows \subseteq Cards /\ IsFiniteSet(rows)
  BY FeedAssumption, FS_Subset DEF FeedTypeOK
<1>2. KeysOf(rows) = {KeyAt(date, c) : c \in rows}
  BY DEF KeysOf, KeyAt
<1>. HIDE DEF rows
<1>3. IsFiniteSet(KeysOf(rows))
  <2>. DEFINE f == [c \in rows |-> KeyAt(date, c)]
  <2>1. f \in Surjection(rows, KeysOf(rows))
    BY <1>2 DEF Surjection
  <2>. QED BY <1>1, <2>1, FS_Surjection
<1>4. KeysOf(rows) \subseteq Key
  BY <1>1, <1>2, KeyTyped DEF FeedTypeOK
<1>5. Looked(rank, list) \subseteq KeysOf(rows)
  BY DEF Looked, TableKeys, rows
<1>. QED BY <1>3, <1>4, <1>5, FS_Subset DEF KeySet

\* A statement gives every row behind the list that it can see, or a page of
\* others before it.
LEMMA QueryGathers ==
  ASSUME FeedTypeOK, NEW list \in Seq(CardPage), NEW cards \in SUBSET visible,
         NEW got, KeySet(got), NEW unread, NEW rank,
         Gathers(got, unread, list, date, cards)
  PROVE  /\ Gathers(got \cup Query(rank, list), unread \ {rank}, list, date, cards)
         /\ KeySet(got \cup Query(rank, list))
<1>. DEFINE looked == Looked(rank, list)
            more == got \cup Query(rank, list)
<1>0. Limit \in Nat /\ Limit > 0 /\ Limit + 1 \in Nat
  BY FeedAssumption
<1>1. Query(rank, list) = First(Limit + 1, looked)
  BY DEF Query, Looked, TableKeys
<1>2. KeySet(looked)
  BY LookedKeys
<1>. HIDE DEF looked
<1>3. /\ First(Limit + 1, looked) \subseteq looked /\ IsFiniteSet(First(Limit + 1, looked))
      /\ Cardinality(First(Limit + 1, looked)) \in Nat
      /\ Cardinality(First(Limit + 1, looked)) < Limit + 1 => First(Limit + 1, looked) = looked
  BY <1>0, <1>2, FirstN DEF KeySet
<1>4. KeySet(more)
  BY <1>1, <1>2, <1>3, FS_Union DEF KeySet
<1>5. got \subseteq more /\ First(Limit + 1, looked) \subseteq more
  BY <1>1
<1>. HIDE DEF more
<1>6. ASSUME NEW c \in cards, c[1] \notin unread \ {rank}, Ahead(list, date, c)
      PROVE  KeyAt(date, c) \in more \/ Cardinality(Before(KeyAt(date, c), more)) > Limit
  <2>. DEFINE k == KeyAt(date, c)
  <2>0. c \in Cards /\ c \in visible /\ k \in Key
    BY KeyTyped DEF FeedTypeOK
  <2>1. /\ IsFiniteSet(Before(k, more)) /\ Cardinality(Before(k, more)) \in Nat
        /\ IsFiniteSet(Before(k, got)) /\ Cardinality(Before(k, got)) \in Nat
    BY <1>4, BeforeFinite DEF KeySet
  <2>2. CASE c[1] \notin unread
    <3>1. k \in got \/ Cardinality(Before(k, got)) > Limit
      BY <1>6, <2>2 DEF Gathers
    <3>. HIDE DEF k
    <3>2. Before(k, got) \subseteq Before(k, more)
      BY <1>5 DEF Before
    <3>3. Cardinality(Before(k, got)) <= Cardinality(Before(k, more))
      BY <2>1, <3>2, FS_Subset
    <3>4. k \in more \/ Cardinality(Before(k, more)) > Limit
      BY <1>0, <1>5, <2>1, <3>1, <3>3
    <3>. QED BY <3>4 DEF k
  <2>3. CASE c[1] = rank
    <3>1. k \in looked
      <4>1. k \in TableKeys(rank)
        BY <2>0, <2>3 DEF TableKeys, KeysOf, KeyAt
      <4>. QED BY <1>6, <4>1 DEF looked, Looked, Ahead
    <3>. HIDE DEF k
    <3>2. CASE k \in First(Limit + 1, looked)
      BY <1>5, <3>2 DEF k
    <3>3. CASE k \notin First(Limit + 1, looked)
      <4>1. ~(Cardinality(Before(k, looked)) < Limit + 1)
        BY <3>1, <3>3 DEF First, Before
      <4>2. \A l \in First(Limit + 1, looked) : Precedes(l, k)
        BY <1>0, <1>2, <2>0, <4>1, FirstPrecede DEF KeySet
      <4>3. First(Limit + 1, looked) \subseteq Before(k, more)
        BY <1>5, <4>2 DEF Before
      <4>4. Cardinality(First(Limit + 1, looked)) <= Cardinality(Before(k, more))
        BY <2>1, <4>3, FS_Subset
      <4>5. ~(Cardinality(First(Limit + 1, looked)) < Limit + 1)
        BY <1>3, <3>1, <3>3
      <4>6. Cardinality(Before(k, more)) > Limit
        BY <1>0, <1>3, <2>1, <4>4, <4>5
      <4>. QED BY <4>6 DEF k
    <3>. QED BY <3>2, <3>3
  <2>. QED BY <1>6, <2>2, <2>3
<1>7. Gathers(more, unread \ {rank}, list, date, cards)
  BY <1>6 DEF Gathers
<1>. QED BY <1>4, <1>7 DEF more

-----------------------------------------------------------------------------
(* The reader's pages *)

Small(list) == \A i \in DOMAIN list : Cardinality(list[i].keys) <= Limit

\* A fetch of the next page goes on where the pages shown end, a refetch where the
\* pages fetched so far end.
FeedInv ==
  /\ FeedTypeOK /\ KeySet(fetching.got) /\ Small(fetching.fresh)
  /\ fetching.pc # "all" => fetching.fresh = <<>>

Covered(shown, fetch, dates, old, new) ==
  /\ Covers(shown, dates, old)
  /\ Covers(fetch.fresh, dates, new)
  /\ fetch.pc = "next" => Gathers(fetch.got, fetch.unread, shown, dates, old)
  /\ fetch.pc = "all" => Gathers(fetch.got, fetch.unread, fetch.fresh, dates, new)

CoverInv == FeedInv /\ Covered(pages, fetching, date, steady, coming)

LEMMA FetchTyped ==
  /\ IdleFetch \in Fetching /\ KeySet({})
  /\ \A pc \in {"next", "all"} :
       /\ Request([IdleFetch EXCEPT !.pc = pc]) \in Fetching
       /\ Request([IdleFetch EXCEPT !.pc = pc]).pc = pc
       /\ Request([IdleFetch EXCEPT !.pc = pc]).unread = Ranks
       /\ Request([IdleFetch EXCEPT !.pc = pc]).got = {}
       /\ Request([IdleFetch EXCEPT !.pc = pc]).fresh = <<>>
  /\ \A f \in Fetching : \A fresh \in Seq(CardPage) :
       /\ Request([f EXCEPT !.fresh = fresh]) \in Fetching
       /\ Request([f EXCEPT !.fresh = fresh]).pc = f.pc
       /\ Request([f EXCEPT !.fresh = fresh]).unread = Ranks
       /\ Request([f EXCEPT !.fresh = fresh]).got = {}
       /\ Request([f EXCEPT !.fresh = fresh]).fresh = fresh
<1>1. KeySet({})
  BY FS_EmptySet DEF KeySet
<1>2. IdleFetch \in Fetching
  BY DEF IdleFetch, Fetching
<1>3. ASSUME NEW pc \in {"next", "all"}
      PROVE  /\ Request([IdleFetch EXCEPT !.pc = pc]) \in Fetching
             /\ Request([IdleFetch EXCEPT !.pc = pc]).pc = pc
             /\ Request([IdleFetch EXCEPT !.pc = pc]).unread = Ranks
             /\ Request([IdleFetch EXCEPT !.pc = pc]).got = {}
             /\ Request([IdleFetch EXCEPT !.pc = pc]).fresh = <<>>
  <2>1. IdleFetch.fresh = <<>>
    BY DEF IdleFetch
  <2>. DEFINE f == [IdleFetch EXCEPT !.pc = pc]
  <2>2. f \in Fetching /\ f.pc = pc /\ f.fresh = IdleFetch.fresh
    BY <1>2 DEF Fetching
  <2>. HIDE DEF f
  <2>3. Request(f) \in Fetching /\ Request(f).pc = f.pc /\ Request(f).fresh = f.fresh
        /\ Request(f).unread = Ranks /\ Request(f).got = {}
    BY <2>2 DEF Fetching, Request
  <2>. QED BY <2>1, <2>2, <2>3 DEF f
<1>4. ASSUME NEW f \in Fetching, NEW fresh \in Seq(CardPage)
      PROVE  /\ Request([f EXCEPT !.fresh = fresh]) \in Fetching
             /\ Request([f EXCEPT !.fresh = fresh]).pc = f.pc
             /\ Request([f EXCEPT !.fresh = fresh]).unread = Ranks
             /\ Request([f EXCEPT !.fresh = fresh]).got = {}
             /\ Request([f EXCEPT !.fresh = fresh]).fresh = fresh
  BY DEF Fetching, Request
<1>. QED BY <1>1, <1>2, <1>3, <1>4

\* No table has been read: nothing to gather.
LEMMA NoneRead ==
  ASSUME NEW list, NEW dates, NEW cards \in SUBSET Cards
  PROVE  Gathers({}, Ranks, list, dates, cards)
<1>1. \A c \in cards : c[1] \in Ranks
  BY FeedAssumption DEF Ranks
<1>. QED BY <1>1 DEF Gathers

\* Fewer cards are covered as well.
LEMMA FewerCovered ==
  ASSUME NEW shown, NEW fetch, NEW dates, NEW later, NEW old, NEW new,
         NEW old2 \in SUBSET old, NEW new2 \in SUBSET new,
         Covered(shown, fetch, dates, old, new),
         \A c \in old2 \cup new2 : later[c] = dates[c]
  PROVE  Covered(shown, fetch, later, old2, new2)
<1>1. \A c \in old2 \cup new2 : KeyAt(later, c) = KeyAt(dates, c)
  BY DEF KeyAt
<1>2. Covers(shown, later, old2) /\ Covers(fetch.fresh, later, new2)
  BY <1>1 DEF Covered, Covers, Ahead
<1>. QED BY <1>1, <1>2 DEF Covered, Gathers, Ahead

LEMMA PageTyped ==
  ASSUME NEW list \in Seq(CardPage), Small(list), NEW got, KeySet(got)
  PROVE  /\ Append(list, PageOf(got)) \in Seq(CardPage)
         /\ Small(Append(list, PageOf(got)))
<1>. DEFINE page == PageOf(got)
<1>0. Limit \in Nat
  BY FeedAssumption
<1>1. page \in CardPage /\ Cardinality(page.keys) <= Limit
  <2>1. page.keys = First(Limit, got) /\ PageOf(got) = [keys |-> page.keys, more |-> page.more]
        /\ page.more \in BOOLEAN
    BY DEF PageOf
  <2>2. First(Limit, got) \subseteq Key /\ Cardinality(First(Limit, got)) <= Limit
    BY <1>0, FirstN DEF KeySet
  <2>. HIDE DEF page
  <2>3. page = [keys |-> page.keys, more |-> page.more]
    BY <2>1 DEF page
  <2>. QED BY <2>1, <2>2, <2>3 DEF CardPage
<1>. HIDE DEF page
<1>2. Append(list, page) \in Seq(CardPage) /\ Small(Append(list, page))
  BY <1>1 DEF Small
<1>. QED BY <1>2 DEF page
LEMMA CoverTyped ==
  ASSUME CoverInv
  PROVE  /\ date \in [Cards -> FeedDates] /\ visible \subseteq Cards
         /\ pages \in Seq(CardPage) /\ Small(pages) /\ fetching \in Fetching
         /\ steady \subseteq visible /\ coming \subseteq visible
         /\ steady \subseteq Cards /\ coming \subseteq Cards
         /\ fetching.pc \in {"idle", "next", "all"}
         /\ fetching.fresh \in Seq(CardPage) /\ Small(fetching.fresh)
         /\ KeySet(fetching.got)
BY DEF CoverInv, FeedInv, FeedTypeOK, Fetching, Small

LEMMA StartCovers ==
  ASSUME CoverInv, StartNext \/ StartAll PROVE CoverInv'
<1>. USE CoverTyped
<1>1. PICK pc \in {"next", "all"} :
        /\ fetching' = Request([IdleFetch EXCEPT !.pc = pc])
        /\ coming' = IF pc = "next" THEN coming ELSE visible
        /\ UNCHANGED <<date, visible, pages, steady>>
  BY DEF StartNext, StartAll
<1>2. /\ fetching' \in Fetching /\ fetching'.pc = pc /\ fetching'.unread = Ranks
      /\ fetching'.got = {} /\ fetching'.fresh = <<>>
  BY <1>1, FetchTyped
<1>3. FeedInv'
  <2>1. coming' \subseteq visible
    BY <1>1
  <2>2. Small(<<>>)
    BY DEF Small
  <2>3. KeySet(fetching'.got) /\ Small(fetching'.fresh)
    BY <1>2, <2>2, FetchTyped
  <2>. QED BY <1>1, <1>2, <2>1, <2>3 DEF FeedInv, FeedTypeOK, Small, KeySet
<1>4. /\ Gathers({}, Ranks, pages, date, steady)
      /\ Gathers({}, Ranks, <<>>, date, coming')
  BY <1>1, NoneRead
<1>5. Covers(pages, date, steady) /\ Covers(<<>>, date, coming')
  BY DEF CoverInv, Covered, Covers
<1>6. Covered(pages, fetching', date, steady, coming')
  BY <1>2, <1>4, <1>5 DEF Covered
<1>7. Covered(pages', fetching', date', steady', coming')
  BY <1>1, <1>6
<1>. QED BY <1>3, <1>7 DEF CoverInv, Covered, Covers, Gathers, KeyAt, OnPages, Ahead, Before

LEMMA ReadCovers ==
  ASSUME CoverInv, NEW rank \in Ranks, ReadTable(rank) PROVE CoverInv'
<1>. USE CoverTyped
<1>. DEFINE list == Preceding
            got == fetching.got \cup Query(rank, list)
            cards == IF fetching.pc = "next" THEN steady ELSE coming
<1>1. /\ rank \in fetching.unread
      /\ fetching' = [fetching EXCEPT !.unread = fetching.unread \ {rank}, !.got = got]
      /\ UNCHANGED <<date, visible, pages, steady, coming>>
  BY DEF ReadTable
<1>2. list \in Seq(CardPage) /\ cards \subseteq visible
  BY DEF Preceding
<1>3. fetching.pc # "idle" => Gathers(fetching.got, fetching.unread, list, date, cards)
  BY DEF CoverInv, Covered, Preceding
<1>4. /\ fetching.pc # "idle" => Gathers(got, fetching.unread \ {rank}, list, date, cards)
      /\ KeySet(got)
  <2>1. FeedTypeOK
    BY DEF CoverInv, FeedInv
  <2>2. CASE fetching.pc # "idle"
    <3>. HIDE DEF list, cards
    <3>. QED BY <1>2, <1>3, <2>1, <2>2, QueryGathers
  <2>3. CASE fetching.pc = "idle"
    <3>1. Gathers(fetching.got, fetching.unread, list, date, {})
      BY DEF Gathers
    <3>. HIDE DEF list, cards
    <3>2. KeySet(got)
      BY <1>2, <2>1, <3>1, QueryGathers
    <3>. QED BY <2>3, <3>2
  <2>. QED BY <2>2, <2>3
<1>. HIDE DEF got
<1>5. /\ fetching' \in Fetching /\ fetching'.pc = fetching.pc /\ fetching'.got = got
      /\ fetching'.unread = fetching.unread \ {rank} /\ fetching'.fresh = fetching.fresh
  BY <1>1, <1>4 DEF Fetching, KeySet
<1>6. FeedInv'
  BY <1>1, <1>4, <1>5 DEF CoverInv, FeedInv, FeedTypeOK, Small, KeySet
<1>7. Covered(pages, fetching', date, steady, coming)
  BY <1>4, <1>5 DEF CoverInv, Covered, Preceding
<1>8. Covered(pages', fetching', date', steady', coming')
  BY <1>1, <1>7
<1>. QED BY <1>6, <1>8 DEF CoverInv, Covered, Covers, Gathers, KeyAt, OnPages, Ahead, Before

LEMMA ReceiveCovers ==
  ASSUME CoverInv, Receive PROVE CoverInv'
<1>. USE CoverTyped
<1>. DEFINE page == PageOf(fetching.got)
            fresh == Append(fetching.fresh, page)
<1>0. /\ fetching.pc # "idle" /\ fetching.unread = {}
      /\ UNCHANGED <<date, visible, coming>>
  BY DEF Receive
<1>1. fresh \in Seq(CardPage) /\ Small(fresh)
  BY PageTyped
<1>2. IdleFetch.pc = "idle" /\ IdleFetch.fresh = <<>> /\ KeySet(IdleFetch.got)
  BY FetchTyped DEF IdleFetch
<1>3. CASE fetching.pc = "next"
  <2>1. pages' = Append(pages, page) /\ fetching' = IdleFetch /\ steady' = steady
    BY <1>3 DEF Receive
  <2>2. Append(pages, page) \in Seq(CardPage) /\ Small(Append(pages, page))
    BY PageTyped
  <2>3. Covers(Append(pages, page), date, steady)
    BY <1>0, <1>3, AppendCovers DEF CoverInv, Covered
  <2>. HIDE DEF page
  <2>4. Covered(Append(pages, page), IdleFetch, date, steady, coming)
    BY <1>2, <2>3 DEF Covered, Covers
  <2>5. FeedInv'
    BY <1>0, <1>2, <2>1, <2>2, FetchTyped DEF CoverInv, FeedInv, FeedTypeOK, Small, KeySet
  <2>6. Covered(pages', fetching', date', steady', coming')
    BY <1>0, <2>1, <2>4
  <2>. QED BY <2>5, <2>6 DEF CoverInv, Covered, Covers, Gathers, KeyAt, OnPages, Ahead, Before
<1>4. CASE fetching.pc = "all"
  <2>1. Covers(fresh, date, coming)
    BY <1>0, <1>4, AppendCovers DEF CoverInv, Covered
  <2>2. CASE AllFetched(fresh)
    <3>1. pages' = fresh /\ fetching' = IdleFetch /\ steady' = coming
      BY <1>4, <2>2 DEF Receive
    <3>. HIDE DEF page, fresh
    <3>2. Covered(fresh, IdleFetch, date, coming, coming)
      BY <1>2, <2>1 DEF Covered, Covers
    <3>3. FeedInv'
      BY <1>0, <1>1, <1>2, <3>1, FetchTyped DEF CoverInv, FeedInv, FeedTypeOK, Small, KeySet
    <3>4. Covered(pages', fetching', date', steady', coming')
      BY <1>0, <3>1, <3>2
    <3>. QED BY <3>3, <3>4 DEF CoverInv, Covered, Covers, Gathers, KeyAt, OnPages, Ahead, Before
  <2>3. CASE ~AllFetched(fresh)
    <3>. DEFINE again == Request([fetching EXCEPT !.fresh = fresh])
    <3>1. fetching' = again /\ pages' = pages /\ steady' = steady
      BY <1>4, <2>3 DEF Receive
    <3>. HIDE DEF page, fresh
    <3>2. /\ again \in Fetching /\ again.pc = "all" /\ again.unread = Ranks
          /\ again.got = {} /\ again.fresh = fresh
      BY <1>1, <1>4, FetchTyped
    <3>. HIDE DEF again
    <3>3. Gathers({}, Ranks, fresh, date, coming)
      BY NoneRead
    <3>4. Covered(pages, again, date, steady, coming)
      BY <2>1, <3>2, <3>3 DEF CoverInv, Covered
    <3>5. FeedInv'
      BY <1>0, <1>1, <3>1, <3>2, FetchTyped DEF CoverInv, FeedInv, FeedTypeOK, Small, KeySet
    <3>6. Covered(pages', fetching', date', steady', coming')
      BY <1>0, <3>1, <3>4
    <3>. QED BY <3>5, <3>6 DEF CoverInv, Covered, Covers, Gathers, KeyAt, OnPages, Ahead, Before
  <2>. QED BY <2>2, <2>3
<1>. QED BY <1>0, <1>3, <1>4

LEMMA FailCovers ==
  ASSUME CoverInv, FailFetch PROVE CoverInv'
<1>. USE CoverTyped
<1>1. fetching' = IdleFetch /\ UNCHANGED <<date, visible, pages, steady, coming>>
  BY DEF FailFetch
<1>2. IdleFetch.pc = "idle" /\ IdleFetch.fresh = <<>> /\ KeySet(IdleFetch.got)
  BY FetchTyped DEF IdleFetch
<1>3. Covered(pages, IdleFetch, date, steady, coming)
  BY <1>2 DEF CoverInv, Covered, Covers
<1>4. FeedInv'
  BY <1>1, <1>2, FetchTyped DEF CoverInv, FeedInv, FeedTypeOK, Small, KeySet
<1>5. Covered(pages', fetching', date', steady', coming')
  BY <1>1, <1>3
<1>. QED BY <1>4, <1>5 DEF CoverInv, Covered, Covers, Gathers, KeyAt, OnPages, Ahead, Before

LEMMA ChangeCovers ==
  ASSUME CoverInv, NEW c \in Cards, ChangeCard(c) PROVE CoverInv'
<1>. USE CoverTyped
<1>1. /\ steady' = steady \ {c} /\ coming' = coming \ {c}
      /\ UNCHANGED <<pages, fetching>>
      /\ \A b \in Cards \ {c} : date'[b] = date[b] /\ (b \in visible' <=> b \in visible)
      /\ date' \in [Cards -> FeedDates] /\ visible' \subseteq Cards
  BY DEF ChangeCard
<1>2. FeedInv'
  BY <1>1 DEF CoverInv, FeedInv, FeedTypeOK, Small, KeySet
<1>3. Covered(pages, fetching, date', steady', coming')
  <2>1. \A b \in steady' \cup coming' : date'[b] = date[b]
    BY <1>1
  <2>2. steady' \in SUBSET steady /\ coming' \in SUBSET coming
    BY <1>1
  <2>. QED BY <2>1, <2>2, FewerCovered DEF CoverInv
<1>4. Covered(pages', fetching', date', steady', coming')
  BY <1>1, <1>3
<1>. QED BY <1>2, <1>4 DEF CoverInv, Covered, Covers, Gathers, KeyAt, OnPages, Ahead, Before

LEMMA NextCovers == CoverInv /\ [FeedNext]_feedVars => CoverInv'
<1>. SUFFICES ASSUME CoverInv, [FeedNext]_feedVars PROVE CoverInv'
  OBVIOUS
<1>1. CASE UNCHANGED feedVars
  BY <1>1 DEF feedVars, CoverInv, FeedInv, FeedTypeOK, Small, KeySet, Covered, Covers, Gathers,
              KeyAt, OnPages, Ahead, Before
<1>. QED BY <1>1, StartCovers, ReadCovers, ReceiveCovers, FailCovers, ChangeCovers DEF FeedNext

LEMMA InitCovers == FeedInit => CoverInv
<1>. SUFFICES ASSUME FeedInit PROVE CoverInv
  OBVIOUS
<1>1. IdleFetch.pc = "idle" /\ IdleFetch.fresh = <<>> /\ KeySet(IdleFetch.got)
  BY FetchTyped DEF IdleFetch
<1>2. FeedInv
  BY <1>1, FetchTyped DEF FeedInit, FeedInv, FeedTypeOK, Small
<1>. QED BY <1>1, <1>2 DEF FeedInit, CoverInv, Covered, Covers

\* Every variable of the feed keeps its type, and no page has more than Limit cards.
THEOREM FeedTypeCorrect == FeedSpec => []FeedTypeOK
<1>1. CoverInv => FeedTypeOK
  BY DEF CoverInv, FeedInv
<1>. QED BY <1>1, InitCovers, NextCovers, PTL DEF FeedSpec

\* No page of the bulletin feed skips a card that has not changed since the first of
\* the pages shown was fetched, in a list of any length, of any page size, for any
\* number of cards of any dates, however the cards change between the statements.
THEOREM NeverSkips == FeedSpec => []NothingSkipped
<1>1. CoverInv => NothingSkipped
  <2>. SUFFICES ASSUME CoverInv, pages # <<>>, NEW c \in steady
                PROVE  \/ c \in Shown
                       \/ /\ Last(pages).more
                          /\ Behind([card |-> c, date |-> date[c]], LastKey(Last(pages).keys))
    BY DEF NothingSkipped
  <2>1. CASE OnPages(pages, KeyAt(date, c))
    <3>1. PICK i \in DOMAIN pages : KeyAt(date, c) \in pages[i].keys
      BY <2>1 DEF OnPages
    <3>2. KeyAt(date, c) \in ShownKeys /\ KeyAt(date, c).card = c
      BY <3>1 DEF ShownKeys, KeyAt
    <3>. QED BY <3>2 DEF Shown
  <2>2. CASE Last(pages).more /\ Ahead(pages, date, c)
    BY <2>2 DEF Ahead, KeyAt
  <2>. QED BY <2>1, <2>2 DEF CoverInv, Covered, Covers
<1>. QED BY <1>1, InitCovers, NextCovers, PTL DEF FeedSpec
=============================================================================
