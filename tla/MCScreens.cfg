\* The jobs of one item in two languages; a feed of two cards of each kind; two
\* drains of an article, with a text of two sections and one preferred language.
CONSTANTS
  Langs = {"en", "zh"}
  Required = {"zh"}
  Public = TRUE
  Preferred = {}
  Native = {"en", "zh"}
  Slots = {1, 2, 3}
  MaxTries = 2
  MaxVersions = 2
  FollowUpKinds = {"en", "zh", "poster", "summary", "headline"}
  MaxFollowUpFaults = 1
  MaxFollowUpRequests = 1
  Cards <- CardsOf
  FeedDates = {1, 2}
  Limit = 1
  MaxFeedChanges = 1
  MaxFeedFaults = 1
  Drains = {d1, d2}
  EditionLangs = {"zh"}
  Sections = 2
  MaxEvidence = 1
  MaxArticleAttempts = 2
  AnyLanguage = FALSE
  MaxArticleFaults = 1
  MaxArticleRequests = 2
  NoDrain = NoDrain
SPECIFICATION ScreensSpec
INVARIANTS WantedIsCarried PaidAccounted NothingSkipped DoneIsCurrent OneDrain
PROPERTIES PosterComesOn FeedSettlesOn ArticleSettlesOn AskedArrives
CHECK_DEADLOCK FALSE
