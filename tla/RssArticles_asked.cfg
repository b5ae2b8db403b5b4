\* A page in a language that nobody prefers.
CONSTANTS
  Drains = {d1}
  EditionLangs = {"zh"}
  Sections = 2
  MaxEvidence = 1
  MaxArticleAttempts = 2
  AnyLanguage = TRUE
  MaxArticleFaults = 0
  MaxArticleRequests = 1
  NoDrain = NoDrain
SPECIFICATION ArticlesFairSpec
PROPERTIES AskedArrives
CHECK_DEADLOCK FALSE
