-------------------------- MODULE RssSourcesProofs --------------------------
(***************************************************************************)
(* Theorems about RssSources: a complete history misses no post, and calls    *)
(* with old credentials say nothing of new ones, for any number of posts,     *)
(* calendars, page sizes, polls, faults and requests.                        *)
(***************************************************************************)
EXTENDS RssSources, FiniteSetTheorems, WellFoundedInduction, NaturalsInduction, TLAPS

-----------------------------------------------------------------------------
(* The newest posts *)

Below == {p \in Nat \X Nat : p[1] < p[2]}

LEMMA MinOf ==
  ASSUME NEW S \in SUBSET Nat, S # {}
  PROVE  Min(S) \in S /\ \A x \in S : Min(S) <= x
<1>1. IsWellFoundedOn(Below, Nat)
  BY NatLessThanWellFounded DEF OpToRel, Below
<1>2. PICK x \in S : \A y \in S : <<y, x>> \notin Below
  BY <1>1, WFMin
<1>3. \A y \in S : x <= y
  <2>1. SUFFICES ASSUME NEW y \in S PROVE x <= y
    OBVIOUS
  <2>2. x \in Nat /\ y \in Nat /\ ~(y < x)
    BY <1>2 DEF Below
  <2>. QED BY <2>2
<1>. QED BY <1>3 DEF Min

Newer(p, S) == {q \in S : q > p}

LEMMA NewerFinite ==
  ASSUME NEW S, IsFiniteSet(S), NEW p
  PROVE  IsFiniteSet(Newer(p, S)) /\ Cardinality(Newer(p, S)) \in Nat
BY FS_Subset, FS_CardinalityType DEF Newer

LEMMA NewestMeans ==
  ASSUME NEW S, NEW n, NEW p
  PROVE  p \in Newest(n, S) <=> p \in S /\ Cardinality(Newer(p, S)) < n
BY DEF Newest, Newer

\* Of the numbers of a finite set the lowest one has, among those below a
\* bound, and so on: a number with fewer above it comes before.
LEMMA NewerThanNewest ==
  ASSUME NEW S \in SUBSET Nat, IsFiniteSet(S), NEW n \in Nat,
         NEW p \in S, NEW q \in Newest(n, S), p >= q
  PROVE  p \in Newest(n, S)
<1>1. q \in S /\ Cardinality(Newer(q, S)) < n
  BY NewestMeans
<1>2. Newer(p, S) \subseteq Newer(q, S)
  <2>1. p \in Nat /\ q \in Nat /\ \A r \in S : r \in Nat
    BY <1>1
  <2>2. \A r \in S : r > p => r > q
    BY <2>1
  <2>. QED BY <2>2 DEF Newer
<1>3. Cardinality(Newer(p, S)) <= Cardinality(Newer(q, S))
  BY <1>2, NewerFinite, FS_Subset
<1>4. Cardinality(Newer(p, S)) \in Nat /\ Cardinality(Newer(q, S)) \in Nat
  BY NewerFinite
<1>. QED BY <1>1, <1>3, <1>4, NewestMeans

\* The newest n are n, unless they are all.
LEMMA NewestAreMany ==
  ASSUME NEW S \in SUBSET Nat, IsFiniteSet(S), NEW n \in Nat
  PROVE  /\ IsFiniteSet(Newest(n, S)) /\ Cardinality(Newest(n, S)) \in Nat
         /\ Newest(n, S) \subseteq S
         /\ Cardinality(Newest(n, S)) < n => Newest(n, S) = S
<1>. DEFINE newest == Newest(n, S)
<1>1. newest \subseteq S
  BY NewestMeans
<1>2. IsFiniteSet(newest) /\ Cardinality(newest) \in Nat
  <2>. HIDE DEF newest
  <2>. QED BY <1>1, FS_Subset, FS_CardinalityType
<1>3. ASSUME Cardinality(newest) < n, newest # S PROVE FALSE
  \* The greatest of the others has only newest ones above it.
  <2>. DEFINE others == S \ newest
              Counts == {Cardinality(Newer(p, others)) : p \in others}
  <2>1. others \in SUBSET Nat /\ others # {} /\ IsFiniteSet(others)
    <3>. HIDE DEF newest
    <3>. QED BY <1>1, <1>3, FS_Subset
  <2>. HIDE DEF others
  <2>2. \A p \in others : IsFiniteSet(Newer(p, others)) /\ Cardinality(Newer(p, others)) \in Nat
    BY <2>1, NewerFinite
  <2>3. Counts \in SUBSET Nat /\ Counts # {}
    BY <2>1, <2>2
  <2>4. PICK p \in others : \A q \in others :
              Cardinality(Newer(p, others)) <= Cardinality(Newer(q, others))
    <3>1. Min(Counts) \in Counts /\ \A m \in Counts : Min(Counts) <= m
      <4>. HIDE DEF Counts
      <4>. QED BY <2>3, MinOf
    <3>. QED BY <3>1
  <2>5. Newer(p, others) = {}
    <3>. SUFFICES ASSUME NEW q \in Newer(p, others) PROVE FALSE
      OBVIOUS
    <3>1. q \in others /\ q > p /\ q \in Nat /\ p \in Nat
      BY <2>1 DEF Newer
    <3>2. Newer(q, others) \subseteq Newer(p, others) /\ Newer(q, others) # Newer(p, others)
      <4>1. \A r \in others : r \in Nat
        BY <2>1
      <4>2. \A r \in others : r > q => r > p
        BY <3>1, <4>1
      <4>3. q \in Newer(p, others) /\ q \notin Newer(q, others)
        BY <3>1 DEF Newer
      <4>. QED BY <4>2, <4>3 DEF Newer
    <3>3. Cardinality(Newer(q, others)) < Cardinality(Newer(p, others))
      BY <2>2, <3>1, <3>2, FS_Subset
    <3>. QED BY <2>2, <2>4, <3>1, <3>3
  <2>6. Newer(p, S) \subseteq newest
    <3>. HIDE DEF newest
    <3>. QED BY <2>5 DEF Newer, others
  <2>7. Cardinality(Newer(p, S)) <= Cardinality(newest)
    <3>. HIDE DEF newest
    <3>. QED BY <1>2, <2>6, FS_Subset
  <2>8. ~(Cardinality(Newer(p, S)) < n) /\ Cardinality(Newer(p, S)) \in Nat
    <3>1. p \in S /\ p \notin Newest(n, S)
      BY DEF others
    <3>. QED BY <3>1, NewestMeans, NewerFinite
  <2>. HIDE DEF newest
  <2>. QED BY <1>2, <1>3, <2>7, <2>8
<1>. QED BY <1>1, <1>2, <1>3

-----------------------------------------------------------------------------
(* Pages and cursors *)

\* The posts of the archive that a history is to have, and those of them that lie
\* before a cursor: the date of Folo, the offset of Substack.
Wanted(dates) == {p \in Archive : dates[p] > 0}

Passed(sort, cursor, published, dates) ==
  {p \in Wanted(dates) :
     IF sort = "substack" THEN Cardinality(Newer(p, published)) < cursor
     ELSE dates[p] > cursor}

\* What is stored reaches to the cursor of a page, and is everything if the page ends
\* the history.
Reaches(page, stored, sort, published, dates) ==
  /\ Passed(sort, page.cursor, published, dates) \subseteq stored
  /\ ~page.more /\ page.complete => Wanted(dates) \subseteq stored

ShapedPage == [posts: SUBSET Posts, cursor: Nat, more: BOOLEAN, complete: BOOLEAN]
ShapedPoller == [pc: {"idle", "fetch", "persist", "record"}, backfill: BOOLEAN,
                 first: BOOLEAN, cursor: Nat, revision: Nat, page: ShapedPage]
ShapedSource == [holder: Pollers \cup {NoPoller}, due: BOOLEAN, history: History, cursor: Nat]

Shaped ==
  /\ kind \in {"folo", "substack", "feed"}
  /\ publishedAt \in Calendars /\ Archive \subseteq posts /\ posts \subseteq Posts
  /\ poller \in [Pollers -> ShapedPoller] /\ source \in ShapedSource
  /\ connection \in [status: {"active", "needs_auth"}, revision: Nat]

LEMMA PostsAndDates ==
  ASSUME Shaped
  PROVE  /\ posts \in SUBSET Nat /\ IsFiniteSet(posts) /\ Posts \subseteq Nat
         /\ \A p \in Posts : publishedAt[p] \in Nat /\ publishedAt[p] <= MaxDate
         /\ \A p, q \in Posts : publishedAt[p] > publishedAt[q] => p > q
         /\ MaxDate \in Nat /\ None \in Nat /\ None > MaxDate /\ PageSize \in Nat /\ PageSize > 0
         /\ Start \in Nat
<1>1. /\ posts \in SUBSET Nat /\ IsFiniteSet(posts) /\ Posts \subseteq Nat
      /\ MaxDate \in Nat /\ None \in Nat /\ None > MaxDate /\ PageSize \in Nat /\ PageSize > 0
  <2>1. /\ MaxDate \in Nat /\ PageSize \in Nat /\ PageSize > 0 /\ Posts \subseteq Nat
        /\ IsFiniteSet(Posts)
    BY RssSourceAssumption
  <2>2. None \in Nat /\ None > MaxDate
    BY <2>1 DEF None
  <2>3. posts \subseteq Posts
    BY DEF Shaped
  <2>. QED BY <2>1, <2>2, <2>3, FS_Subset
<1>2. publishedAt \in [Posts -> 0 .. MaxDate]
  BY RssSourceAssumption DEF Shaped
<1>3. \A p \in Posts : publishedAt[p] \in Nat /\ publishedAt[p] <= MaxDate
  BY <1>1, <1>2
<1>4. ASSUME NEW p \in Posts, NEW q \in Posts, publishedAt[p] > publishedAt[q] PROVE p > q
  <2>1. p \in Nat /\ q \in Nat
    BY <1>1
  <2>2. p < q => publishedAt[p] <= publishedAt[q]
    BY RssSourceAssumption DEF Shaped
  <2>3. p # q /\ ~(publishedAt[p] <= publishedAt[q])
    BY <1>3, <1>4
  <2>. QED BY <2>1, <2>2, <2>3
<1>. QED BY <1>1, <1>3, <1>4 DEF Start

\* Posts that are published meanwhile take nothing behind a cursor.
LEMMA PassedShrinks ==
  ASSUME NEW sort, NEW cursor \in Nat, NEW before, NEW after, NEW dates,
         IsFiniteSet(after), before \subseteq after
  PROVE  Passed(sort, cursor, after, dates) \subseteq Passed(sort, cursor, before, dates)
<1>. SUFFICES ASSUME NEW p \in Wanted(dates), sort = "substack",
                     Cardinality(Newer(p, after)) < cursor
              PROVE  Cardinality(Newer(p, before)) < cursor
  BY DEF Passed
<1>1. Newer(p, before) \subseteq Newer(p, after) /\ IsFiniteSet(before)
  BY FS_Subset DEF Newer
<1>2. Cardinality(Newer(p, before)) <= Cardinality(Newer(p, after))
  BY <1>1, NewerFinite, FS_Subset
<1>3. Cardinality(Newer(p, before)) \in Nat /\ Cardinality(Newer(p, after)) \in Nat
  BY <1>1, NewerFinite
<1>. QED BY <1>2, <1>3

\* Nothing lies before the cursor that a history starts with, nor before the one
\* of a page that ends it.
LEMMA NothingPassed ==
  ASSUME Shaped, NEW cursor,
         cursor = Start \/ (kind # "substack" /\ cursor = None)
  PROVE  Passed(kind, cursor, posts, publishedAt) = {}
<1>. SUFFICES ASSUME NEW p \in Passed(kind, cursor, posts, publishedAt) PROVE FALSE
  OBVIOUS
<1>1. p \in Posts
  BY RssSourceAssumption DEF Passed, Wanted
<1>2. CASE kind = "substack"
  <2>1. cursor = 0 /\ Cardinality(Newer(p, posts)) < 0
    BY <1>2 DEF Start, Passed
  <2>2. Cardinality(Newer(p, posts)) \in Nat
    BY PostsAndDates, NewerFinite
  <2>. QED BY <2>1, <2>2
<1>3. CASE kind # "substack"
  <2>1. cursor = None /\ publishedAt[p] > None
    BY <1>3 DEF Start, Passed
  <2>2. publishedAt[p] \in Nat /\ publishedAt[p] <= MaxDate /\ None \in Nat /\ None > MaxDate
        /\ MaxDate \in Nat
    BY <1>1, PostsAndDates
  <2>. QED BY <2>1, <2>2
<1>. QED BY <1>2, <1>3

\* A page of Folo goes on where its cursor says, through ties of dates.
LEMMA FoloReaches ==
  ASSUME Shaped, kind # "substack", NEW cursor \in Nat, NEW stored,
         Passed(kind, cursor, posts, publishedAt) \subseteq stored
  PROVE  LET page == FoloPage(cursor)
         IN  /\ page \in ShapedPage /\ page.posts \subseteq posts
             /\ Reaches(page, stored \cup page.posts, kind, posts, publishedAt)
<1>. DEFINE open == {p \in posts : cursor = None \/ publishedAt[p] <= cursor}
            rows == Newest(PageSize, open)
            dates == {publishedAt[p] : p \in rows}
            oldest == Min(dates)
            reached == rows # {} /\ oldest = 0
            more == Cardinality(rows) >= PageSize /\ ~reached
            page == FoloPage(cursor)
<1>0. /\ page.posts = {p \in rows : publishedAt[p] > 0}
      /\ page.cursor = IF more THEN oldest ELSE None
      /\ page.more = more /\ page.complete = reached
      /\ page = [posts |-> page.posts, cursor |-> page.cursor, more |-> page.more,
                 complete |-> page.complete]
  BY DEF FoloPage
<1>1. open \in SUBSET Nat /\ IsFiniteSet(open) /\ open \subseteq posts
  <2>1. open \subseteq posts
    OBVIOUS
  <2>. QED BY <2>1, PostsAndDates, FS_Subset
<1>2. /\ rows \subseteq open /\ rows \subseteq Posts /\ IsFiniteSet(rows)
      /\ Cardinality(rows) \in Nat
  BY <1>1, PostsAndDates, NewestAreMany DEF Shaped
<1>3. ASSUME NEW p \in Wanted(publishedAt)
      PROVE  /\ p \in Posts /\ p \in posts
             /\ p \in Passed(kind, cursor, posts, publishedAt) \/ p \in open
  <2>1. p \in Posts /\ p \in posts
    BY RssSourceAssumption DEF Shaped, Wanted
  <2>2. publishedAt[p] > cursor \/ publishedAt[p] <= cursor
    BY <2>1, PostsAndDates
  <2>. QED BY <2>1, <2>2 DEF Passed
<1>. HIDE DEF open, page
<1>4. rows # {} => oldest \in dates /\ oldest \in Nat
  <2>1. dates \in SUBSET Nat
    BY <1>2, PostsAndDates
  <2>2. rows # {} => dates # {}
    OBVIOUS
  <2>. HIDE DEF rows, dates
  <2>. QED BY <2>1, <2>2, MinOf
\* Whoever is newer than a row of the page is one.
<1>5. ASSUME NEW p \in Wanted(publishedAt), p \in open, NEW r \in rows,
             publishedAt[p] > publishedAt[r]
      PROVE  p \in page.posts
  <2>1. p \in Posts /\ r \in Posts /\ p > r
    BY <1>2, <1>3, <1>5, PostsAndDates
  <2>2. p \in Nat /\ r \in Nat /\ p >= r
    BY <2>1, PostsAndDates
  <2>3. p \in rows
    BY <1>1, <1>5, <2>2, PostsAndDates, NewerThanNewest
  <2>. QED BY <1>0, <2>3 DEF Wanted
<1>6. rows # {} => \E r \in rows : publishedAt[r] = oldest
  <2>. HIDE DEF rows, oldest
  <2>. QED BY <1>4
<1>7. more => rows # {}
  <2>1. rows = {} => Cardinality(rows) = 0
    BY FS_EmptySet
  <2>2. PageSize \in Nat /\ PageSize > 0
    BY PostsAndDates
  <2>. HIDE DEF rows
  <2>. QED BY <2>1, <2>2
<1>. HIDE DEF rows, oldest, dates
<1>8. page \in ShapedPage /\ page.posts \subseteq posts
  <2>1. page.posts \subseteq rows /\ page.cursor \in Nat /\ page.more \in BOOLEAN
        /\ page.complete \in BOOLEAN
    BY <1>0, <1>4, <1>7, PostsAndDates
  <2>. QED BY <1>0, <1>1, <1>2, <2>1 DEF ShapedPage
<1>9. Passed(kind, page.cursor, posts, publishedAt) \subseteq stored \cup page.posts
  <2>1. CASE ~more
    BY <1>0, <2>1, NothingPassed
  <2>2. CASE more
    <3>. SUFFICES ASSUME NEW p \in Passed(kind, oldest, posts, publishedAt)
                  PROVE  p \in stored \cup page.posts
      BY <1>0, <2>2
    <3>1. p \in Wanted(publishedAt) /\ publishedAt[p] > oldest
      BY DEF Passed
    <3>2. PICK r \in rows : publishedAt[r] = oldest
      BY <1>6, <1>7, <2>2
    <3>. QED BY <1>3, <1>5, <3>1, <3>2
  <2>. QED BY <2>1, <2>2
<1>10. ~page.more /\ page.complete => Wanted(publishedAt) \subseteq stored \cup page.posts
  <2>. SUFFICES ASSUME reached, NEW p \in Wanted(publishedAt) PROVE p \in stored \cup page.posts
    BY <1>0
  <2>1. PICK r \in rows : publishedAt[r] = 0
    BY <1>6
  <2>2. publishedAt[p] > publishedAt[r]
    BY <2>1 DEF Wanted
  <2>. QED BY <1>3, <1>5, <2>2
<1>. QED BY <1>8, <1>9, <1>10 DEF Reaches, page

\* A page of Substack takes the next ones of the archive, wherever posts that have
\* been published since have pushed them.
LEMMA SubstackReaches ==
  ASSUME Shaped, kind = "substack", NEW offset \in Nat, NEW stored,
         Passed(kind, offset, posts, publishedAt) \subseteq stored
  PROVE  LET page == SubstackPage(offset)
         IN  /\ page \in ShapedPage /\ page.posts \subseteq posts
             /\ Reaches(page, stored \cup page.posts, kind, posts, publishedAt)
<1>. DEFINE front == Newest(offset, posts)
            rest == posts \ front
            rows == Newest(PageSize, rest)
            reached == \E p \in rows : publishedAt[p] = 0
            more == Cardinality(rows) >= PageSize /\ ~reached
            page == SubstackPage(offset)
<1>0. /\ page.posts = {p \in rows : publishedAt[p] > 0}
      /\ page.cursor = IF more THEN offset + Cardinality(rows) ELSE 0
      /\ page.more = more /\ page.complete = TRUE
      /\ page = [posts |-> page.posts, cursor |-> page.cursor, more |-> page.more,
                 complete |-> page.complete]
  BY DEF SubstackPage
<1>1. /\ front \subseteq posts /\ IsFiniteSet(front) /\ Cardinality(front) \in Nat
      /\ Cardinality(front) < offset => front = posts
  BY PostsAndDates, NewestAreMany
<1>. HIDE DEF front, page
<1>2. rest \in SUBSET Nat /\ IsFiniteSet(rest) /\ rest \subseteq posts
  BY PostsAndDates, FS_Subset
<1>. HIDE DEF rest
<1>3. /\ rows \subseteq rest /\ rows \subseteq Posts /\ IsFiniteSet(rows)
      /\ Cardinality(rows) \in Nat
      /\ Cardinality(rows) < PageSize => rows = rest
  BY <1>2, PostsAndDates, NewestAreMany DEF Shaped
<1>4. ASSUME NEW p \in Wanted(publishedAt)
      PROVE  /\ p \in Posts /\ p \in posts
             /\ p \in Passed(kind, offset, posts, publishedAt) \/ p \in rest
  <2>1. p \in Posts /\ p \in posts
    BY RssSourceAssumption DEF Shaped, Wanted
  <2>2. p \in front => Cardinality(Newer(p, posts)) < offset
    BY NewestMeans DEF front
  <2>. QED BY <2>1, <2>2 DEF Passed, rest
<1>5. ASSUME NEW p \in rest, NEW r \in rows, p >= r PROVE p \in rows
  BY <1>2, <1>5, PostsAndDates, NewerThanNewest
<1>6. PageSize \in Nat /\ PageSize > 0
  BY PostsAndDates
<1>. HIDE DEF rows
<1>7. page \in ShapedPage /\ page.posts \subseteq posts
  <2>1. page.posts \subseteq rows /\ page.cursor \in Nat /\ page.more \in BOOLEAN
        /\ page.complete \in BOOLEAN
    <3>1. page.posts \subseteq rows /\ page.cursor \in Nat
      BY <1>0, <1>3
    <3>2. more \in BOOLEAN
      OBVIOUS
    <3>3. page.more \in BOOLEAN
      BY <1>0, <3>2
    <3>. QED BY <1>0, <3>1, <3>3
  <2>. QED BY <1>0, <1>2, <1>3, <2>1 DEF ShapedPage
<1>8. Passed(kind, page.cursor, posts, publishedAt) \subseteq stored \cup page.posts
  <2>1. CASE ~more
    <3>1. page.cursor = Start
      BY <1>0, <2>1 DEF Start
    <3>. QED BY <3>1, NothingPassed
  <2>2. CASE more
    <3>. DEFINE next == offset + Cardinality(rows)
    <3>. SUFFICES ASSUME NEW p \in Passed(kind, next, posts, publishedAt)
                  PROVE  p \in stored \cup page.posts
      BY <1>0, <2>2
    <3>1. p \in Wanted(publishedAt) /\ Cardinality(Newer(p, posts)) < next
      BY DEF Passed
    <3>2. CASE p \in Passed(kind, offset, posts, publishedAt)
      BY <3>2
    <3>3. CASE p \in rows
      BY <1>0, <3>1, <3>3 DEF Wanted
    <3>4. CASE p \notin Passed(kind, offset, posts, publishedAt) /\ p \notin rows
      <4>1. p \in rest /\ p \in posts /\ p \in Nat
        BY <1>4, <3>1, <3>4, PostsAndDates
      <4>2. rows \subseteq Newer(p, posts)
        <5>. SUFFICES ASSUME NEW r \in rows PROVE r \in posts /\ r > p
          BY DEF Newer
        <5>1. r \in posts /\ r \in Nat /\ ~(p >= r)
          BY <1>2, <1>3, <1>5, <3>4, <4>1
        <5>. QED BY <4>1, <5>1
      <4>3. front \subseteq Newer(p, posts)
        <5>. SUFFICES ASSUME NEW r \in front, ~(r > p) PROVE FALSE
          BY <1>1 DEF Newer
        <5>1. r \in Nat /\ p >= r
          BY <1>1, <4>1, PostsAndDates
        <5>2. p \in front
          BY <4>1, <5>1, PostsAndDates, NewerThanNewest DEF front
        <5>. QED BY <4>1, <5>2 DEF rest
      <4>4. ~(Cardinality(front) < offset)
        BY <1>1, <4>1 DEF rest
      <4>5. front \cap rows = {}
        BY <1>3 DEF rest
      <4>6. /\ IsFiniteSet(front \cup rows)
            /\ Cardinality(front \cup rows) = Cardinality(front) + Cardinality(rows)
        <5>1. Cardinality(front \cap rows) = 0
          BY <4>5, FS_EmptySet
        <5>2. /\ IsFiniteSet(front \cup rows)
              /\ Cardinality(front \cup rows)
                   = Cardinality(front) + Cardinality(rows) - Cardinality(front \cap rows)
          BY <1>1, <1>3, FS_Union
        <5>. QED BY <1>1, <1>3, <5>1, <5>2
      <4>7. /\ Cardinality(front \cup rows) <= Cardinality(Newer(p, posts))
            /\ Cardinality(Newer(p, posts)) \in Nat
        <5>1. front \cup rows \subseteq Newer(p, posts)
          BY <4>2, <4>3
        <5>. QED BY <5>1, PostsAndDates, NewerFinite, FS_Subset
      <4>. QED BY <1>1, <1>3, <3>1, <4>4, <4>6, <4>7
    <3>. QED BY <3>2, <3>3, <3>4
  <2>. QED BY <2>1, <2>2
<1>9. ~page.more => Wanted(publishedAt) \subseteq stored \cup page.posts
  <2>. SUFFICES ASSUME ~more, NEW p \in Wanted(publishedAt), p \in rest
                PROVE  p \in rows
    BY <1>0, <1>4 DEF Wanted
  <2>1. CASE ~(Cardinality(rows) >= PageSize)
    BY <1>3, <1>6, <2>1
  <2>2. CASE reached
    <3>1. PICK r \in rows : publishedAt[r] = 0
      BY <2>2
    <3>2. p \in Posts /\ r \in Posts /\ publishedAt[p] > publishedAt[r]
      BY <1>3, <1>4, <3>1 DEF Wanted
    <3>3. p \in Nat /\ r \in Nat /\ p > r
      BY <3>2, PostsAndDates
    <3>4. p >= r
      BY <3>3
    <3>. QED BY <1>5, <3>4
  <2>. QED BY <2>1, <2>2
<1>. QED BY <1>7, <1>8, <1>9 DEF Reaches, page

\* The feed itself has no end and no cursor.
LEMMA FeedReaches ==
  ASSUME Shaped, kind # "substack", NEW stored
  PROVE  /\ FeedPage \in ShapedPage /\ FeedPage.posts \subseteq posts
         /\ Reaches(FeedPage, stored \cup FeedPage.posts, kind, posts, publishedAt)
<1>. DEFINE rows == Newest(PageSize, posts)
<1>1. rows \subseteq posts
  BY PostsAndDates, NewestAreMany
<1>2. /\ FeedPage.posts = {p \in rows : publishedAt[p] > 0}
      /\ FeedPage.cursor = None /\ FeedPage.more = FALSE /\ FeedPage.complete = FALSE
      /\ FeedPage = [posts |-> FeedPage.posts, cursor |-> FeedPage.cursor,
                     more |-> FeedPage.more, complete |-> FeedPage.complete]
  BY DEF FeedPage
<1>. HIDE DEF rows
<1>3. FeedPage.posts \subseteq posts
  BY <1>1, <1>2
<1>4. FeedPage \in ShapedPage
  BY <1>2, <1>3, PostsAndDates DEF Shaped, ShapedPage
<1>. QED BY <1>2, <1>3, <1>4, NothingPassed DEF Reaches

-----------------------------------------------------------------------------
(* Steps *)

LEMMA RestingShaped ==
  /\ NoPage \in ShapedPage /\ Resting \in ShapedPoller /\ Resting.pc = "idle"
<1>1. NoPage \in ShapedPage
  BY DEF NoPage, ShapedPage
<1>. QED BY <1>1 DEF Resting, ShapedPoller

\* A poll under way goes on from a cursor before which all is stored, and what its
\* page reaches is stored with the posts of the page, at the latest when it is recorded.
Sound(k, stored, sort, published, dates) ==
  k.pc # "idle" =>
    /\ Passed(sort, k.cursor, published, dates) \subseteq stored
    /\ k.pc # "fetch" => Reaches(k.page, stored \cup k.page.posts, sort, published, dates)
    /\ k.pc = "record" => k.page.posts \subseteq stored

HistoryOf(sort, published, dates, src, stored, pollers) ==
  /\ Passed(sort, src.cursor, published, dates) \subseteq stored
  /\ src.history = "complete" => Wanted(dates) \subseteq stored
  /\ \A g \in Pollers : Sound(pollers[g], stored, sort, published, dates)

HistoryInv == Shaped /\ HistoryOf(kind, posts, publishedAt, source, persisted, poller)

LEMMA SoundKept ==
  ASSUME NEW k \in ShapedPoller, NEW stored, NEW more, NEW sort, NEW published, NEW after,
         NEW dates, Sound(k, stored, sort, published, dates),
         stored \subseteq more, published \subseteq after, IsFiniteSet(after)
  PROVE  Sound(k, more, sort, after, dates)
<1>1. k.cursor \in Nat /\ k.page.cursor \in Nat
  BY DEF ShapedPoller, ShapedPage
<1>2. /\ Passed(sort, k.cursor, after, dates) \subseteq Passed(sort, k.cursor, published, dates)
      /\ Passed(sort, k.page.cursor, after, dates)
           \subseteq Passed(sort, k.page.cursor, published, dates)
  BY <1>1, PassedShrinks
<1>. QED BY <1>2 DEF Sound, Reaches

\* What a step may do to all this.
LEMMA HistoryStep ==
  ASSUME HistoryInv, Shaped', UNCHANGED <<kind, publishedAt>>,
         posts \subseteq posts', persisted \subseteq persisted',
         \/ source'.cursor = source.cursor
         \/ Passed(kind, source'.cursor, posts', publishedAt) \subseteq persisted',
         source'.history = "complete" =>
           source.history = "complete" \/ Wanted(publishedAt) \subseteq persisted',
         \A g \in Pollers : \/ poller'[g] \in {poller[g], Resting}
                            \/ Sound(poller'[g], persisted', kind, posts', publishedAt)
  PROVE  HistoryInv'
<1>1. IsFiniteSet(posts') /\ source.cursor \in Nat /\ poller \in [Pollers -> ShapedPoller]
  <2>1. posts' \subseteq Posts
    BY DEF Shaped
  <2>. QED BY <2>1, RssSourceAssumption, FS_Subset DEF HistoryInv, Shaped, ShapedSource
<1>2. Passed(kind, source'.cursor, posts', publishedAt) \subseteq persisted'
  <2>1. Passed(kind, source.cursor, posts', publishedAt)
          \subseteq Passed(kind, source.cursor, posts, publishedAt)
    BY <1>1, PassedShrinks
  <2>. QED BY <2>1 DEF HistoryInv, HistoryOf
<1>3. ASSUME NEW g \in Pollers
      PROVE  Sound(poller'[g], persisted', kind, posts', publishedAt)
  <2>1. CASE poller'[g] = poller[g]
    BY <1>1, <2>1, SoundKept DEF HistoryInv, HistoryOf
  <2>2. CASE poller'[g] = Resting
    BY <2>2, RestingShaped DEF Sound
  <2>. QED BY <2>1, <2>2
<1>4. HistoryOf(kind, posts', publishedAt, source', persisted', poller')
  BY <1>2, <1>3 DEF HistoryInv, HistoryOf
<1>5. HistoryOf(kind', posts', publishedAt', source', persisted', poller')
  BY <1>4
<1>. QED BY <1>5 DEF HistoryInv, HistoryOf, Sound, Reaches, Passed, Wanted, Newer

\* A statement of the lease's holder, or of somebody else, that leaves the rest alone.
LEMMA RowStep ==
  ASSUME HistoryInv, UNCHANGED <<kind, publishedAt, posts, persisted>>,
         poller' \in [Pollers -> ShapedPoller], source' \in ShapedSource,
         connection' \in [status: {"active", "needs_auth"}, revision: Nat],
         source'.cursor = source.cursor,
         source'.history = "complete" => source.history = "complete",
         \A g \in Pollers : \/ poller'[g] \in {poller[g], Resting}
                            \/ Sound(poller'[g], persisted, kind, posts, publishedAt)
  PROVE  HistoryInv'
<1>1. Shaped'
  BY DEF HistoryInv, Shaped
<1>. QED BY <1>1, HistoryStep

LEMMA ShapedParts ==
  ASSUME HistoryInv
  PROVE  /\ poller \in [Pollers -> ShapedPoller] /\ source \in ShapedSource
         /\ connection \in [status: {"active", "needs_auth"}, revision: Nat]
         /\ \A g \in Pollers : poller[g] \in ShapedPoller /\ poller[g].cursor \in Nat
         /\ Shaped
BY DEF HistoryInv, Shaped, ShapedPoller

LEMMA TakeStep ==
  ASSUME HistoryInv, NEW g \in Pollers, NEW message \in polls, Take(g, message)
  PROVE  HistoryInv'
<1>. USE ShapedParts
<1>0. UNCHANGED <<kind, publishedAt, posts, persisted, connection>>
  BY DEF Take
<1>1. CASE CanPoll(message)
  <2>. DEFINE cursor == IF message = "backfill" THEN source.cursor ELSE Start
              k == [Resting EXCEPT !.pc = "fetch", !.backfill = message = "backfill",
                      !.first = source.history = "pending", !.cursor = cursor,
                      !.revision = connection.revision]
  <2>1. /\ source' = [source EXCEPT !.holder = g]
        /\ poller' = [poller EXCEPT ![g] = k]
    BY <1>1 DEF Take, Goes
  <2>2. cursor \in Nat
    BY PostsAndDates DEF ShapedSource
  <2>3. Passed(kind, cursor, posts, publishedAt) \subseteq persisted
    <3>1. CASE message = "backfill"
      BY <3>1 DEF HistoryInv, HistoryOf
    <3>2. CASE message # "backfill"
      BY <3>2, NothingPassed
    <3>. QED BY <3>1, <3>2
  <2>. HIDE DEF cursor
  <2>4. k \in ShapedPoller /\ k.pc = "fetch" /\ k.cursor = cursor
    BY <2>2, RestingShaped DEF ShapedPoller
  <2>. HIDE DEF k
  <2>5. Sound(k, persisted, kind, posts, publishedAt)
    BY <2>3, <2>4 DEF Sound
  <2>6. source' \in ShapedSource /\ source'.cursor = source.cursor
        /\ source'.history = source.history
    BY <2>1 DEF ShapedSource
  <2>7. poller' \in [Pollers -> ShapedPoller] /\ \A h \in Pollers : poller'[h] \in {poller[h], k}
    BY <2>1, <2>4
  <2>. QED BY <1>0, <2>5, <2>6, <2>7, RowStep
<1>2. CASE ~CanPoll(message)
  BY <1>0, <1>2, RowStep DEF Take
<1>. QED BY <1>1, <1>2

LEMMA VerdictShaped ==
  ASSUME HistoryInv, NEW g \in Pollers, NEW status \in {"active", "needs_auth"},
         Verdict(g, status)
  PROVE  connection' \in [status: {"active", "needs_auth"}, revision: Nat]
BY ShapedParts DEF Verdict

LEMMA FetchStep ==
  ASSUME HistoryInv, NEW g \in Pollers, Fetch(g) PROVE HistoryInv'
<1>. USE ShapedParts
<1>. DEFINE cursor == poller[g].cursor
<1>0. UNCHANGED <<kind, publishedAt, posts, persisted, source>> /\ poller[g].pc = "fetch"
  BY DEF Fetch, AtPoll
<1>1. connection' \in [status: {"active", "needs_auth"}, revision: Nat]
  BY VerdictShaped DEF Fetch
<1>2. Passed(kind, cursor, posts, publishedAt) \subseteq persisted
  BY <1>0 DEF HistoryInv, HistoryOf, Sound
<1>3. PICK page :
        /\ poller' = [poller EXCEPT ![g] = [poller[g] EXCEPT !.pc = "persist", !.page = page]]
        /\ \/ kind = "folo" /\ page = FoloPage(cursor)
           \/ kind = "substack" /\ page = SubstackPage(cursor)
           \/ kind # "substack" /\ page = FeedPage
  BY DEF Fetch, Goes
<1>4. page \in ShapedPage /\ page.posts \subseteq posts
      /\ Reaches(page, persisted \cup page.posts, kind, posts, publishedAt)
  <2>1. CASE kind = "folo" /\ page = FoloPage(cursor)
    BY <1>2, <2>1, FoloReaches
  <2>2. CASE kind = "substack" /\ page = SubstackPage(cursor)
    BY <1>2, <2>2, SubstackReaches
  <2>3. CASE kind # "substack" /\ page = FeedPage
    BY <2>3, FeedReaches
  <2>. QED BY <1>3, <2>1, <2>2, <2>3
<1>. DEFINE k == [poller[g] EXCEPT !.pc = "persist", !.page = page]
<1>5. k \in ShapedPoller /\ k.pc = "persist" /\ k.page = page /\ k.cursor = cursor
  BY <1>4 DEF ShapedPoller
<1>. HIDE DEF k
<1>6. Sound(k, persisted, kind, posts, publishedAt)
  BY <1>2, <1>4, <1>5 DEF Sound
<1>7. poller' \in [Pollers -> ShapedPoller] /\ \A h \in Pollers : poller'[h] \in {poller[h], k}
  BY <1>3, <1>5 DEF k
<1>. QED BY <1>0, <1>1, <1>6, <1>7, RowStep

LEMMA PersistStep ==
  ASSUME HistoryInv, NEW g \in Pollers, Persist(g) PROVE HistoryInv'
<1>. USE ShapedParts
<1>. DEFINE k == [poller[g] EXCEPT !.pc = "record"]
<1>0. /\ UNCHANGED <<kind, publishedAt, posts, source, connection>>
      /\ poller[g].pc = "persist" /\ persisted' = persisted \cup poller[g].page.posts
      /\ poller' = [poller EXCEPT ![g] = k]
  BY DEF Persist, AtPoll, Goes
<1>1. k \in ShapedPoller /\ k.pc = "record" /\ k.page = poller[g].page /\ k.cursor = poller[g].cursor
  BY DEF ShapedPoller
<1>. HIDE DEF k
<1>2. Sound(k, persisted', kind, posts, publishedAt)
  <2>1. /\ Passed(kind, poller[g].cursor, posts, publishedAt) \subseteq persisted
        /\ Reaches(poller[g].page, persisted \cup poller[g].page.posts, kind, posts, publishedAt)
    BY <1>0 DEF HistoryInv, HistoryOf, Sound
  <2>2. persisted' \cup k.page.posts = persisted \cup poller[g].page.posts
    BY <1>0, <1>1
  <2>3. Reaches(k.page, persisted' \cup k.page.posts, kind, posts, publishedAt)
    BY <1>1, <2>1, <2>2
  <2>. QED BY <1>0, <1>1, <2>1, <2>3 DEF Sound
<1>3. poller' \in [Pollers -> ShapedPoller] /\ \A h \in Pollers : poller'[h] \in {poller[h], k}
  BY <1>0, <1>1
<1>4. Shaped'
  BY <1>0, <1>3 DEF Shaped
<1>. QED BY <1>0, <1>2, <1>3, <1>4, HistoryStep

LEMMA RestShaped ==
  ASSUME HistoryInv, NEW g \in Pollers, Rests(g)
  PROVE  /\ poller' \in [Pollers -> ShapedPoller]
         /\ \A h \in Pollers : poller'[h] \in {poller[h], Resting}
BY ShapedParts, RestingShaped DEF Rests, Goes

LEMMA RecordStep ==
  ASSUME HistoryInv, NEW g \in Pollers, RecordPoll(g) PROVE HistoryInv'
<1>. USE ShapedParts
<1>. DEFINE page == poller[g].page
            outcome == Outcome(g)
<1>0. /\ UNCHANGED <<kind, publishedAt, posts, persisted, connection>>
      /\ poller[g].pc = "record" /\ Rests(g)
  BY DEF RecordPoll, AtPoll
<1>1. /\ page \in ShapedPage /\ page.posts \subseteq persisted
      /\ Reaches(page, persisted \cup page.posts, kind, posts, publishedAt)
  BY <1>0 DEF ShapedPoller, HistoryInv, HistoryOf, Sound
<1>2. Reaches(page, persisted, kind, posts, publishedAt)
  <2>1. persisted \cup page.posts = persisted
    BY <1>1
  <2>. QED BY <1>1, <2>1
<1>3. outcome \in History /\ (outcome = "complete" => ~page.more /\ page.complete)
  BY DEF Outcome, History
<1>4. page.cursor \in Nat
  BY <1>1 DEF ShapedPage
<1>. HIDE DEF page, outcome
<1>5. \/ source' = source
      \/ source' = [source EXCEPT !.holder = NoPoller, !.due = FALSE]
      \/ source' = [[source EXCEPT !.cursor = page.cursor, !.history = outcome]
                      EXCEPT !.holder = NoPoller, !.due = FALSE]
  BY DEF RecordPoll, Recorded, page, outcome
<1>6. /\ source' \in ShapedSource
      /\ \/ source'.cursor = source.cursor /\ source'.history = source.history
         \/ source'.cursor = page.cursor /\ source'.history = outcome
  <2>1. CASE source' = source
    BY <2>1
  <2>2. CASE source' = [source EXCEPT !.holder = NoPoller, !.due = FALSE]
    BY <2>2 DEF ShapedSource
  <2>3. CASE source' = [[source EXCEPT !.cursor = page.cursor, !.history = outcome]
                          EXCEPT !.holder = NoPoller, !.due = FALSE]
    BY <1>3, <1>4, <2>3 DEF ShapedSource
  <2>. QED BY <1>5, <2>1, <2>2, <2>3
<1>7. Shaped'
  BY <1>0, <1>6, RestShaped DEF Shaped
<1>8. /\ \/ source'.cursor = source.cursor
         \/ Passed(kind, source'.cursor, posts, publishedAt) \subseteq persisted
      /\ source'.history = "complete" =>
           source.history = "complete" \/ Wanted(publishedAt) \subseteq persisted
  BY <1>2, <1>3, <1>6 DEF Reaches
<1>. QED BY <1>0, <1>7, <1>8, RestShaped, HistoryStep

LEMMA FailStep ==
  ASSUME HistoryInv, NEW g \in Pollers, FailPoll(g) \/ EvictPoll(g) PROVE HistoryInv'
<1>. USE ShapedParts
<1>0. /\ UNCHANGED <<kind, publishedAt, posts>> /\ Rests(g) /\ persisted \subseteq persisted'
  BY DEF FailPoll, EvictPoll
<1>1. connection' \in [status: {"active", "needs_auth"}, revision: Nat]
  BY VerdictShaped DEF FailPoll, EvictPoll
<1>2. source' \in ShapedSource /\ source'.cursor = source.cursor
      /\ source'.history = source.history
  <2>1. source' = source \/ source' = [source EXCEPT !.holder = NoPoller, !.due = FALSE]
    BY DEF FailPoll, EvictPoll, Recorded
  <2>2. CASE source' = source
    BY <2>2
  <2>3. CASE source' = [source EXCEPT !.holder = NoPoller, !.due = FALSE]
    BY <2>3 DEF ShapedSource
  <2>. QED BY <2>1, <2>2, <2>3
<1>3. Shaped'
  BY <1>0, <1>1, <1>2, RestShaped DEF Shaped
<1>. QED BY <1>0, <1>2, <1>3, RestShaped, HistoryStep

LEMMA PublishStep ==
  ASSUME HistoryInv, PublishPost PROVE HistoryInv'
<1>. USE ShapedParts
<1>1. Min(Posts \ posts) \in Posts
  <2>1. Posts \ posts \in SUBSET Nat /\ Posts \ posts # {}
    BY PostsAndDates DEF PublishPost, Shaped
  <2>. QED BY <2>1, MinOf
<1>2. /\ UNCHANGED <<kind, publishedAt, source, persisted, connection, poller>>
      /\ posts' = posts \cup {Min(Posts \ posts)}
  BY DEF PublishPost
<1>3. Shaped'
  BY <1>1, <1>2 DEF Shaped
<1>. QED BY <1>2, <1>3, HistoryStep

\* What is asked of the source, or falls due, leaves cursor and posts alone.
LEMMA OtherStep ==
  ASSUME HistoryInv,
         \/ WakeRss \/ ExpireSource \/ ComeDue \/ FollowSource \/ RefreshSource
         \/ PauseHistory \/ ResumeHistory \/ Reconnect \/ UNCHANGED sourceVars
  PROVE  HistoryInv'
<1>. USE ShapedParts
<1>0. UNCHANGED <<kind, publishedAt, posts, persisted, poller>>
  BY DEF WakeRss, ExpireSource, ComeDue, FollowSource, RefreshSource, PauseHistory,
         ResumeHistory, Reconnect, sourceVars
<1>1. \/ source' = source
      \/ source' = [source EXCEPT !.holder = NoPoller]
      \/ source' = [source EXCEPT !.due = TRUE]
      \/ source' = [source EXCEPT !.history = "paused", !.due = TRUE]
      \/ source' = [source EXCEPT !.history = "running", !.due = TRUE]
  BY DEF WakeRss, ExpireSource, ComeDue, FollowSource, RefreshSource, PauseHistory,
         ResumeHistory, Reconnect, sourceVars
<1>2. /\ source' \in ShapedSource /\ source'.cursor = source.cursor
      /\ source'.history \in {source.history, "paused", "running"}
  BY <1>1 DEF ShapedSource, History
<1>3. connection' \in [status: {"active", "needs_auth"}, revision: Nat]
  <2>1. connection' \in {connection, [status |-> "active", revision |-> connection.revision + 1]}
    BY DEF WakeRss, ExpireSource, ComeDue, FollowSource, RefreshSource, PauseHistory,
           ResumeHistory, Reconnect, sourceVars
  <2>2. connection.revision + 1 \in Nat
    OBVIOUS
  <2>. QED BY <2>1, <2>2
<1>. QED BY <1>0, <1>2, <1>3, RowStep

LEMMA NextHistory == HistoryInv /\ [SourcesNext]_sourceVars => HistoryInv'
BY TakeStep, FetchStep, PersistStep, RecordStep, FailStep, PublishStep, OtherStep
   DEF SourcesNext, PollStep

LEMMA InitHistory == SourcesInit => HistoryInv
<1>. SUFFICES ASSUME SourcesInit PROVE HistoryInv
  OBVIOUS
<1>1. Start \in Nat
  BY RssSourceAssumption DEF Start, None
<1>2. source \in ShapedSource /\ source.cursor = Start /\ source.history = "pending"
  BY <1>1 DEF SourcesInit, ShapedSource, History
<1>3. Shaped
  BY <1>2, RestingShaped, RssSourceAssumption DEF SourcesInit, Shaped
<1>4. \A g \in Pollers : poller[g].pc = "idle"
  BY RestingShaped DEF SourcesInit
<1>. QED BY <1>2, <1>3, <1>4, NothingPassed DEF HistoryInv, HistoryOf, Sound

-----------------------------------------------------------------------------
(* The theorems *)

\* A history that is recorded as complete misses no post that there was when the
\* source was followed and that is not before the time boundary: not for any dates,
\* ties of dates, page size or posts published meanwhile, however polls are evicted,
\* fail, overlap or lose their lease, and whatever readers and admins ask for.
THEOREM HistoryAlwaysComplete == SourcesSpec => []HistoryIsComplete
<1>1. HistoryInv => HistoryIsComplete
  BY DEF HistoryInv, HistoryOf, HistoryIsComplete, Wanted
<1>. QED BY <1>1, InitHistory, NextHistory, PTL DEF SourcesSpec

\* No step finds credentials wanting but the end of a call that was made with them.
Founded ==
  connection'.status = "needs_auth" /\ connection.status = "active"
    => \E g \in Pollers : /\ AtPoll(g, "fetch") /\ poller'[g].pc = "idle"
                          /\ poller[g].revision = connection.revision

LEMMA VerdictFounded == HistoryInv /\ [SourcesNext]_sourceVars => Founded
<1>. SUFFICES ASSUME HistoryInv, [SourcesNext]_sourceVars,
                     connection'.status = "needs_auth", connection.status = "active"
              PROVE  \E g \in Pollers : /\ AtPoll(g, "fetch") /\ poller'[g].pc = "idle"
                                        /\ poller[g].revision = connection.revision
  BY DEF Founded
<1>. USE ShapedParts
<1>1. ASSUME NEW g \in Pollers, Fetch(g) PROVE FALSE
  BY <1>1 DEF Fetch, Verdict
<1>2. ASSUME NEW g \in Pollers, FailPoll(g)
      PROVE  /\ AtPoll(g, "fetch") /\ poller'[g].pc = "idle"
             /\ poller[g].revision = connection.revision
  <2>1. AtPoll(g, "fetch") /\ Verdict(g, "needs_auth") /\ Rests(g)
    BY <1>2 DEF FailPoll
  <2>2. poller[g].revision = connection.revision
    BY <2>1 DEF Verdict
  <2>3. poller'[g].pc = "idle"
    BY <2>1, RestingShaped DEF Rests, Goes
  <2>. QED BY <2>1, <2>2, <2>3
<1>3. ASSUME UNCHANGED connection PROVE FALSE
  BY <1>3
<1>4. ASSUME Reconnect PROVE FALSE
  BY <1>4 DEF Reconnect
<1>5. ASSUME NEW g \in Pollers, Persist(g) \/ RecordPoll(g) \/ EvictPoll(g)
      PROVE  UNCHANGED connection
  BY <1>5 DEF Persist, RecordPoll, EvictPoll
<1>6. ASSUME NEW g \in Pollers, NEW message \in polls, Take(g, message)
      PROVE  UNCHANGED connection
  BY <1>6 DEF Take
<1>7. ASSUME \/ WakeRss \/ ExpireSource \/ ComeDue \/ PublishPost \/ FollowSource
             \/ RefreshSource \/ PauseHistory \/ ResumeHistory \/ UNCHANGED sourceVars
      PROVE  UNCHANGED connection
  BY <1>7 DEF WakeRss, ExpireSource, ComeDue, PublishPost, FollowSource, RefreshSource,
              PauseHistory, ResumeHistory, sourceVars
<1>. QED BY <1>1, <1>2, <1>3, <1>4, <1>5, <1>6, <1>7 DEF SourcesNext, PollStep

\* Credentials are never found wanting by a call made with older ones, however many
\* polls run and however often a reader reconnects meanwhile.
THEOREM CredentialsAlwaysFresh == SourcesSpec => FreshCredentials
<1>1. SourcesSpec => [][Founded]_sourceVars
  BY InitHistory, NextHistory, VerdictFounded, PTL DEF SourcesSpec
<1>. QED BY <1>1 DEF FreshCredentials, Founded
=============================================================================
