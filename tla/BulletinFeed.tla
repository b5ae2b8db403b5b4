------------------------------ MODULE BulletinFeed ------------------------------
(***************************************************************************)
(* The feed of bulletins and its reader: GET /bulletin/feed of               *)
(* cf/worker/src/routes/bulletin.ts and lib/rssBulletin.ts, and the infinite *)
(* list of frontend/src/pages/Bulletin.tsx.                                  *)
(*                                                                         *)
(* A page merges two tables, media items and articles, that are read by two  *)
(* statements at two moments, each from behind the cursor of the page before *)
(* (date, rank of the table, id).  The reader appends pages while scrolling  *)
(* and every minute fetches all of them again, one after the other, from the *)
(* first.  Meanwhile cards appear, vanish and are dated anew.                *)
(*                                                                         *)
(* The reader's query is TanStack's useInfiniteQuery as Bulletin.tsx uses    *)
(* it: one fetch at a time, pages replaced when a refetch has all of them.   *)
(***************************************************************************)
EXTENDS Naturals, FiniteSets, FiniteSetsExt, Sequences, SequencesExt

CONSTANTS
  Cards,          \* <<rank, id>>: rank 0 is a media item, rank 1 an article
  FeedDates,      \* values of the sort date
  Limit,          \* cards of a page
  MaxFeedChanges, MaxFeedFaults   \* bounds

ASSUME FeedAssumption ==
  /\ Cards \subseteq {0, 1} \X (Nat \ {0}) /\ IsFiniteSet(Cards)
  /\ FeedDates \subseteq Nat
  /\ Limit \in Nat \ {0} /\ MaxFeedChanges \in Nat /\ MaxFeedFaults \in Nat

VARIABLES
  date, visible,   \* the rows: their date, and which the user may see
  pages,           \* what the reader shows
  fetching,        \* the fetch under way
  steady, coming,  \* history: the cards that have not changed since the pages
                   \* shown, and those of the refetch, began to be fetched
  feedChanges, feedFaults

feedVars == <<date, visible, pages, fetching, steady, coming, feedChanges, feedFaults>>

-----------------------------------------------------------------------------
(* The order of the feed *)

Ranks == {0, 1}
Key == [card: Cards, date: FeedDates]
KeysOf(cards) == {[card |-> c, date |-> date[c]] : c \in cards}

\* Newest first, articles before media items of the same date, then by id.
Precedes(k, l) ==
  \/ k.date > l.date
  \/ k.date = l.date /\ k.card[1] > l.card[1]
  \/ k.date = l.date /\ k.card[1] = l.card[1] /\ k.card[2] > l.card[2]

\* The first n of a set of keys.
First(n, keys) == {k \in keys : Cardinality({l \in keys : Precedes(l, k)}) < n}

\* The cursor of a page is the key of its last card.
LastKey(keys) == CHOOSE k \in keys : \A l \in keys : l = k \/ Precedes(l, k)

CardPage == [keys: SUBSET Key, more: BOOLEAN]

\* Mutant: within a date the rank is not compared.
BehindByDateAndId(k, cursor) ==
  k.date < cursor.date \/ (k.date = cursor.date /\ k.card[2] < cursor.card[2])

\* feedCursorFilter.
Behind(k, cursor) ==
  \/ k.date < cursor.date
  \/ /\ k.date = cursor.date
     /\ \/ cursor.card[1] > k.card[1]
        \/ cursor.card[1] = k.card[1] /\ k.card[2] < cursor.card[2]

\* The rows of one table behind the last page of a list: as many as a page has,
\* and one more.
Query(rank, list) ==
  LET all == KeysOf({c \in visible : c[1] = rank})
      rest == IF list = <<>> THEN all
              ELSE {k \in all : Behind(k, LastKey(Last(list).keys))}
  IN First(Limit + 1, rest)

\* Mutant: a full page always promises more.
PageOfPromising(keys) == [keys |-> First(Limit, keys), more |-> Cardinality(keys) >= Limit]

\* The page that the handler answers of the rows of both tables.
PageOf(keys) == [keys |-> First(Limit, keys), more |-> Cardinality(keys) > Limit]

-----------------------------------------------------------------------------
(* The reader *)

Fetching == [pc: {"idle", "next", "all"}, unread: SUBSET Ranks, got: SUBSET Key,
          fresh: Seq(CardPage)]
IdleFetch == [pc |-> "idle", unread |-> {}, got |-> {}, fresh |-> <<>>]
Request(fetch) == [fetch EXCEPT !.unread = Ranks, !.got = {}]

\* The pages that the page being fetched comes after.
Preceding == IF fetching.pc = "next" THEN pages ELSE fetching.fresh

\* The sentinel comes into view, or the button: fetchNextPage.
StartNext ==
  /\ fetching.pc = "idle" /\ pages # <<>> /\ Last(pages).more
  /\ fetching' = Request([IdleFetch EXCEPT !.pc = "next"])
  /\ UNCHANGED <<date, visible, pages, steady, coming, feedChanges, feedFaults>>

\* The first fetch, the interval of a minute, or the button.
StartAll ==
  /\ fetching.pc = "idle"
  /\ fetching' = Request([IdleFetch EXCEPT !.pc = "all"])
  /\ coming' = visible
  /\ UNCHANGED <<date, visible, pages, steady, feedChanges, feedFaults>>

\* One of the two statements of a page.
ReadTable(rank) ==
  /\ rank \in fetching.unread
  /\ fetching' = [fetching EXCEPT !.unread = @ \ {rank},
                                  !.got = @ \cup Query(rank, Preceding)]
  /\ UNCHANGED <<date, visible, pages, steady, coming, feedChanges, feedFaults>>

\* A refetch has as many pages as are shown, or the feed has no more.
AllFetched(fresh) == Len(fresh) >= Len(pages) \/ ~Last(fresh).more

Receive ==
  /\ fetching.pc # "idle" /\ fetching.unread = {}
  /\ LET page == PageOf(fetching.got)
         fresh == Append(fetching.fresh, page)
     IN IF fetching.pc = "next"
        THEN /\ pages' = Append(pages, page) /\ fetching' = IdleFetch
             /\ UNCHANGED steady
        ELSE IF AllFetched(fresh)
        THEN pages' = fresh /\ fetching' = IdleFetch /\ steady' = coming
        ELSE /\ fetching' = Request([fetching EXCEPT !.fresh = fresh])
             /\ UNCHANGED <<pages, steady>>
  /\ UNCHANGED <<date, visible, coming, feedChanges, feedFaults>>

\* A request fails, after its retries; what is shown stays.
FailFetch ==
  /\ fetching.pc # "idle" /\ feedFaults < MaxFeedFaults
  /\ feedFaults' = feedFaults + 1
  /\ fetching' = IdleFetch
  /\ UNCHANGED <<date, visible, pages, steady, coming, feedChanges>>

-----------------------------------------------------------------------------
(* The rows *)

\* A card is finished, saved or followed; or no longer, or its text has changed;
\* or its publication date has been found.
ChangeCard(c) ==
  /\ feedChanges < MaxFeedChanges /\ feedChanges' = feedChanges + 1
  /\ \/ /\ visible' = IF c \in visible THEN visible \ {c} ELSE visible \cup {c}
        /\ UNCHANGED date
     \/ /\ \E d \in FeedDates \ {date[c]} : date' = [date EXCEPT ![c] = d]
        /\ UNCHANGED visible
  /\ steady' = steady \ {c} /\ coming' = coming \ {c}
  /\ UNCHANGED <<pages, fetching, feedFaults>>

-----------------------------------------------------------------------------
FeedInit ==
  /\ date \in [Cards -> FeedDates] /\ visible \in SUBSET Cards
  /\ pages = <<>> /\ fetching = IdleFetch
  /\ steady = {} /\ coming = {}
  /\ feedChanges = 0 /\ feedFaults = 0

FeedNext ==
  \/ StartNext \/ StartAll \/ (\E rank \in Ranks : ReadTable(rank))
  \/ Receive \/ FailFetch
  \/ \E c \in Cards : ChangeCard(c)

FeedSpec == FeedInit /\ [][FeedNext]_feedVars

ReadPage == (\E rank \in Ranks : ReadTable(rank)) \/ Receive

\* The browser refetches every minute, and a request is answered or fails.
FeedFairness ==
  /\ WF_feedVars(StartAll)
  /\ WF_feedVars(ReadPage)

FeedFairSpec == FeedSpec /\ FeedFairness

-----------------------------------------------------------------------------
ShownKeys == UNION {pages[i].keys : i \in DOMAIN pages}
Shown == {k.card : k \in ShownKeys}

FeedTypeOK ==
  /\ date \in [Cards -> FeedDates] /\ visible \subseteq Cards
  /\ pages \in Seq(CardPage) /\ fetching \in Fetching
  /\ \A i \in DOMAIN pages : Cardinality(pages[i].keys) <= Limit
  /\ steady \subseteq visible /\ coming \subseteq visible

\* A card that could be seen, with its date, ever since the first of the pages
\* shown was fetched is on them, unless it lies behind the last of them and the
\* reader is told that there is more: no page boundary, tie of dates or change
\* between two pages, or between the two statements of one, skips it.
NothingSkipped ==
  pages # <<>> =>
    \A c \in steady : \/ c \in Shown
                      \/ /\ Last(pages).more
                         /\ Behind([card |-> c, date |-> date[c]], LastKey(Last(pages).keys))

\* Once the rows stop changing, the pages shown become and stay the first pages
\* of the feed (refetchInterval of Bulletin.tsx).
FeedSettles ==
  <>[](/\ pages # <<>>
       /\ \A i \in DOMAIN pages :
            /\ pages[i].keys = First(i * Limit, KeysOf(visible))
                                 \ First((i - 1) * Limit, KeysOf(visible))
            /\ pages[i].more = (Cardinality(visible) > i * Limit))
=============================================================================
