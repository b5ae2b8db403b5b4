------------------------------ MODULE RssMerge ------------------------------
(***************************************************************************)
(* How articles of the reader that turn out to be the same are merged:      *)
(* cf/worker/src/lib/rss.ts (linkCanonical, and the links that              *)
(* persistEntries makes) with the pages of routes/rss.ts.                   *)
(*                                                                         *)
(* An article is a row per URL.  A drain that finds another canonical URL   *)
(* looks for its article, makes the alias of that URL, reads where it        *)
(* leads, and moves sources, aliases and personal state there in one batch; *)
(* the row stays as a tombstone.  A poll looks up the alias of its entry,    *)
(* inserts the row unless there is one, and links it.                       *)
(*                                                                         *)
(* An article stands for its id and its URL.  One step is one D1 statement  *)
(* or batch.  One reader follows every source.                              *)
(***************************************************************************)
EXTENDS Naturals, FiniteSets

CONSTANTS
  Articles,       \* articles by URL
  Sources,
  Hands,          \* invocations that run at a time
  MaxMergeSteps,  \* bound: entries delivered, drains begun and pages used
  NoArticle

ASSUME RssMergeAssumption ==
  /\ NoArticle \notin Articles /\ IsFiniteSet(Articles)
  /\ MaxMergeSteps \in Nat

VARIABLES
  canonical,  \* the canonical URL a page names, if it names another
  known,      \* articles that have a row
  merged,     \* tombstones
  whole,      \* articles whose full text is saved
  byUrl,      \* rss_alias of a URL
  byEntry,    \* rss_alias of an entry of a source
  links,      \* rss_source_article
  saved,      \* rss_read.saved of the reader
  marked,     \* articles whose page the reader has used to save them
  hand,       \* state of every invocation
  crossed,    \* history: articles whose id a merge has led, or whose mark a page has set,
              \* where another merge had left meanwhile
  mergeSteps

mergeVars == <<canonical, known, merged, whole, byUrl, byEntry, links, saved, marked,
               hand, crossed, mergeSteps>>

-----------------------------------------------------------------------------
(* Rows and invocations *)

Maybe == Articles \cup {NoArticle}

Hand == [pc: {"free", "alias", "target", "move", "insert", "link", "mark"},
         article: Maybe, other: Maybe, source: Sources \cup {NoArticle}]
FreeHand == [pc |-> "free", article |-> NoArticle, other |-> NoArticle, source |-> NoArticle]

Holding(h, point) == hand[h].pc = point
Turn(h, state) == hand' = [hand EXCEPT ![h] = state]
Begin == mergeSteps < MaxMergeSteps /\ mergeSteps' = mergeSteps + 1

\* Articles whose lease a drain holds.
Leased == {hand[h].article : h \in {x \in Hands : hand[x].pc \in {"alias", "target", "move"}}}

\* Where the old id of an article leads: ownsArticle.
Resolved(a) == IF byUrl[a] = NoArticle THEN a ELSE byUrl[a]

-----------------------------------------------------------------------------
(* A drain merges: linkCanonical *)

\* The drain has the full text, which names another canonical URL; the article
\* of that URL is looked up.
FindDirect(h, a) ==
  /\ Holding(h, "free") /\ Begin
  /\ a \in known \ merged /\ a \notin Leased
  /\ \E s \in Sources : <<s, a>> \in links
  /\ canonical[a] # NoArticle
  /\ whole' = whole \cup {a}
  /\ Turn(h, [FreeHand EXCEPT !.pc = "alias", !.article = a,
                !.other = IF canonical[a] \in known \ merged THEN canonical[a] ELSE a])
  /\ UNCHANGED <<canonical, known, merged, byUrl, byEntry, links, saved, marked, crossed>>

MakeAlias(h) ==
  LET url == canonical[hand[h].article] IN
  /\ Holding(h, "alias")
  /\ byUrl' = [byUrl EXCEPT ![url] = IF @ = NoArticle THEN hand[h].other ELSE @]
  /\ Turn(h, [hand[h] EXCEPT !.pc = "target", !.other = NoArticle])
  /\ UNCHANGED <<canonical, known, merged, whole, byEntry, links, saved, marked, crossed, mergeSteps>>

ReadTarget(h) ==
  LET a == hand[h].article
      target == byUrl[canonical[a]]
  IN
  /\ Holding(h, "target")
  /\ Turn(h, IF target = a THEN FreeHand ELSE [hand[h] EXCEPT !.pc = "move", !.other = target])
  /\ UNCHANGED <<canonical, known, merged, whole, byUrl, byEntry, links, saved, marked, crossed, mergeSteps>>

Redirected(alias, a, target) ==
  [k \in DOMAIN alias |-> IF alias[k] = a THEN target ELSE alias[k]]

\* The ids that a merge leads to an article which has been merged since it was read.
Astray(a, target) == {k \in Articles : Resolved(k) = a /\ target \in merged}

\* Mutant: personal state is left behind.
MoveLinksOnly(h) ==
  LET a == hand[h].article
      target == hand[h].other
  IN
  /\ Holding(h, "move")
  /\ whole' = IF target \in Leased THEN whole ELSE whole \cup {target}
  /\ links' = {l \in links : l[2] # a} \cup {<<l[1], target>> : l \in {k \in links : k[2] = a}}
  /\ byUrl' = Redirected(byUrl, a, target)
  /\ byEntry' = Redirected(byEntry, a, target)
  /\ merged' = merged \cup {a}
  /\ Turn(h, FreeHand)
  /\ crossed' = crossed \cup Astray(a, target)
  /\ UNCHANGED <<canonical, known, saved, marked, mergeSteps>>

\* The batch.  The target gets the text unless it has one or is being drained.
Move(h) ==
  LET a == hand[h].article
      target == hand[h].other
  IN
  /\ Holding(h, "move")
  /\ whole' = IF target \in Leased THEN whole ELSE whole \cup {target}
  /\ links' = {l \in links : l[2] # a} \cup {<<l[1], target>> : l \in {k \in links : k[2] = a}}
  /\ saved' = IF a \in saved THEN saved \cup {target} ELSE saved
  /\ byUrl' = Redirected(byUrl, a, target)
  /\ byEntry' = Redirected(byEntry, a, target)
  /\ merged' = merged \cup {a}
  /\ Turn(h, FreeHand)
  /\ crossed' = crossed \cup Astray(a, target)
  /\ UNCHANGED <<canonical, known, marked, mergeSteps>>

-----------------------------------------------------------------------------
(* A poll links: persistEntries *)

\* An entry of a source: its alias is looked up.
FindAlias(h, s, a) ==
  /\ Holding(h, "free") /\ Begin
  /\ Turn(h, [FreeHand EXCEPT !.pc = IF byEntry[<<s, a>>] = NoArticle THEN "insert" ELSE "link",
                              !.article = a, !.other = byEntry[<<s, a>>], !.source = s])
  /\ UNCHANGED <<canonical, known, merged, whole, byUrl, byEntry, links, saved, marked, crossed>>

\* The row of its URL, whatever has become of it, or a new one.
InsertArticle(h) ==
  LET a == hand[h].article IN
  /\ Holding(h, "insert")
  /\ known' = known \cup {a}
  /\ Turn(h, [hand[h] EXCEPT !.pc = "link", !.other = a])
  /\ UNCHANGED <<canonical, merged, whole, byUrl, byEntry, links, saved, marked, crossed, mergeSteps>>

\* Mutant: the alias of the URL follows the latest entry.
LinkArticleAnew(h) ==
  LET a == hand[h].article
      key == <<hand[h].source, a>>
      id == hand[h].other
  IN
  /\ Holding(h, "link")
  /\ byEntry' = [byEntry EXCEPT ![key] = id]
  /\ byUrl' = [byUrl EXCEPT ![a] = id]
  /\ links' = links \cup {<<hand[h].source, id>>}
  /\ Turn(h, FreeHand)
  /\ UNCHANGED <<canonical, known, merged, whole, saved, marked, crossed, mergeSteps>>

LinkArticle(h) ==
  LET a == hand[h].article
      key == <<hand[h].source, a>>
      id == hand[h].other
  IN
  /\ Holding(h, "link")
  /\ byEntry' = [byEntry EXCEPT ![key] = IF @ = NoArticle THEN id ELSE @]
  /\ byUrl' = [byUrl EXCEPT ![a] = IF @ = NoArticle THEN id ELSE @]
  /\ links' = links \cup {<<hand[h].source, id>>}
  /\ Turn(h, FreeHand)
  /\ UNCHANGED <<canonical, known, merged, whole, saved, marked, crossed, mergeSteps>>

-----------------------------------------------------------------------------
(* Pages *)

\* PATCH /articles/:id {saved}: the article its id leads to is looked up, if a
\* source links it.
OpenArticle(h, a) ==
  /\ Holding(h, "free") /\ Begin
  /\ a \in known
  /\ \E s \in Sources : <<s, Resolved(a)>> \in links
  /\ Turn(h, [FreeHand EXCEPT !.pc = "mark", !.article = a, !.other = Resolved(a)])
  /\ UNCHANGED <<canonical, known, merged, whole, byUrl, byEntry, links, saved, marked, crossed>>

Save(h) ==
  /\ Holding(h, "mark")
  /\ saved' = saved \cup {hand[h].other}
  /\ marked' = marked \cup {hand[h].article}
  /\ crossed' = IF hand[h].other \in merged THEN crossed \cup {hand[h].article} ELSE crossed
  /\ Turn(h, FreeHand)
  /\ UNCHANGED <<canonical, known, merged, whole, byUrl, byEntry, links, mergeSteps>>

-----------------------------------------------------------------------------
(* The specification *)

\* No article is known; pages name canonical URLs of their choice.
MergeInit ==
  /\ canonical \in [Articles -> Maybe] /\ \A a \in Articles : canonical[a] # a
  /\ known = {} /\ merged = {} /\ whole = {}
  /\ byUrl = [a \in Articles |-> NoArticle]
  /\ byEntry = [k \in Sources \X Articles |-> NoArticle]
  /\ links = {} /\ saved = {} /\ marked = {} /\ crossed = {}
  /\ hand = [h \in Hands |-> FreeHand]
  /\ mergeSteps = 0

MergeNext ==
  \E h \in Hands :
    \/ \E a \in Articles : FindDirect(h, a) \/ OpenArticle(h, a)
    \/ \E s \in Sources : \E a \in Articles : FindAlias(h, s, a)
    \/ MakeAlias(h) \/ ReadTarget(h) \/ Move(h)
    \/ InsertArticle(h) \/ LinkArticle(h) \/ Save(h)

MergeSpec == MergeInit /\ [][MergeNext]_mergeVars

-----------------------------------------------------------------------------
(* Properties *)

\* Every variable keeps its type.
MergeTypeOK ==
  /\ canonical \in [Articles -> Maybe]
  /\ known \subseteq Articles /\ merged \subseteq known /\ whole \subseteq known
  /\ byUrl \in [Articles -> Maybe] /\ byEntry \in [Sources \X Articles -> Maybe]
  /\ links \subseteq Sources \X known
  /\ saved \subseteq known /\ marked \subseteq known /\ crossed \subseteq Articles
  /\ hand \in [Hands -> Hand] /\ mergeSteps \in 0 .. MaxMergeSteps

\* "A tombstone keeps old article IDs resolvable" (rss.ts:683): the id of every
\* article ever linked leads to one that is not merged, and that has the text,
\* through any chain of merges by any invocations; but one that a merge has led to an
\* article which another merged meanwhile.
OldIdsResolve ==
  \A a \in merged \ crossed : Resolved(a) \notin merged /\ Resolved(a) \in whole

\* "all source links and personal state move" (rss.ts:684): what the reader has
\* saved under any id is saved where that id leads now, and that leads to one article
\* (OldIdsResolve) however many merges are between; but what was saved by a page that
\* had looked up an article before it was merged.
SavedMoves == OldIdsResolve /\ \A a \in marked \ crossed : Resolved(a) \in saved
=============================================================================
