------------------------------- MODULE MCLibrary -------------------------------
(***************************************************************************)
(* One run for the parts that keep tables in order: adding to a library, the  *)
(* merging of follows, the merging of articles, the rows of reading          *)
(* summaries, the tables of the knowledge graph, the answers that the pages   *)
(* keep, and the pool of containers.                                         *)
(* They meet in no row that more than one of them writes, so that an          *)
(* interleaving of their steps shows nothing that one of them alone does not.  *)
(* `focus` says which of them moves; the others rest in an initial state.     *)
(***************************************************************************)
EXTENDS LibraryIngest, FollowMerge, RssMerge, ReadingSummary, GraphBuild, PageCache,
        ContainerRuns, TLC

VARIABLE focus

tableVars == <<focus, ingestVars, followVars, mergeVars, readingVars, graphVars, pageVars,
               containerVars>>

\* Both addresses are of one video.
VideoOf == [u \in Urls |-> 1]

FocusOn(part) == focus = part

TablesInit ==
  /\ focus \in {"ingest", "follows", "articles", "briefs", "graph", "pages", "containers"}
  /\ IngestInit /\ FollowMergeInit /\ MergeInit /\ ReadingInit /\ GraphInit /\ PageInit
  /\ ContainersInit
  /\ FocusOn("follows") \/ (row[1].feed = Canonical /\ \A i \in Rows : row[i].since = 1)
  /\ FocusOn("articles") \/ canonical = [a \in Articles |-> NoArticle]
  /\ FocusOn("briefs") \/ brief.status = "none"
  /\ FocusOn("pages") \/ key = <<"sub-annotations">>

TablesNext ==
  \/ /\ FocusOn("ingest") /\ IngestNext
     /\ UNCHANGED <<focus, followVars, mergeVars, readingVars, graphVars, pageVars, containerVars>>
  \/ /\ FocusOn("follows") /\ FollowMergeNext
     /\ UNCHANGED <<focus, ingestVars, mergeVars, readingVars, graphVars, pageVars, containerVars>>
  \/ /\ FocusOn("articles") /\ MergeNext
     /\ UNCHANGED <<focus, ingestVars, followVars, readingVars, graphVars, pageVars, containerVars>>
  \/ /\ FocusOn("briefs") /\ ReadingNext
     /\ UNCHANGED <<focus, ingestVars, followVars, mergeVars, graphVars, pageVars, containerVars>>
  \/ /\ FocusOn("graph") /\ GraphNext
     /\ UNCHANGED <<focus, ingestVars, followVars, mergeVars, readingVars, pageVars, containerVars>>
  \/ /\ FocusOn("pages") /\ PageNext
     /\ UNCHANGED <<focus, ingestVars, followVars, mergeVars, readingVars, graphVars, containerVars>>
  \/ /\ FocusOn("containers") /\ ContainersNext
     /\ UNCHANGED <<focus, ingestVars, followVars, mergeVars, readingVars, graphVars, pageVars>>

\* Names that no definition tells apart.  Every property of the run is one of states or
\* of steps.
Interchangeable ==
  UNION {Permutations(S) : S \in {Users, Operations}}

TablesSpec == TablesInit /\ [][TablesNext]_tableVars
=============================================================================
