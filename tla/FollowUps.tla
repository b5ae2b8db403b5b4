------------------------------ MODULE FollowUps ------------------------------
(***************************************************************************)
(* What is made of an item after its summary: translations, the poster       *)
(* ("infographic") and rewritten headlines.  cf/worker/src/pipeline/         *)
(* consumer.ts (translateItem, generateInfographic, backfillStructuredItem,  *)
(* the end of persistCompletedPipeline), lib/autoTranslate.ts,               *)
(* lib/autoInfographic.ts and the requests of routes/items.ts, admin.ts and  *)
(* auth.ts.                                                                 *)
(*                                                                         *)
(* One item.  A slot is a message of the queue or the request that sends it, *)
(* and later the job it has become: no job here has a lease.  A row that is   *)
(* queued and the message sent next are one step, with a failure or an       *)
(* eviction in between as outcomes of the step.  Regenerating a summary is    *)
(* one job; ItemPipeline has its parts.                                     *)
(***************************************************************************)
EXTENDS Naturals, FiniteSets

CONSTANTS
  Langs,
  Required,     \* auto_translate_langs of the item's automatic collection
  Public,       \* whether that collection is public
  Preferred,    \* languages preferred by somebody who has the item
  Native,       \* of Chinese and English, what the source may turn out to be
  Slots,
  MaxTries,     \* deliveries of a message before the dead-letter queue
  MaxVersions,  \* bound: summaries written
  FollowUpKinds,       \* bound: what requests ask for
  MaxFollowUpFaults,   \* bound: failures and evictions
  MaxFollowUpRequests  \* bound: requests

ASSUME FollowUpsAssumption ==
  /\ Required \subseteq Langs /\ Preferred \subseteq Langs
  /\ Native \subseteq Langs \cap {"zh", "en"}
  /\ Langs \cap {"poster", "headline", "structured", "summary", "none"} = {}
  /\ Public \in BOOLEAN
  /\ Slots # {} /\ Slots \subseteq Nat /\ IsFiniteSet(Slots)
  /\ MaxTries \in Nat \ {0} /\ MaxVersions \in Nat
  /\ MaxFollowUpFaults \in Nat /\ MaxFollowUpRequests \in Nat

VARIABLES
  busy,         \* the item is not done
  native,       \* languages the source is found to be written in
  text,         \* version of the summary's markdown; 0: no summary
  structured,   \* version of the summary its structured fields were made for
  translation,  \* status of item_translation
  poster,       \* status of item_infographic
  pictures,     \* pictures paid for
  slot,         \* messages and jobs
  lost,         \* something was wanted whose message is gone
  followUpFaults, followUpRequests

followUpVars == <<busy, native, text, structured, translation, poster, pictures, slot,
                  lost, followUpFaults, followUpRequests>>

-----------------------------------------------------------------------------
(* Rows, messages and jobs *)

Kinds == Langs \cup {"poster", "headline", "structured", "summary"}
Statuses == {"none", "queued", "processing", "done", "error"}
Wanting == {"queued", "processing"}

Slot == [kind: Kinds \cup {"none"},
         pc: {"free", "asked", "waiting", "claim", "call", "save", "totals",
              "follow", "ready", "enqueue"},
         tries: 1 .. MaxTries, todo: SUBSET Langs, base: 0 .. MaxVersions]
FreeSlot == [kind |-> "none", pc |-> "free", tries |-> 1, todo |-> {}, base |-> 0]
Message(k) == [FreeSlot EXCEPT !.kind = k, !.pc = "waiting"]

Of(s, kinds, pc) == slot[s].kind \in kinds /\ slot[s].pc = pc
To(s, pc) == [slot EXCEPT ![s].pc = pc]
Done(s) == [slot EXCEPT ![s] = FreeSlot]

\* A message is sent while there is room.
Room == {s \in Slots : slot[s].pc = "free"}
With(slots, k) == [slots EXCEPT ![CHOOSE s \in Room : TRUE] = Message(k)]

\* The handler throws or is gone: the message comes again, until it has come
\* as often as it may.
Again(s) ==
  [slot EXCEPT ![s] = IF @.tries = MaxTries THEN FreeSlot
                      ELSE [Message(@.kind) EXCEPT !.tries = slot[s].tries + 1]]
Dead(s) == slot[s].tries = MaxTries

FollowUpFault == followUpFaults < MaxFollowUpFaults /\ followUpFaults' = followUpFaults + 1
FollowUpRequest == /\ followUpRequests < MaxFollowUpRequests
                   /\ followUpRequests' = followUpRequests + 1

\* An update of a row that may have been deleted.
Marked(row, status) == IF row = "none" THEN "none" ELSE status
Withdrawn(row) == IF row \in Wanting THEN "none" ELSE row
Missing(row) == row \in {"none", "error"}

\* sourceAlreadyChinese: no Chinese edition is made of a Chinese source.
AlreadyChinese(l) == l = "zh" /\ l \in native

-----------------------------------------------------------------------------
(* Translations: translateItem *)

\* A Chinese edition of a Chinese source is withdrawn; an English one of an
\* English source is made, once it is asked for.
StartTranslation(s) ==
  /\ Of(s, Langs, "waiting")
  /\ LET l == slot[s].kind IN
     IF AlreadyChinese(l)
     THEN /\ translation' = [translation EXCEPT ![l] = Withdrawn(@)]
          /\ slot' = Done(s)
     ELSE /\ translation' = [translation EXCEPT ![l] = Marked(@, "processing")]
          /\ slot' = To(s, "call")
  /\ UNCHANGED <<busy, native, text, structured, poster, pictures, lost,
                 followUpFaults, followUpRequests>>

\* Mutant: the poster is not looked after when a translation is done.
FinishTranslationAlone(s) ==
  /\ Of(s, Langs, "call")
  /\ translation' = [translation EXCEPT ![slot[s].kind] = Marked(@, "done")]
  /\ slot' = Done(s)
  /\ UNCHANGED <<busy, native, text, structured, poster, pictures, lost,
                 followUpFaults, followUpRequests>>

FinishTranslation(s) ==
  /\ Of(s, Langs, "call")
  /\ translation' = [translation EXCEPT ![slot[s].kind] = Marked(@, "done")]
  /\ slot' = To(s, "ready")
  /\ UNCHANGED <<busy, native, text, structured, poster, pictures, lost,
                 followUpFaults, followUpRequests>>

\* Mutant: no capacity, and the message is taken for done.
FailTranslationQuietly(s) ==
  /\ Of(s, Langs, "call") /\ FollowUpFault
  /\ \/ /\ translation' = [translation EXCEPT ![slot[s].kind] = Marked(@, "error")]
        /\ slot' = Again(s)
        /\ lost' = (lost \/ Dead(s))
     \/ /\ translation' = [translation EXCEPT ![slot[s].kind] = Marked(@, "queued")]
        /\ slot' = Done(s)
        /\ UNCHANGED lost
  /\ UNCHANGED <<busy, native, text, structured, poster, pictures, followUpRequests>>

\* The container fails, or has no capacity: the row waits for the message.
FailTranslation(s) ==
  /\ Of(s, Langs, "call") /\ FollowUpFault
  /\ \E status \in {"error", "queued"} :
       translation' = [translation EXCEPT ![slot[s].kind] = Marked(@, status)]
  /\ slot' = Again(s)
  /\ lost' = (lost \/ Dead(s))
  /\ UNCHANGED <<busy, native, text, structured, poster, pictures, followUpRequests>>

-----------------------------------------------------------------------------
(* The poster: generateInfographic, enqueueAutomaticInfographic *)

\* isInfographicContentReady: a summary, and every edition of the collection.
Ready == ~busy /\ text > 0 /\ \A l \in Required : translation[l] = "done"

\* After a summary or a translation: is everything there?
CheckReady(s) ==
  /\ slot[s].pc = "ready"
  /\ slot' = IF Ready THEN To(s, "enqueue") ELSE Done(s)
  /\ UNCHANGED <<busy, native, text, structured, translation, poster, pictures, lost,
                 followUpFaults, followUpRequests>>

\* Mutant: a poster that is there is made again.
QueuePosterAnew(s) ==
  /\ slot[s].pc = "enqueue"
  /\ poster' = "queued" /\ slot' = [slot EXCEPT ![s] = Message("poster")]
  /\ UNCHANGED <<busy, native, text, structured, translation, pictures, lost,
                 followUpFaults, followUpRequests>>

\* The row is queued if it is missing or failed, and the message sent; a failure
\* of the queue is noted in the row.
QueuePoster(s) ==
  /\ slot[s].pc = "enqueue"
  /\ \/ /\ IF Missing(poster)
           THEN poster' = "queued" /\ slot' = [slot EXCEPT ![s] = Message("poster")]
           ELSE slot' = Done(s) /\ UNCHANGED poster
        /\ UNCHANGED <<lost, followUpFaults>>
     \/ /\ Missing(poster) /\ FollowUpFault
        /\ \/ poster' = "error" /\ slot' = Done(s)
           \/ poster' = "queued" /\ slot' = Again(s)
        /\ lost' = TRUE
  /\ UNCHANGED <<busy, native, text, structured, translation, pictures, followUpRequests>>

StartPoster(s) ==
  /\ Of(s, {"poster"}, "waiting")
  /\ IF Ready THEN slot' = To(s, "claim") /\ UNCHANGED poster
              ELSE slot' = Done(s) /\ poster' = Withdrawn(poster)
  /\ UNCHANGED <<busy, native, text, structured, translation, pictures, lost,
                 followUpFaults, followUpRequests>>

ClaimPoster(s) ==
  /\ Of(s, {"poster"}, "claim")
  /\ poster' = Marked(poster, "processing")
  /\ slot' = To(s, "call")
  /\ UNCHANGED <<busy, native, text, structured, translation, pictures, lost,
                 followUpFaults, followUpRequests>>

Paint(s) ==
  /\ Of(s, {"poster"}, "call")
  /\ pictures' = pictures + 1
  /\ slot' = To(s, "save")
  /\ UNCHANGED <<busy, native, text, structured, translation, poster, lost,
                 followUpFaults, followUpRequests>>

SavePoster(s) ==
  /\ Of(s, {"poster"}, "save")
  /\ poster' = Marked(poster, "done")
  /\ slot' = To(s, "totals")
  /\ UNCHANGED <<busy, native, text, structured, translation, pictures, lost,
                 followUpFaults, followUpRequests>>

AddTotals(s) ==
  /\ Of(s, {"poster"}, "totals")
  /\ slot' = Done(s)
  /\ UNCHANGED <<busy, native, text, structured, translation, poster, pictures, lost,
                 followUpFaults, followUpRequests>>

\* The picture, its storage or the totals after it fail.
FailPoster(s) ==
  /\ slot[s].kind = "poster" /\ slot[s].pc \in {"call", "save", "totals"} /\ FollowUpFault
  /\ poster' = Marked(poster, "error")
  /\ slot' = Again(s)
  /\ lost' = (lost \/ Dead(s))
  /\ UNCHANGED <<busy, native, text, structured, translation, pictures, followUpRequests>>

-----------------------------------------------------------------------------
(* The summary, and its parts made again *)

\* A message for an item that is done, or is being summarized, is dropped.
StartSummary(s) ==
  /\ Of(s, {"summary"}, "waiting")
  /\ slot' = IF busy /\ ~\E r \in Slots : Of(r, {"summary"}, "call")
             THEN To(s, "call") ELSE Done(s)
  /\ UNCHANGED <<busy, native, text, structured, translation, poster, pictures, lost,
                 followUpFaults, followUpRequests>>

\* The item is done; its editions come next, those the source is written in left out.
FinishSummary(s) ==
  /\ Of(s, {"summary"}, "call") /\ text < MaxVersions
  /\ text' = text + 1 /\ structured' = text + 1
  /\ busy' = FALSE
  /\ native' \in SUBSET Native
  /\ slot' = [slot EXCEPT ![s].pc = "follow",
                ![s].todo = ((IF Public THEN Required ELSE {}) \cup Preferred) \ native']
  /\ UNCHANGED <<translation, poster, pictures, lost, followUpFaults, followUpRequests>>

\* enqueueTranslationLanguages.  A failure of the queue ends the list it is in.
QueueTranslation(s) ==
  /\ slot[s].pc = "follow"
  /\ \E l \in slot[s].todo :
       /\ Missing(translation[l]) => Room # {}
       /\ LET rest == [slot EXCEPT ![s].todo = @ \ {l}] IN
          \/ /\ IF Missing(translation[l])
                THEN translation' = [translation EXCEPT ![l] = "queued"] /\ slot' = With(rest, l)
                ELSE slot' = rest /\ UNCHANGED translation
             /\ UNCHANGED <<lost, followUpFaults>>
          \/ /\ Missing(translation[l]) /\ FollowUpFault
             /\ \/ /\ translation' = [translation EXCEPT ![l] = "error"]
                   /\ \E others \in SUBSET rest[s].todo : slot' = [slot EXCEPT ![s].todo = others]
                \/ translation' = [translation EXCEPT ![l] = "queued"] /\ slot' = Again(s)
             /\ lost' = TRUE
  /\ UNCHANGED <<busy, native, text, structured, poster, pictures, followUpRequests>>

EndTranslations(s) ==
  /\ slot[s].pc = "follow" /\ slot[s].todo = {}
  /\ slot' = To(s, "ready")
  /\ UNCHANGED <<busy, native, text, structured, translation, poster, pictures, lost,
                 followUpFaults, followUpRequests>>

\* backfillStructuredItem reads the summary, ...
StartBackfill(s) ==
  /\ Of(s, {"headline", "structured"}, "waiting")
  /\ slot' = IF text = 0 THEN Done(s) ELSE [slot EXCEPT ![s].pc = "call", ![s].base = structured]
  /\ UNCHANGED <<busy, native, text, structured, translation, poster, pictures, lost,
                 followUpFaults, followUpRequests>>

\* ... and writes the structured fields, or the whole, made from what it has read.
SaveBackfill(s) ==
  /\ Of(s, {"headline", "structured"}, "call")
  /\ structured' = slot[s].base
  /\ text' = IF slot[s].kind = "structured" THEN slot[s].base ELSE text
  /\ slot' = Done(s)
  /\ UNCHANGED <<busy, native, translation, poster, pictures, lost,
                 followUpFaults, followUpRequests>>

FailBackfill(s) ==
  /\ Of(s, {"headline", "structured"}, "call") /\ FollowUpFault
  /\ slot' = Again(s)
  /\ UNCHANGED <<busy, native, text, structured, translation, poster, pictures, lost,
                 followUpRequests>>

\* An invocation is gone.  A summary that was done is not taken up again, so
\* what was to follow it is lost.
EvictFollowUp(s) ==
  /\ slot[s].pc \in {"call", "claim", "save", "totals", "follow", "ready", "enqueue"} /\ FollowUpFault
  /\ slot' = Again(s)
  /\ lost' = (lost \/ Dead(s) \/ slot[s].kind = "summary")
  /\ UNCHANGED <<busy, native, text, structured, translation, poster, pictures, followUpRequests>>

-----------------------------------------------------------------------------
(* Requests *)

\* POST /:id/translate and /:id/infographic look at the row, as the
\* administrator's backfill does, which may replace pictures of an older model.
Look(k) ==
  /\ k \in Langs \cup {"poster"} /\ Room # {}
  /\ k \in Langs => Missing(translation[k]) /\ ~AlreadyChinese(k)
  /\ k = "poster" => ~busy /\ text > 0 /\ poster \in {"none", "error", "done"}
  /\ FollowUpRequest
  /\ slot' = [slot EXCEPT ![CHOOSE s \in Room : TRUE] = [Message(k) EXCEPT !.pc = "asked"]]
  /\ UNCHANGED <<busy, native, text, structured, translation, poster, pictures, lost, followUpFaults>>

\* They queue it, whatever has happened since, and send the message.
AskFor(s) ==
  /\ slot[s].pc = "asked"
  /\ IF slot[s].kind = "poster"
     THEN poster' = "queued" /\ UNCHANGED translation
     ELSE translation' = [translation EXCEPT ![slot[s].kind] = "queued"] /\ UNCHANGED poster
  /\ \/ slot' = To(s, "waiting") /\ UNCHANGED <<lost, followUpFaults>>
     \/ slot' = Done(s) /\ lost' = TRUE /\ FollowUpFault
  /\ UNCHANGED <<busy, native, text, structured, pictures, followUpRequests>>

\* POST /:id/translate withdraws it as well.
AskNative(l) ==
  /\ AlreadyChinese(l) /\ translation[l] \in Wanting
  /\ translation' = [translation EXCEPT ![l] = "none"]
  /\ UNCHANGED <<busy, native, text, structured, poster, pictures, slot, lost,
                 followUpFaults, followUpRequests>>

\* Somebody who has the item changes the preferred language.
Prefer(l) ==
  /\ ~busy /\ l \notin native /\ Missing(translation[l]) /\ Room # {} /\ FollowUpRequest
  /\ translation' = [translation EXCEPT ![l] = "queued"]
  /\ slot' = With(slot, l)
  /\ UNCHANGED <<busy, native, text, structured, poster, pictures, lost, followUpFaults>>

\* POST /:id/regenerate, and the administrator's backfills of summaries.
AskAgain(k) ==
  /\ k \in {"summary", "headline", "structured"} /\ text > 0 /\ Room # {} /\ FollowUpRequest
  /\ busy' = (busy \/ k = "summary")
  /\ slot' = With(slot, k)
  /\ UNCHANGED <<native, text, structured, translation, poster, pictures, lost, followUpFaults>>

-----------------------------------------------------------------------------
(* The specification *)

\* An item that is about to be summarized.
FollowUpsInit ==
  /\ busy = TRUE /\ native = {} /\ text = 0 /\ structured = 0
  /\ translation = [l \in Langs |-> "none"] /\ poster = "none" /\ pictures = 0
  /\ \E first \in Slots :
       /\ \A s \in Slots : first <= s
       /\ slot = [s \in Slots |-> IF s = first THEN Message("summary") ELSE FreeSlot]
  /\ lost = FALSE /\ followUpFaults = 0 /\ followUpRequests = 0

FollowUpStep(s) ==
  \/ StartTranslation(s) \/ FinishTranslation(s)
  \/ CheckReady(s) \/ QueuePoster(s)
  \/ StartPoster(s) \/ ClaimPoster(s) \/ Paint(s) \/ SavePoster(s) \/ AddTotals(s)
  \/ StartSummary(s) \/ FinishSummary(s) \/ QueueTranslation(s) \/ EndTranslations(s)
  \/ StartBackfill(s) \/ SaveBackfill(s)
  \/ AskFor(s)

FollowUpFailure(s) ==
  FailTranslation(s) \/ FailPoster(s) \/ FailBackfill(s) \/ EvictFollowUp(s)

FollowUpAsk(k) == Look(k) \/ AskAgain(k)

FollowUpsNext ==
  \/ \E s \in Slots : FollowUpStep(s) \/ FollowUpFailure(s)
  \/ \E k \in FollowUpKinds : FollowUpAsk(k)
  \/ \E l \in Langs \cap FollowUpKinds : AskNative(l) \/ Prefer(l)

FollowUpsSpec == FollowUpsInit /\ [][FollowUpsNext]_followUpVars

\* Messages are delivered and jobs go on.
FollowUpsFairness == \A s \in Slots : WF_followUpVars(FollowUpStep(s))

FollowUpsFairSpec == FollowUpsSpec /\ FollowUpsFairness

-----------------------------------------------------------------------------
(* Properties *)

\* Every variable keeps its type.
FollowUpsTypeOK ==
  /\ busy \in BOOLEAN /\ native \subseteq Langs /\ lost \in BOOLEAN
  /\ text \in 0 .. MaxVersions /\ structured \in 0 .. MaxVersions
  /\ translation \in [Langs -> Statuses] /\ poster \in Statuses
  /\ pictures \in Nat /\ slot \in [Slots -> Slot]
  /\ followUpFaults \in 0 .. MaxFollowUpFaults /\ followUpRequests \in 0 .. MaxFollowUpRequests

\* Messages and jobs that will see to a row.
Carried(k) == \E s \in Slots : slot[s].kind = k /\ slot[s].pc # "asked"

\* A row that shows as queued or processing has a message or a job that will
\* see to it, so readers do not wait for nothing: whatever two requests, two
\* jobs of one row and redeliveries do, unless a message was dropped.
WantedIsCarried ==
  /\ \A l \in Langs : translation[l] \in Wanting => Carried(l) \/ lost
  /\ poster \in Wanting => Carried("poster") \/ lost

\* "don't burn money twice" (items.ts): as long as nothing fails, no picture is
\* paid that nobody asked for, but the first.
PaidAccounted == followUpFaults = 0 => pictures <= 1 + followUpRequests

\* Required editions nobody queues: in the language of the source, which
\* enqueueTranslationLanguages passes over and isInfographicContentReady waits
\* for all the same, or of a collection that is not public.
Unqueued == {l \in Required : l \in native \/ ~(Public \/ l \in Preferred)}

\* "the final successful translation will enqueue a fresh message" (consumer.ts):
\* whichever of the summary and the translations is last, the poster comes, and
\* is there again after whatever was asked for, unless a message was lost or a
\* required edition is one that nobody queues.
PosterComes == <>[](poster = "done" \/ lost \/ Unqueued # {})

\* "Only the headline/subhead changed; keep the existing markdown/model"
\* (consumer.ts): the structured fields belong to the text they are beside.
SummaryIsWhole == structured = text
=============================================================================
