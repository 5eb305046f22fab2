------------------------------ MODULE Services ------------------------------
(***************************************************************************)
(* The components that share nothing but the process they live in, side by *)
(* side: sync checkpoints, the Cafe24 collections, the OAuth token,        *)
(* reservation tasks, task dependencies, feedback forms, replan drafts,    *)
(* the mapping review, the shortage calculation, policy explanations and   *)
(* reads that an operator starts.                                          *)
(* One of them is in focus and acts, the others rest, since what they do   *)
(* at the same time touches no common state.  Collections are in focus     *)
(* four ways: orders with refunds and order items, the catalog, articles   *)
(* with the downloads of their attachments, and comments.                  *)
(***************************************************************************)
EXTENDS SyncCheckpoint, CommerceCollection, CommunityCollection, OAuthToken,
        ReservationTasks, TaskDependencies, FeedbackForm, ScheduleReplan, MappingReview,
        ShortageProjection, PolicyExplanation, ReadBootstrap

CONSTANTS
  MaxRunsOf,     \* focus -> bound: page collections started
  MaxFaultsOf    \* focus -> bound: failed steps and crashes

Foci == {"checkpoint", "commerce", "catalog", "community", "comments", "token",
         "reservations", "dependencies", "forms", "replans", "mappings",
         "shortages", "explanations", "reads", "grants"}

ReadFoci == {"reads", "grants"}

ASSUME FocusAssumption == MaxRunsOf \in [Foci -> Nat] /\ MaxFaultsOf \in [Foci -> Nat]

VARIABLE focus

pageVars == <<batches, collectVars, faults>>
catalogOnly == <<astray, attachmentVars, commentVars>>
officeVars == <<formVars, replanVars, reviewVars, shortageVars, explanationVars>>
others == <<checkpointVars, tokenVars, reservationVars, dependencyVars, officeVars, readVars>>
vars == <<pageVars, itemVars, catalogOnly, others, focus>>

\* The components at rest are as Init leaves them.
TypeOK ==
  CASE focus = "checkpoint"   -> CheckpointTypeOK
    [] focus = "commerce"     -> CommerceTypeOK
    [] focus = "catalog"      -> CommerceTypeOK /\ astray \in BOOLEAN
    [] focus = "community"    -> CommerceTypeOK /\ astray \in BOOLEAN /\ AttachmentTypeOK
    [] focus = "comments"     -> CommentTypeOK
    [] focus = "token"        -> TokenTypeOK
    [] focus = "reservations" -> ReservationTypeOK
    [] focus = "dependencies" -> DependencyTypeOK
    [] focus = "forms"        -> FormTypeOK
    [] focus = "replans"      -> ReplanTypeOK
    [] focus = "mappings"     -> ReviewTypeOK
    [] focus = "shortages"    -> ShortageTypeOK
    [] focus = "explanations" -> ExplanationTypeOK
    [] focus \in ReadFoci     -> ReadTypeOK

Init ==
  /\ focus \in Foci
  /\ CheckpointInit
  /\ CommerceInit
  /\ astray = FALSE
  /\ AttachmentInit
  /\ CommentInit
  /\ TokenInit
  /\ ReservationInit
  /\ DependencyInit
  /\ FormInit
  /\ ReplanInit
  /\ ReviewInit
  /\ ShortageInit
  /\ ExplanationInit
  /\ ReadInit

Bounded == Len(progress') <= MaxRunsOf[focus] /\ faults' <= MaxFaultsOf[focus]

Only(resources) == \A i \in DOMAIN progress' : progress'[i].of \in resources

Checkpoint ==
  /\ focus = "checkpoint"
  /\ CheckpointNext
  /\ UNCHANGED <<pageVars, itemVars, catalogOnly, tokenVars, reservationVars, dependencyVars,
                officeVars, readVars>>

Commerce ==
  /\ focus = "commerce"
  /\ CommerceNext
  /\ UNCHANGED <<catalogOnly, others>>

Catalog ==
  /\ focus = "catalog"
  /\ CatalogCrash \/ \E c \in Collectors : CatalogStep(c)
  /\ Only({"products", "categories", "articles"})
  /\ UNCHANGED <<itemVars, attachmentVars, commentVars, others>>

\* Articles are collected and their attachments downloaded; a crash takes both.
CollectArticles ==
  /\ \E c \in Collectors : CatalogStep(c)
  /\ Only({"articles"})
  /\ UNCHANGED attachmentVars

\* Bound: the last download is one that starts with fewer URLs known.
Attachments ==
  /\ \E d \in Downloaders : DownloadStep(d)
  /\ downloads' > downloads => downloads' + Cardinality(ArticleUrls) <= MaxDownloads + 1
  /\ UNCHANGED <<batches, collectVars, astray>>

Community ==
  /\ focus = "community"
  /\ CollectArticles \/ Attachments \/ CommunityCrash
  /\ UNCHANGED <<itemVars, commentVars, others>>

Comments ==
  /\ focus = "comments"
  /\ CommentNext
  /\ UNCHANGED <<batches, collectVars, itemVars, astray, attachmentVars, others>>

\* Bound: an answer is lost or the last token is issued.
Token ==
  /\ focus = "token"
  /\ TokenNext
  /\ issued' + lost' <= MaxTokens
  /\ UNCHANGED <<checkpointVars, pageVars, itemVars, catalogOnly, reservationVars, dependencyVars,
                officeVars, readVars>>

ReservationFocus ==
  /\ focus = "reservations"
  /\ ReservationNext
  /\ UNCHANGED <<checkpointVars, pageVars, itemVars, catalogOnly, tokenVars, dependencyVars,
                officeVars, readVars>>

Dependencies ==
  /\ focus = "dependencies"
  /\ DependencyNext
  /\ UNCHANGED <<checkpointVars, pageVars, itemVars, catalogOnly, tokenVars, reservationVars,
                officeVars, readVars>>

\* The collections, the syncs, the token and the tasks rest.
BackgroundRests ==
  UNCHANGED <<pageVars, itemVars, catalogOnly, checkpointVars, tokenVars, reservationVars, dependencyVars>>

FormsFocus ==
  /\ focus = "forms"
  /\ FormNext
  /\ BackgroundRests /\ UNCHANGED <<replanVars, reviewVars, shortageVars, explanationVars, readVars>>

Replans ==
  /\ focus = "replans"
  /\ ReplanNext
  /\ BackgroundRests /\ UNCHANGED <<formVars, reviewVars, shortageVars, explanationVars, readVars>>

Mappings ==
  /\ focus = "mappings"
  /\ ReviewNext
  /\ BackgroundRests /\ UNCHANGED <<formVars, replanVars, shortageVars, explanationVars, readVars>>

ShortageFocus ==
  /\ focus = "shortages"
  /\ ShortageNext
  /\ BackgroundRests /\ UNCHANGED <<formVars, replanVars, reviewVars, explanationVars, readVars>>

Explanations ==
  /\ focus = "explanations"
  /\ ExplanationNext
  /\ BackgroundRests /\ UNCHANGED <<formVars, replanVars, reviewVars, shortageVars, readVars>>

\* Bound: the calls are to one endpoint; the lowest idle reader takes a call.
OneEndpoint ==
  /\ \A i \in DOMAIN served' : served'[i].of = served'[1].of
  /\ served' # served =>
       \E r \in Readers : reader'[r] # reader[r] /\ \A q \in Readers : q < r => ~ReaderAt(q, "idle")

\* Bound: reads with one token that does not change while they go on.
OneGrant ==
  /\ grantVars' # grantVars => \A r \in Readers : reader'[r] = NotServing
  /\ Len(grants') <= 1 + readFaults' /\ ~clearing' /\ expired' = 0

\* Bound: one call of each behaviour, up to its first request.
OneRequest ==
  /\ Len(served') <= 1 /\ arrivals' = 0 /\ readFaults' = 0
  /\ \A r \in Readers : "sent" \in DOMAIN reader'[r] => reader'[r].sent <= 1

OperatorReads ==
  /\ focus \in ReadFoci
  /\ ReadNext
  /\ OneEndpoint /\ IF focus = "reads" THEN OneGrant ELSE OneRequest
  /\ BackgroundRests /\ UNCHANGED officeVars

Next ==
  /\ \/ Checkpoint \/ Commerce \/ Catalog \/ Community \/ Comments \/ Token
     \/ ReservationFocus \/ Dependencies \/ FormsFocus \/ Replans \/ Mappings
     \/ ShortageFocus \/ Explanations \/ OperatorReads
  /\ Bounded
  /\ UNCHANGED focus

Spec == Init /\ [][Next]_vars
=============================================================================
