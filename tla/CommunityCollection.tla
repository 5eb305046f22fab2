------------------------ MODULE CommunityCollection ------------------------
(***************************************************************************)
(* What customers wrote, and what they attached: the article runners, the  *)
(* downloads of the files attached to articles, and the comment runner,    *)
(* which share the protected root and the process that serves them.        *)
(***************************************************************************)
EXTENDS AttachmentCollection, CommentCollection

communityVars == <<catalogVars, attachmentVars, commentVars>>

CommunityInit == CollectCatalogInit /\ AttachmentInit /\ CommentInit

\* The process dies, and with it every collection.
CommunityCrash ==
  /\ CatalogCrash
  /\ DownloadsDie
  /\ commentRun' = Idle
  /\ UNCHANGED <<comments, commentFiles, refused>>

CommunityNext ==
  \/ CommunityCrash
  \/ (\E c \in Collectors : CatalogStep(c)) /\ UNCHANGED <<attachmentVars, commentVars>>
  \/ (\E d \in Downloaders : DownloadStep(d)) /\ UNCHANGED <<batches, collectVars, astray, commentVars>>
  \/ CommentNext /\ UNCHANGED <<batches, collectVars, astray, attachmentVars>>

CommunitySpec == CommunityInit /\ [][CommunityNext]_communityVars

\* What is reported of the articles' attachments and comments is in the store:
\* with downloads of one URL that overlap, dying runs and answers that fail.
CommunityIsCollected == AttachmentsAreWhole /\ ProcessedCommentsAreWhole
=============================================================================
