------------------------- MODULE CommentCollection -------------------------
(***************************************************************************)
(* run_cafe24_community_comment_full_runner: the articles of both boards   *)
(* are listed, and the comments of each are read page by page, every page  *)
(* into a batch.  A run always begins with the first article; what it says *)
(* of its progress is a count of articles.                                 *)
(*                                                                         *)
(* Its batches are kept apart from those of the other runners: nothing     *)
(* modelled here reads both.  The list of articles is read in one step:    *)
(* until it is complete it changes nothing.  The file system's part of a   *)
(* batch is ProtectedStore's.                                              *)
(***************************************************************************)
EXTENDS PageCollection

CONSTANTS
  Articles,       \* articles of the boards, in the order they are listed
  CommentPages,   \* article -> pages of its comments
  SaveEvery,      \* articles between two progress files
  MaxCommentRuns  \* bound: comment collections started

ASSUME CommentAssumption ==
  /\ Articles \subseteq Nat
  /\ CommentPages \in [Articles -> Nat \ {0}]
  /\ SaveEvery \in Nat \ {0} /\ MaxCommentRuns \in Nat

VARIABLES
  comments,       \* the batches of comments, oldest first
  commentFiles,   \* the progress files, one for every run
  commentRun,     \* what the run has in memory
  refused         \* history: articles whose comments the source would not give

commentVars == <<comments, commentFiles, commentRun, refused>>

-----------------------------------------------------------------------------
CommentBatches  == [of : {"article_comments"}, at : Articles \X Nat, stage : Stages]
CommentProgress == [status : {"DISCOVERING_ARTICLES", "COLLECTING_COMMENTS", "COMPLETED"}, processed : Nat]
CommentRuns     == [pc : {"discover", "page", "fill", "manifest", "fillManifest"}, left : SUBSET Articles,
                    page : Nat, tries : 0 .. MaxRetries, processed : Nat, batch : Nat]

CommentTypeOK ==
  /\ comments \in Seq(CommentBatches)
  /\ commentFiles \in Seq(CommentProgress)
  /\ commentRun \in CommentRuns \union {Idle}
  /\ refused \subseteq Articles

CommentInit ==
  /\ comments = <<>>
  /\ commentFiles = <<>>
  /\ commentRun = Idle
  /\ refused = {}

-----------------------------------------------------------------------------
CommentAt(pc)    == commentRun.pc = pc
CommentGoto(pc)  == commentRun' = [commentRun EXCEPT !.pc = pc]
Article(r)       == CHOOSE a \in r.left : \A b \in r.left : a <= b
Asking           == CommentAt("page") /\ commentRun.left # {}
ReportAs(s, n)   == commentFiles' = [commentFiles EXCEPT ![Len(commentFiles)] = [status |-> s, processed |-> n]]

BeginComments ==
  /\ CommentAt("idle")
  /\ Len(commentFiles) < MaxCommentRuns
  /\ commentFiles' = Append(commentFiles, [status |-> "DISCOVERING_ARTICLES", processed |-> 0])
  /\ commentRun' = [pc |-> "discover", left |-> {}, page |-> 1, tries |-> 0, processed |-> 0, batch |-> 0]
  /\ UNCHANGED <<comments, refused, faults>>

Discover ==
  /\ CommentAt("discover")
  /\ ReportAs("COLLECTING_COMMENTS", 0)
  /\ commentRun' = [commentRun EXCEPT !.pc = "page", !.left = Articles]
  /\ UNCHANGED <<comments, refused, faults>>

\* A page is read, its raw response captured and its sanitized export opened.
ReadComments ==
  /\ Asking
  /\ comments' = Opened(comments, "article_comments", <<Article(commentRun), commentRun.page>>)
  /\ commentRun' = [commentRun EXCEPT !.pc = "fill", !.batch = Len(comments) + 1]
  /\ UNCHANGED <<commentFiles, refused, faults>>

\* Mutant: the offset is not reset for the next article.
OffsetStays(r) == [r EXCEPT !.pc = "page", !.left = @ \ {Article(r)}, !.tries = 0, !.processed = @ + 1]

ArticleDone(r) ==
  [r EXCEPT !.pc = "page", !.left = @ \ {Article(r)}, !.page = 1, !.tries = 0, !.processed = @ + 1]

\* The loop goes to the next article, and now and then says so.
LeaveArticle ==
  /\ commentRun' = ArticleDone(commentRun)
  /\ IF commentRun'.processed % SaveEvery = 0
       THEN ReportAs("COLLECTING_COMMENTS", commentRun'.processed) ELSE UNCHANGED commentFiles

\* 404 or 422, on whatever page: the article counts as processed.
CommentsRefused ==
  /\ Asking
  /\ refused' = refused \union {Article(commentRun)}
  /\ LeaveArticle
  /\ UNCHANGED <<comments, faults>>

\* 429: another try, or the exception leaves the run as it is.
CommentsRateLimited ==
  /\ Asking
  /\ commentRun' = IF commentRun.tries < MaxRetries THEN [commentRun EXCEPT !.tries = @ + 1] ELSE Idle
  /\ UNCHANGED <<comments, commentFiles, refused, faults>>

FillComments ==
  /\ CommentAt("fill")
  /\ comments' = Filled(comments, commentRun.batch)
  /\ CommentGoto("manifest")
  /\ UNCHANGED <<commentFiles, refused, faults>>

OpenCommentManifest ==
  /\ CommentAt("manifest")
  /\ comments' = ManifestOpened(comments, commentRun.batch)
  /\ CommentGoto("fillManifest")
  /\ UNCHANGED <<commentFiles, refused, faults>>

\* With the manifest the page is stored: on to the next one, or article.
FillCommentManifest ==
  LET r == commentRun IN
  /\ CommentAt("fillManifest")
  /\ comments' = ManifestFilled(comments, r.batch)
  /\ IF r.page < CommentPages[Article(r)]
       THEN /\ commentRun' = [r EXCEPT !.pc = "page", !.page = @ + 1, !.tries = 0]
            /\ UNCHANGED commentFiles
       ELSE LeaveArticle
  /\ UNCHANGED <<refused, faults>>

FinishComments ==
  /\ CommentAt("page") /\ commentRun.left = {}
  /\ ReportAs("COMPLETED", commentRun.processed)
  /\ commentRun' = Idle
  /\ UNCHANGED <<comments, refused, faults>>

\* Any other exception, or the death of the process.
CommentsFail ==
  /\ ~CommentAt("idle")
  /\ faults < MaxFaults
  /\ faults' = faults + 1
  /\ commentRun' = Idle
  /\ UNCHANGED <<comments, commentFiles, refused>>

CommentNext ==
  \/ BeginComments \/ Discover \/ ReadComments \/ CommentsRefused \/ CommentsRateLimited
  \/ FillComments \/ OpenCommentManifest \/ FillCommentManifest \/ FinishComments \/ CommentsFail

-----------------------------------------------------------------------------
CommentStored(x)  == \E i \in Canonical(comments, "article_comments") : comments[i].at = x
WholeComments(a)  == \A p \in 1 .. CommentPages[a] : CommentStored(<<a, p>>)

\* The articles that a progress file counts as processed.
Processed(f) ==
  IF f.status = "COMPLETED" THEN Articles
  ELSE {a \in Articles : Cardinality({b \in Articles : b <= a}) <= f.processed}

\* What a run counts as processed, and everything once it reports COMPLETED, has
\* all its comments in canonical batches, wherever runs failed or died before,
\* except the articles the source refused on some page.
ProcessedCommentsAreWhole ==
  \A i \in DOMAIN commentFiles : \A a \in Processed(commentFiles[i]) \ refused : WholeComments(a)
=============================================================================
