------------------------ MODULE AttachmentCollection ------------------------
(***************************************************************************)
(* run_cafe24_community_attachment_full_runner: the files attached to the  *)
(* articles of the canonical batches are downloaded, each through a        *)
(* temporary file named after its URL and moved to a name made of its      *)
(* content; the index lists what is stored.  Also the part of the          *)
(* community integrity report about articles and attachments.              *)
(*                                                                         *)
(* Unlike a batch, a temporary file belongs to no run: a second run that   *)
(* finds it removes it.  On POSIX the first one then goes on writing a     *)
(* file without a name, and may move another's file to its own target.  A  *)
(* file is therefore known by who is writing it.  Two URLs have different  *)
(* content; the file server may answer anything at any time.  The index    *)
(* is written like that of the order items.                                *)
(***************************************************************************)
EXTENDS CatalogCollection

CONSTANTS
  Downloaders,     \* threads that serve attachment collections
  Urls,
  AttachedTo,      \* article -> the URLs of its attachments
  MaxDownloads,    \* bound: attachment collections started
  NoIndex

ASSUME AttachmentAssumption ==
  /\ Urls \subseteq Nat
  /\ AttachedTo \in [Orders -> SUBSET Urls] /\ \A o \in Orders : IsFiniteSet(AttachedTo[o])
  /\ MaxDownloads \in Nat
  /\ Downloaders \intersect {"none", "stale", "whole", "torn"} = {}

VARIABLES
  partial,      \* URL -> who writes download-<hash>.tmp ("stale": nobody any more)
  files,        \* URL -> the stored file: none, whole, torn, or who still writes it
  attIndex,     \* attachments/index.json: the URLs it lists
  attTmp,       \* attachments/index.json.tmp
  attOpenAs,    \* downloader -> the name of the file it has open to write the index
  attUnreadable, \* the names of files that are empty still, or filled by two; no JSON
  download,     \* what a downloader's run has in memory
  manifests,    \* the manifests of the runs that returned
  downloads,
  downloadsOverlapped   \* history: two attachment collections were under way at once

attachmentVars == <<partial, files, attIndex, attTmp, attOpenAs, attUnreadable, download, manifests, downloads,
                    downloadsOverlapped>>

-----------------------------------------------------------------------------
Manifests == [refs : SUBSET Urls, missing : SUBSET Urls, completed : BOOLEAN]
Downloads == [pc : {"next", "write", "check", "replace", "unlink", "enter", "fill", "index"},
              refs : SUBSET Urls, left : SUBSET Urls, cache : SUBSET Urls,
              missing : SUBSET Urls, failed : BOOLEAN]

AttachmentTypeOK ==
  /\ partial \in [Urls -> Downloaders \union {"none", "stale"}]
  /\ files \in [Urls -> Downloaders \union {"none", "whole", "torn"}]
  /\ attIndex \subseteq Urls
  /\ attTmp \in (SUBSET Urls) \union {NoIndex}
  /\ attOpenAs \in [Downloaders -> FileNames \union {"none", "gone"}]
  /\ attUnreadable \subseteq FileNames
  /\ download \in [Downloaders -> Downloads \union {Idle}]
  /\ manifests \subseteq Manifests
  /\ downloads \in 0 .. MaxDownloads /\ downloadsOverlapped \in BOOLEAN

AttachmentInit ==
  /\ partial = [u \in Urls |-> "none"]
  /\ files = [u \in Urls |-> "none"]
  /\ attIndex = {} /\ attTmp = NoIndex
  /\ attOpenAs = [d \in Downloaders |-> "none"] /\ attUnreadable = {}
  /\ download = [d \in Downloaders |-> Idle]
  /\ manifests = {}
  /\ downloads = 0 /\ downloadsOverlapped = FALSE

-----------------------------------------------------------------------------
DownloadAt(d, pc)   == download[d].pc = pc
DownloadTo(d, r)    == download' = [download EXCEPT ![d] = r]
DownloadGoto(d, pc) == download' = [download EXCEPT ![d].pc = pc]
RunsUnchanged       == UNCHANGED <<manifests, downloads, downloadsOverlapped>>
IndexUnchanged      == UNCHANGED <<attIndex, attTmp, attOpenAs, attUnreadable>>

UrlOf(d)     == CHOOSE u \in download[d].left : \A v \in download[d].left : u <= v
PassedUrl(d) == [download[d] EXCEPT !.pc = "next", !.left = @ \ {UrlOf(d)}]
FailedUrl(d) == [PassedUrl(d) EXCEPT !.failed = TRUE]

ArticleUrls ==
  UNION {UNION {AttachedTo[o] : o \in Records(batches[i])} : i \in Canonical(batches, "articles")}

BeginDownloads(d) ==
  /\ DownloadAt(d, "idle")
  /\ downloads < MaxDownloads
  /\ ~HasInvalid(batches, "articles")
  /\ "index" \notin attUnreadable
  /\ DownloadTo(d, [pc |-> "next", refs |-> ArticleUrls, left |-> ArticleUrls, cache |-> attIndex,
                    missing |-> {}, failed |-> FALSE])
  /\ downloads' = downloads + 1
  /\ downloadsOverlapped' = (downloadsOverlapped \/ \E e \in Downloaders : ~DownloadAt(e, "idle"))
  /\ UNCHANGED <<partial, files, manifests, faults>> /\ IndexUnchanged

HasUrl(d)     == DownloadAt(d, "next") /\ download[d].left # {}
StoredUrl(d)  == UrlOf(d) \in download[d].cache /\ files[UrlOf(d)] # "none"

SkipStored(d) ==
  /\ HasUrl(d) /\ StoredUrl(d)
  /\ DownloadTo(d, PassedUrl(d))
  /\ UNCHANGED <<partial, files, faults>> /\ IndexUnchanged /\ RunsUnchanged

\* 404; and any other failing answer, after as many retries as it gets.
UrlMissing(d) ==
  /\ HasUrl(d) /\ ~StoredUrl(d)
  /\ DownloadTo(d, [PassedUrl(d) EXCEPT !.missing = @ \union {UrlOf(d)}])
  /\ UNCHANGED <<partial, files, faults>> /\ IndexUnchanged /\ RunsUnchanged

UrlRefused(d) ==
  /\ HasUrl(d) /\ ~StoredUrl(d)
  /\ DownloadTo(d, FailedUrl(d))
  /\ UNCHANGED <<partial, files, faults>> /\ IndexUnchanged /\ RunsUnchanged

\* Mutant: the download writes to the stored name itself.
OpenInPlace(d) ==
  /\ HasUrl(d) /\ ~StoredUrl(d)
  /\ IF files[UrlOf(d)] = "none"
       THEN DownloadGoto(d, "write") /\ files' = [files EXCEPT ![UrlOf(d)] = d]
       ELSE DownloadGoto(d, "check") /\ UNCHANGED files
  /\ UNCHANGED <<partial, faults>> /\ IndexUnchanged /\ RunsUnchanged

\* open("xb"): a temporary file that is already there is an error.
OpenPartial(d) ==
  /\ HasUrl(d) /\ ~StoredUrl(d)
  /\ IF partial[UrlOf(d)] = "none"
       THEN DownloadGoto(d, "write") /\ partial' = [partial EXCEPT ![UrlOf(d)] = d]
       ELSE DownloadGoto(d, "unlink") /\ UNCHANGED partial
  /\ UNCHANGED <<files, faults>> /\ IndexUnchanged /\ RunsUnchanged

\* The stream ends, and with it the file that d writes under whatever name it
\* has by now; or it breaks.
WriteEnds(d) ==
  /\ DownloadAt(d, "write")
  /\ DownloadGoto(d, "check")
  /\ files' = [u \in Urls |-> IF files[u] = d THEN "whole" ELSE files[u]]
  /\ UNCHANGED <<partial, faults>> /\ IndexUnchanged /\ RunsUnchanged

WriteBreaks(d) ==
  /\ DownloadAt(d, "write")
  /\ faults < MaxFaults
  /\ faults' = faults + 1
  /\ DownloadGoto(d, "unlink")
  /\ files' = [u \in Urls |-> IF files[u] = d THEN "torn" ELSE files[u]]
  /\ UNCHANGED partial /\ IndexUnchanged /\ RunsUnchanged

\* final_path.exists(): the file is stored already, the temporary one goes.
CheckFinal(d) ==
  /\ DownloadAt(d, "check")
  /\ IF files[UrlOf(d)] # "none"
       THEN DownloadGoto(d, "enter") /\ partial' = [partial EXCEPT ![UrlOf(d)] = "none"]
       ELSE DownloadGoto(d, "replace") /\ UNCHANGED partial
  /\ UNCHANGED <<files, faults>> /\ IndexUnchanged /\ RunsUnchanged

\* What the temporary file holds when it is moved.
Content(w) ==
  IF w = "stale" THEN "torn"
  ELSE CASE DownloadAt(w, "write") -> w
         [] DownloadAt(w, "unlink") -> "torn"
         [] OTHER -> "whole"

ReplaceFinal(d) ==
  LET u == UrlOf(d) IN
  /\ DownloadAt(d, "replace")
  /\ IF partial[u] = "none"
       THEN DownloadGoto(d, "unlink") /\ UNCHANGED <<partial, files>>
       ELSE /\ files' = [files EXCEPT ![u] = Content(partial[u])]
            /\ partial' = [partial EXCEPT ![u] = "none"]
            /\ DownloadGoto(d, "enter")
  /\ UNCHANGED faults /\ IndexUnchanged /\ RunsUnchanged

\* The handler of every exception: the temporary file goes, whose ever it is.
Unlink(d) ==
  /\ DownloadAt(d, "unlink")
  /\ partial' = [partial EXCEPT ![UrlOf(d)] = "none"]
  /\ DownloadTo(d, FailedUrl(d))
  /\ UNCHANGED <<files, faults>> /\ IndexUnchanged /\ RunsUnchanged

Entered(r, u) == [r EXCEPT !.cache = @ \union {u}]

\* The URL is entered in the run's index, and the temporary file opened.
EnterUrl(d) ==
  /\ DownloadAt(d, "enter")
  /\ attTmp' = {} /\ attUnreadable' = attUnreadable \union {"tmp"}
  /\ attOpenAs' = [attOpenAs EXCEPT ![d] = "tmp"]
  /\ DownloadTo(d, [Entered(download[d], UrlOf(d)) EXCEPT !.pc = "fill"])
  /\ UNCHANGED <<partial, files, attIndex, faults>> /\ RunsUnchanged

\* The file the run has open is filled.  Two that fill it may tear it.
FillAttTmp(d) ==
  /\ DownloadAt(d, "fill")
  /\ \E content \in {download[d].cache} \union (IF downloadsOverlapped THEN {{}} ELSE {}) :
       /\ attTmp' = IF attOpenAs[d] = "tmp" THEN content ELSE attTmp
       /\ attIndex' = IF attOpenAs[d] = "index" THEN content ELSE attIndex
       /\ attUnreadable' = IF content = download[d].cache THEN attUnreadable \ {attOpenAs[d]}
                           ELSE attUnreadable \union ({attOpenAs[d]} \intersect FileNames)
  /\ attOpenAs' = [attOpenAs EXCEPT ![d] = "none"]
  /\ DownloadGoto(d, "index")
  /\ UNCHANGED <<partial, files, faults>> /\ RunsUnchanged

\* The index file is replaced, or, when another run took the temporary one
\* away, the URL fails.
ReplaceAttIndex(d) ==
  /\ DownloadAt(d, "index")
  /\ IF attTmp # NoIndex
       THEN /\ attIndex' = attTmp
            /\ attUnreadable' = IF "tmp" \in attUnreadable THEN {"index"} ELSE {}
            /\ attOpenAs' = [e \in Downloaders |-> NameAfter(attOpenAs[e])]
            /\ DownloadTo(d, PassedUrl(d))
       ELSE UNCHANGED <<attIndex, attUnreadable, attOpenAs>> /\ DownloadTo(d, FailedUrl(d))
  /\ attTmp' = NoIndex
  /\ UNCHANGED <<partial, files, faults>> /\ RunsUnchanged

IndexFails(d) ==
  /\ download[d].pc \in {"enter", "fill", "index"}
  /\ faults < MaxFaults
  /\ faults' = faults + 1
  /\ attOpenAs' = [attOpenAs EXCEPT ![d] = "none"]
  /\ DownloadTo(d, Entered(FailedUrl(d), UrlOf(d)))
  /\ UNCHANGED <<partial, files, attIndex, attTmp, attUnreadable>> /\ RunsUnchanged

FinishDownloads(d) ==
  LET r == download[d] IN
  /\ DownloadAt(d, "next") /\ r.left = {}
  /\ manifests' = manifests \union {[refs |-> r.refs, missing |-> r.missing, completed |-> ~r.failed]}
  /\ DownloadTo(d, Idle)
  /\ UNCHANGED <<partial, files, downloads, downloadsOverlapped, faults>> /\ IndexUnchanged

DownloadStep(d) ==
  \/ BeginDownloads(d) \/ SkipStored(d) \/ UrlMissing(d) \/ UrlRefused(d) \/ OpenPartial(d)
  \/ WriteEnds(d) \/ WriteBreaks(d) \/ CheckFinal(d) \/ ReplaceFinal(d) \/ Unlink(d)
  \/ EnterUrl(d) \/ FillAttTmp(d) \/ ReplaceAttIndex(d) \/ IndexFails(d) \/ FinishDownloads(d)

\* What the process leaves behind of its downloads when it dies.
DownloadsDie ==
  /\ download' = [d \in Downloaders |-> Idle]
  /\ partial' = [u \in Urls |-> IF partial[u] \in Downloaders THEN "stale" ELSE partial[u]]
  /\ files' = [u \in Urls |-> IF files[u] \in Downloaders THEN "torn" ELSE files[u]]
  /\ attOpenAs' = [d \in Downloaders |-> "none"]
  /\ UNCHANGED <<attIndex, attTmp, attUnreadable>> /\ RunsUnchanged

-----------------------------------------------------------------------------
\* The integrity report on articles and attachments (the parent links of
\* articles and comments are data of the source).
Whole(u) == files[u] = "whole"

ReportedMissing == UNION {m.missing : m \in {n \in manifests : n.completed}}

CommunityReportPasses ==
  LET unlisted == ArticleUrls \ attIndex IN
  /\ ~HasInvalid(batches, "articles") /\ ~HasMissing(batches, "articles")
  /\ "index" \notin attUnreadable
  /\ Cardinality(unlisted) <= Cardinality(ReportedMissing \intersect ArticleUrls)
  /\ \A u \in ArticleUrls \intersect attIndex : Whole(u)

\* The report counts a file that was found later against another that is missing.
FoundAgain == ReportedMissing \intersect attIndex # {}

\* As long as no two attachment collections overlap, what the index lists and
\* what a completed run answers for is stored whole, also after downloads that
\* broke, index writes that failed and runs that died.  (Of two that overlap
\* one may remove the other's temporary file and get its own moved
\* unfinished.)  The report does not pass over an attachment, overlapping runs
\* or not: when it passes and no file reported missing was found later, every
\* one is stored whole or was reported missing by a completed run.
AttachmentsAreWhole ==
  /\ ~downloadsOverlapped =>
       /\ \A u \in attIndex : Whole(u)
       /\ \A m \in manifests : m.completed => \A u \in m.refs \ m.missing : Whole(u)
  /\ (CommunityReportPasses /\ ~FoundAgain)
       => \A u \in ArticleUrls : Whole(u) \/ \E m \in manifests : m.completed /\ u \in m.missing
=============================================================================
