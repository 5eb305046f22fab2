--------------------------- MODULE PageCollection ---------------------------
(***************************************************************************)
(* The loop of the Cafe24 collection runners: a resource is cut into       *)
(* windows, a window is read page by page, every page becomes a batch of   *)
(* the protected store, and after every page the run's progress file names *)
(* the next position.  Windows are date ranges for orders and refunds and  *)
(* boards for articles; products and categories have one.                  *)
(*                                                                         *)
(* A position is a window and a page in it; the end of the range stands    *)
(* for a next position of None.  The source is external and does not       *)
(* change under a collection.  RUNNING stands for the statuses that say    *)
(* "under way" (WINDOW_COMPLETED, BOARD_COMPLETED, RATE_LIMIT_WAIT,        *)
(* CHUNK_COOLDOWN), which nothing reads.                                   *)
(***************************************************************************)
EXTENDS ProtectedStore

CONSTANTS
  Collectors,    \* threads that serve collections
  Resources,
  Orders,        \* what records are about: an order, an article, a page of products
  Windows,       \* resource -> number of windows
  PagesIn,       \* resource -> window -> number of pages
  RecordsOn,     \* resource -> window -> page -> what its records are about
  MaxRecords,    \* resource -> max_orders, max_refunds, max_products, max_categories, max_articles
  MaxRetries,    \* max_rate_limit_retries
  MaxRuns,       \* bound: collections started
  MaxFaults      \* bound: failed steps and crashes

Positions == [w : Nat, p : Nat]
First    == [w |-> 1, p |-> 1]
End(res) == [w |-> Windows[res] + 1, p |-> 1]

ASSUME CollectionAssumption ==
  /\ Orders \subseteq Nat /\ IsFiniteSet(Orders)
  /\ Windows \in [Resources -> Nat \ {0}]
  /\ \A res \in Resources :
       /\ PagesIn[res] \in [1 .. Windows[res] -> Nat \ {0}]
       /\ \A w \in 1 .. Windows[res] : RecordsOn[res][w] \in [1 .. PagesIn[res][w] -> SUBSET Orders]
  /\ MaxRecords \in [Resources -> Nat \ {0}]
  /\ MaxRetries \in Nat /\ MaxRuns \in Nat /\ MaxFaults \in Nat

VARIABLES
  batches,    \* the protected store, oldest batch first
  progress,   \* the progress files, one for every run
  run,        \* what a collector's run has in memory
  faults,
  again       \* history: a run began where an earlier run of its resource had begun,
              \* or while one was under way

collectVars == <<progress, run, again>>

-----------------------------------------------------------------------------
Pages(res) ==
  UNION {{[w |-> v, p |-> q] : q \in 1 .. PagesIn[res][v]} : v \in 1 .. Windows[res]}
Before(x, y)  == x.w < y.w \/ (x.w = y.w /\ x.p < y.p)
Records(b)    == RecordsOn[b.of][b.at.w][b.at.p]
Stored(x, res) == \E i \in Canonical(batches, res) : batches[i].at = x

\* The position after a page: the next page of the window, or the next window.
WindowAfter(res, x) == [w |-> x.w + 1, p |-> 1]   \* mutant: has_more is ignored

Following(res, x) ==
  IF x.p < PagesIn[res][x.w] THEN [x EXCEPT !.p = @ + 1] ELSE [w |-> x.w + 1, p |-> 1]

Idle == [pc |-> "idle"]
Statuses == {"RUNNING", "FAILED", "FAILED_RATE_LIMIT", "LIMIT_REACHED", "COMPLETED"}
ProgressFiles == [of : Resources, from : Positions, next : Positions, status : Statuses]
Runs == [pc : {"page", "fill", "manifest", "fillManifest", "save"}, of : Resources,
         id : Nat, at : Positions, count : Nat, tries : 0 .. MaxRetries, batch : Nat]

CollectTypeOK ==
  /\ progress \in Seq(ProgressFiles)
  /\ run \in [Collectors -> Runs \union {Idle}]
  /\ again \in BOOLEAN
  /\ faults \in 0 .. MaxFaults

CollectInit ==
  /\ progress = <<>>
  /\ run = [c \in Collectors |-> Idle]
  /\ again = FALSE

-----------------------------------------------------------------------------
At(c, pc) == run[c].pc = pc
Update(c, r) == run' = [run EXCEPT ![c] = r]
Goto(c, pc)  == run' = [run EXCEPT ![c].pc = pc]
AtEnd(c)     == run[c].at = End(run[c].of)
Limited(c)   == run[c].count >= MaxRecords[run[c].of]

\* A run begins by saving its first progress file.
Begin(c, res, from) ==
  /\ At(c, "idle")
  /\ Len(progress) < MaxRuns
  /\ progress' = Append(progress, [of |-> res, from |-> from, next |-> from, status |-> "RUNNING"])
  /\ Update(c, [pc |-> "page", of |-> res, id |-> Len(progress) + 1, at |-> from,
                count |-> 0, tries |-> 0, batch |-> 0])
  /\ again' = (\/ again
               \/ \E i \in DOMAIN progress : progress[i].of = res /\ progress[i].from = from
               \/ \E d \in Collectors : ~At(d, "idle") /\ run[d].of = res)
  /\ UNCHANGED <<batches, faults>>

\* Where a run that did not complete says the next one should go on.
ResumePoints(res) ==
  {progress[i].next : i \in {j \in DOMAIN progress : progress[j].of = res /\ progress[j].next # End(res)}}

\* The page is read, its raw response is captured and its sanitized export
\* opened.
ReadPage(c) ==
  /\ At(c, "page")
  /\ ~AtEnd(c) /\ ~Limited(c)
  /\ batches' = Opened(batches, run[c].of, run[c].at)
  /\ Update(c, [run[c] EXCEPT !.pc = "fill", !.batch = Len(batches) + 1])
  /\ UNCHANGED <<progress, again, faults>>

\* HTTP 429: wait and try again, or give up with a progress file that says so.
MayRetryOnceMore(c) == run[c].tries <= MaxRetries   \* mutant: off by one

MayRetry(c) == run[c].tries < MaxRetries

RateLimited(c) ==
  /\ At(c, "page")
  /\ ~AtEnd(c) /\ ~Limited(c)
  /\ \/ /\ MayRetry(c)
        /\ Update(c, [run[c] EXCEPT !.tries = @ + 1])
        /\ UNCHANGED progress
     \/ /\ ~MayRetry(c)
        /\ progress' = [progress EXCEPT ![run[c].id].status = "FAILED_RATE_LIMIT"]
        /\ Update(c, Idle)
  /\ UNCHANGED <<batches, again, faults>>

FillPage(c) ==
  /\ At(c, "fill")
  /\ batches' = Filled(batches, run[c].batch)
  /\ Goto(c, "manifest")
  /\ UNCHANGED <<progress, again, faults>>

OpenManifest(c) ==
  /\ At(c, "manifest")
  /\ batches' = ManifestOpened(batches, run[c].batch)
  /\ Goto(c, "fillManifest")
  /\ UNCHANGED <<progress, again, faults>>

FillManifest(c) ==
  LET r == run[c] IN
  /\ At(c, "fillManifest")
  /\ batches' = ManifestFilled(batches, r.batch)
  /\ Update(c, [r EXCEPT !.pc = "save", !.at = Following(r.of, r.at), !.tries = 0, !.batch = 0,
                         !.count = @ + Cardinality(RecordsOn[r.of][r.at.w][r.at.p])])
  /\ UNCHANGED <<progress, again, faults>>

SaveProgress(c) ==
  /\ At(c, "save")
  /\ progress' = [progress EXCEPT ![run[c].id].next = run[c].at]
  /\ Goto(c, "page")
  /\ UNCHANGED <<batches, again, faults>>

\* The loops end at the end of the range or at the limit.
Finish(c, completed) ==
  /\ At(c, "page")
  /\ AtEnd(c) \/ Limited(c)
  /\ progress' = [progress EXCEPT ![run[c].id].status = IF completed THEN "COMPLETED" ELSE "LIMIT_REACHED"]
  /\ Update(c, Idle)
  /\ UNCHANGED <<batches, again, faults>>

\* Any other exception ends the run and leaves its files as they are: another
\* HTTP error, raw and sanitized counts that differ, a failed write.
Fail(c) ==
  /\ ~At(c, "idle")
  /\ faults < MaxFaults
  /\ faults' = faults + 1
  /\ Update(c, Idle)
  /\ UNCHANGED <<batches, progress, again>>

PageStep(c) ==
  \/ ReadPage(c) \/ RateLimited(c) \/ FillPage(c) \/ OpenManifest(c) \/ FillManifest(c)
  \/ SaveProgress(c)

-----------------------------------------------------------------------------
\* What a progress file says is done is in the store: every page between the
\* run's start and the next position has a canonical batch, whenever the run
\* stopped and whatever it left torn.  A completed run has the whole range.
ProgressIsBacked ==
  \A i \in DOMAIN progress : \A x \in Pages(progress[i].of) :
    (~Before(x, progress[i].from) /\ Before(x, progress[i].next)) => Stored(x, progress[i].of)
=============================================================================
