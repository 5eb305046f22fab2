------------------------- MODULE CatalogCollection -------------------------
(***************************************************************************)
(* The product, category and article runners: the loop of PageCollection   *)
(* with the ways in and out that are their own.  Anyone may start a run at *)
(* any offset.  A product batch has three sanitized exports; its stage is  *)
(* that of the last one written.  A record stands for a full page.  The    *)
(* product runner writes COMPLETED with its last page already; the model   *)
(* has it when the loop ends.                                              *)
(***************************************************************************)
EXTENDS PageCollection

VARIABLE astray   \* history: a run began where nothing vouches for the pages before it

catalogVars == <<batches, collectVars, faults, astray>>

-----------------------------------------------------------------------------
\* _find_first_missing_product_offset goes by the names of manifest files, so
\* that a torn manifest counts; it looks no further than the highest of them.
Named(res, x) ==
  \E i \in OfResource(batches, res) :
    batches[i].at = x /\ batches[i].stage \in {"manifesting", "complete"}

MissingProducts ==
  {x \in Pages("products") : ~Named("products", x) /\ \E y \in Pages("products") : Before(x, y) /\ Named("products", y)}

\* The first page, one that a run reports as the next, or, for products, one
\* with every page before it named.
Vouched(res, from) ==
  \/ from = First
  \/ from \in ResumePoints(res)
  \/ res = "products" /\ \A x \in Pages(res) : Before(x, from) => Named(res, x)

BeginCatalog(c) ==
  \E res \in Resources : \E from \in Pages(res) :
    /\ res = "products" => \A x \in MissingProducts : ~Before(x, from)
    /\ Begin(c, res, from)
    /\ astray' = (astray \/ ~Vouched(res, from))

SkipFailedPage(r) == Following(r.of, r.at)   \* mutant: the failed page counts as done

\* A page is under way: it is read, or its files are written.
InPage(c) ==
  \/ run[c].pc \in {"fill", "manifest", "fillManifest"}
  \/ At(c, "page") /\ ~AtEnd(c) /\ ~Limited(c)

\* The product runner leaves a progress file that says what failed and where;
\* an exception while that file is written, and one in another runner, leaves
\* the last one.
FailedPage(r) == r.at

FailProducts(c) ==
  LET r == run[c] IN
  /\ InPage(c)
  /\ r.of = "products"
  /\ faults < MaxFaults
  /\ faults' = faults + 1
  /\ progress' = [progress EXCEPT ![r.id].status = "FAILED", ![r.id].next = FailedPage(r)]
  /\ Update(c, Idle)
  /\ UNCHANGED <<batches, again>>

FailSilently(c) ==
  /\ ~At(c, "idle")
  /\ run[c].of = "products" => ~InPage(c)
  /\ Fail(c)

\* An article run is complete when it saw both boards to their end, so that one
\* that began at the second board never is.
CompletesCatalog(c) ==
  /\ AtEnd(c)
  /\ run[c].of = "articles" => progress[run[c].id].from.w = 1

FinishCatalog(c) == Finish(c, CompletesCatalog(c))

CatalogStep(c) ==
  \/ BeginCatalog(c)
  \/ /\ PageStep(c) \/ FinishCatalog(c) \/ FailProducts(c) \/ FailSilently(c)
     /\ UNCHANGED astray

CatalogCrash ==
  /\ faults < MaxFaults
  /\ faults' = faults + 1
  /\ run' = [c \in Collectors |-> Idle]
  /\ UNCHANGED <<batches, progress, again, astray>>

CollectCatalogInit == batches = <<>> /\ CollectInit /\ faults = 0 /\ astray = FALSE

CollectCatalogNext == CatalogCrash \/ \E c \in Collectors : CatalogStep(c)

CollectCatalogSpec == CollectCatalogInit /\ [][CollectCatalogNext]_catalogVars

-----------------------------------------------------------------------------
\* A run that reports COMPLETED closes a whole catalog, if it and the runs
\* before it began at the first page, where a run before them stopped, or (the
\* product runner checks this) without a gap before them: wherever a run
\* stopped, failed or died, every page has a canonical batch, or the store has
\* an artifact that its readers refuse.
CompletedCatalogIsWhole ==
  \A i \in DOMAIN progress :
    LET res == progress[i].of IN
    (progress[i].status = "COMPLETED" /\ ~astray)
      => HasInvalid(batches, res) \/ \A x \in Pages(res) : Stored(x, res)
=============================================================================
