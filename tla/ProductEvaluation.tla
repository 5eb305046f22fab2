--------------------------- MODULE ProductEvaluation ---------------------------
(***************************************************************************)
(* The retrieval experiment on actual products: r07_actual_safe_projection *)
(* makes a snapshot of the product exports, build_r07_pre_product_dev24    *)
(* drafts cases from it, a person reviews them, finalize_... takes the     *)
(* review over, and two evaluations search for the cases' evidence: by     *)
(* BM25, by vectors and by the fusion of both, and with a reranker.        *)
(*                                                                         *)
(* One person starts the scripts one after the other, while collections go *)
(* on; a script can die anywhere.  The hashes of the snapshot and of the   *)
(* reviewed cases are constants of the scripts: here they are pinned once  *)
(* each.  A file stands for its bytes, so that equal hashes are equal      *)
(* files; the manifests beside them decide nothing and are left out.  What *)
(* a search returns is any list of different products: each product is one *)
(* document.                                                               *)
(***************************************************************************)
EXTENDS CatalogHandoff

CONSTANTS
  CaseCount,      \* the cases of an experiment (24)
  CandidateTop,   \* results asked of a search (8)
  MetricTop,      \* results a metric looks at (5)
  RrfK,           \* the constant of the fusion (60)
  MaxRetries,     \* attempts of the reranker after the first
  Holdable,       \* bound: the cases a review may hold, of 1 to CaseCount
  MaxProjections, \* bound: projections started
  MaxScriptRuns,  \* bound: evaluations started
  MaxLabFaults    \* bound: scripts that die

ASSUME EvaluationAssumption ==
  /\ {CaseCount, CandidateTop, MetricTop, RrfK} \subseteq Nat \ {0}
  /\ {MaxRetries, MaxProjections, MaxScriptRuns, MaxLabFaults} \subseteq Nat

VARIABLES
  lab,          \* the script that runs
  papers,       \* the snapshot, the cases and their review, the results
  pins,         \* the constants of the scripts
  projections, scriptRuns, labFaults

labVars == <<lab, papers, pins, projections, scriptRuns, labFaults>>
evaluationVars == <<labVars, catalogVars>>

PaperNames == {"snapshot", "draft", "review", "final", "result", "summary"}
Idle == [pc |-> "idle"]

Whole(name) == papers[name] \notin {NoSheet, TornSheet}

-----------------------------------------------------------------------------
(* The projection.                                                         *)
\* _load_products: the files of the full collection only; a product that is
\* listed twice is fatal, in one file or in two.
ListedTwice ==
  \E i, j \in FullOf("products") : \E n \in DOMAIN shelf[i].rows, k \in DOMAIN shelf[j].rows :
    <<i, n>> # <<j, k>> /\ shelf[i].rows[n].id = shelf[j].rows[k].id

SourceRows == {o.row.id : o \in UNION {ObservationsIn(i) : i \in FullOf("products")}}

\* A snapshot: the version names the product files, not those of the relations.
SnapshotOf(files, products, members) ==
  [version |-> files, rows |-> [p \in products |-> {m[1] : m \in {n \in members : n[2] = p}}]]

-----------------------------------------------------------------------------
(* The searches and their metrics.                                         *)
\* The results of a search over the snapshot's products.
RankedLists(products) == {s \in UNION {[1..n -> products] : n \in 0..CandidateTop} :
                            \A i, j \in DOMAIN s : i # j => s[i] # s[j]}

RankIn(list, p) == IF \E i \in DOMAIN list : list[i] = p THEN CHOOSE i \in DOMAIN list : list[i] = p ELSE 0

\* Mutant: a list a product is missing from counts as if it were before its first.
ShareOfMissing(list, p) == <<1, RrfK + RankIn(list, p)>>

\* What a list adds to a product's score, as a fraction.
Share(list, p) == IF RankIn(list, p) = 0 THEN <<0, 1>> ELSE <<1, RrfK + RankIn(list, p)>>

FusedScore(a, b, p) ==
  LET s == Share(a, p)
      t == Share(b, p) IN
  <<s[1] * t[2] + t[1] * s[2], s[2] * t[2]>>

BestRank(a, b, p) ==
  LET ranks == {RankIn(a, p), RankIn(b, p)} \ {0} IN CHOOSE r \in ranks : \A q \in ranks : r <= q

\* The order of _sort_and_rank.
FusedBefore(a, b, p, q) ==
  LET s == FusedScore(a, b, p)
      t == FusedScore(a, b, q) IN
  \/ s[1] * t[2] > t[1] * s[2]
  \/ /\ s[1] * t[2] = t[1] * s[2]
     /\ \/ BestRank(a, b, p) < BestRank(a, b, q)
        \/ BestRank(a, b, p) = BestRank(a, b, q) /\ p < q

Entries(list) == {list[i] : i \in DOMAIN list}

\* reciprocal_rank_fusion: everything either list has, so more than CandidateTop.
Fused(a, b) ==
  LET all == Entries(a) \union Entries(b) IN
  [i \in 1..Cardinality(all) |->
     CHOOSE p \in all : Cardinality({q \in all : q # p /\ FusedBefore(a, b, q, p)}) = i - 1]

\* Where the evidence of a case is among the first MetricTop; 0: not there.  A
\* case has one piece of evidence, so this is recall, mrr and full evidence.
FoundAt(list, case, version) ==
  LET r == RankIn(list, case.product) IN
  IF case.version = version /\ r \in 1..MetricTop THEN r ELSE 0

\* A search that raised, or what it returned.
Raised == [ok |-> FALSE, list |-> <<>>]
SearchesOf(products) == {Raised} \union {[ok |-> TRUE, list |-> l] : l \in RankedLists(products)}

Row(status, found, none) == [status |-> status, found |-> found, none |-> none]
Measured(list, case, version) == Row("SUCCEEDED", FoundAt(list, case, version) > 0, list = <<>>)
RowOf(search, case, version) ==
  IF search.ok THEN Measured(search.list, case, version) ELSE Row("ERROR", FALSE, FALSE)

\* A search that returned nothing blocks the fusion like one that raised; the
\* fusion can raise as well.
FusedRow(bm25, dense, raises, case, version) ==
  IF bm25.list = <<>> \/ dense.list = <<>> THEN Row("BLOCKED", FALSE, FALSE)
  ELSE IF raises THEN Row("ERROR", FALSE, FALSE)
  ELSE Measured(Fused(bm25.list, dense.list), case, version)

RowsOf(bm25, dense, raises, case, version) ==
  [answerable |-> case.answerable,
   bm25 |-> RowOf(bm25, case, version), dense |-> RowOf(dense, case, version),
   fused |-> FusedRow(bm25, dense, raises, case, version)]

Methods == {"bm25", "dense", "fused"}
With(rows, method, status) == {i \in DOMAIN rows : rows[i][method].status = status}

\* summarize_method: the rates are taken over the rows that succeeded and are of
\* answerable cases, what returned nothing is counted of all that succeeded.
Summarized(rows) ==
  [method \in Methods |->
     LET done       == With(rows, method, "SUCCEEDED")
         answerable == {i \in done : rows[i].answerable} IN
     [attempted |-> Len(rows), succeeded |-> Cardinality(done),
      error |-> Cardinality(With(rows, method, "ERROR")), blocked |-> Cardinality(With(rows, method, "BLOCKED")),
      answerable |-> Cardinality(answerable), hold |-> Cardinality(done \ answerable),
      found |-> Cardinality({i \in answerable : rows[i][method].found}),
      none |-> Cardinality({i \in done : rows[i][method].none})]]

-----------------------------------------------------------------------------
EvaluationInit ==
  /\ lab = Idle /\ papers = [name \in PaperNames |-> NoSheet]
  /\ pins = [snapshot |-> NoSheet, final |-> NoSheet]
  /\ projections = 0 /\ scriptRuns = 0 /\ labFaults = 0

Ends == lab' = Idle
Writes(names, content) == lab' = [pc |-> "write", open |-> FALSE, left |-> names, content |-> content]
CountersUnchanged == UNCHANGED <<projections, scriptRuns, labFaults>>

BeginProjection ==
  /\ lab.pc = "idle" /\ projections < MaxProjections
  /\ projections' = projections + 1
  /\ IF FullOf("products") = {} \/ Unreadable("products") THEN Ends
     ELSE lab' = [pc |-> "categories", files |-> FullOf("products"), products |-> SourceRows, twice |-> ListedTwice]
  /\ UNCHANGED <<papers, pins, scriptRuns, labFaults>>

ProjectCategories ==
  /\ lab.pc = "categories"
  /\ IF Unreadable("categories") THEN Ends
     ELSE lab' = [pc |-> "relations", files |-> lab.files, products |-> lab.products, twice |-> lab.twice,
                  listed |-> DOMAIN LatestByIdentity(Observations("categories"))]
  /\ UNCHANGED <<papers, pins>> /\ CountersUnchanged

\* What is fatal is looked at when everything was read: products listed twice and
\* relations of a category that is not listed, not those of an unlisted product.
ProjectRelations ==
  /\ lab.pc = "relations"
  /\ LET members == DOMAIN LatestByIdentity(Observations("relations")) IN
     IF Unreadable("relations") \/ lab.twice \/ \E m \in members : m[1] \notin lab.listed
       THEN Ends
       ELSE Writes(<<"snapshot">>, [snapshot |-> SnapshotOf(lab.files, lab.products, members)])
  /\ UNCHANGED <<papers, pins>> /\ CountersUnchanged

\* Files are opened and filled one after the other.
WritePaper ==
  /\ lab.pc = "write"
  /\ LET name == Head(lab.left) IN
     IF ~lab.open
       THEN /\ papers' = [papers EXCEPT ![name] = TornSheet]
            /\ lab' = [lab EXCEPT !.open = TRUE]
       ELSE /\ papers' = [papers EXCEPT ![name] = lab.content[name]]
            /\ IF Len(lab.left) = 1 THEN Ends ELSE lab' = [lab EXCEPT !.open = FALSE, !.left = Tail(@)]
  /\ UNCHANGED pins /\ CountersUnchanged

\* The hash of a file becomes a constant of the scripts.
Pin(name) ==
  /\ lab.pc = "idle" /\ Whole(name) /\ pins[name] = NoSheet
  /\ pins' = [pins EXCEPT ![name] = papers[name]]
  /\ UNCHANGED <<lab, papers>> /\ CountersUnchanged

\* Products are chosen by the hashes of their numbers: in one order, here that of
\* the numbers.  A review starts blank.  Bound: cases are finalized once.
Chosen(products) ==
  [i \in 1..CaseCount |-> CHOOSE p \in products : Cardinality({q \in products : q < p}) = i - 1]

Drafted(chosen) == [i \in 1..CaseCount |-> [product |-> chosen[i], version |-> pins.snapshot.version]]

BlankReview(draft) == [cases |-> draft, decision |-> "blank", held |-> {}]

BuildDraft ==
  /\ lab.pc = "idle" /\ Whole("snapshot") /\ papers["snapshot"] = pins.snapshot
  /\ ~Whole("final")
  /\ Cardinality(DOMAIN pins.snapshot.rows) >= CaseCount
  /\ LET draft == Drafted(Chosen(DOMAIN pins.snapshot.rows)) IN
     Writes(<<"draft", "review">>, [draft |-> draft, review |-> BlankReview(draft)])
  /\ UNCHANGED <<papers, pins>> /\ CountersUnchanged

\* A person looks at the cases in the review file, and may hold some of those
\* approved as not answerable.
FillReview ==
  /\ lab.pc = "idle" /\ Whole("review") /\ papers["review"].decision = "blank"
  /\ \E decision \in {"APPROVE", "REJECT"}, held \in SUBSET Holdable :
       papers' = [papers EXCEPT !["review"].decision = decision, !["review"].held = held]
  /\ UNCHANGED <<lab, pins>> /\ CountersUnchanged

\* Mutant: whatever the review says.
TakesAny(review) == TRUE

Takes(review) == review.decision = "APPROVE"

Reviewed(draft, review) ==
  [i \in DOMAIN draft |-> [product |-> draft[i].product, version |-> draft[i].version, answerable |-> i \notin review.held]]

\* The rows of the review are found by the number of the case, which every draft
\* counts from one, and not compared with the case.
FinalizeCases ==
  /\ lab.pc = "idle" /\ Whole("draft") /\ Whole("review") /\ ~Whole("final")
  /\ Takes(papers["review"])
  /\ Writes(<<"final">>, [final |-> [cases |-> Reviewed(papers["draft"], papers["review"]), review |-> papers["review"]]])
  /\ UNCHANGED <<papers, pins>> /\ CountersUnchanged

\* validate_inputs.
BeginEvaluation(kind) ==
  /\ lab.pc = "idle" /\ scriptRuns < MaxScriptRuns
  /\ scriptRuns' = scriptRuns + 1
  /\ IF Whole("snapshot") /\ Whole("final") /\ papers["snapshot"] = pins.snapshot /\ papers["final"] = pins.final
       THEN lab' = [pc |-> kind, cases |-> papers["final"].cases, review |-> papers["final"].review,
                    version |-> papers["snapshot"].version, products |-> DOMAIN papers["snapshot"].rows,
                    rows |-> <<>>, last |-> <<>>, attempts |-> 0]
       ELSE Ends
  /\ UNCHANGED <<papers, pins, projections, labFaults>>

NextCase == lab.cases[Len(lab.rows) + 1]
MoreCases == Len(lab.rows) < CaseCount

SearchCase ==
  /\ lab.pc = "search" /\ MoreCases /\ lab.last = <<>>
  /\ \E bm25, dense \in SearchesOf(lab.products) : lab' = [lab EXCEPT !.last = <<bm25, dense>>]
  /\ UNCHANGED <<papers, pins>> /\ CountersUnchanged

RecordCase ==
  /\ lab.pc = "search" /\ lab.last # <<>>
  /\ \E raises \in BOOLEAN :
       lab' = [lab EXCEPT !.rows = Append(@, RowsOf(lab.last[1], lab.last[2], raises, NextCase, lab.version)), !.last = <<>>]
  /\ UNCHANGED <<papers, pins>> /\ CountersUnchanged

\* The configuration that is published beside the rows: what the run was of.
ConfigurationOf(run, summary) ==
  [cases |-> run.cases, review |-> run.review, version |-> run.version, rows |-> run.rows, summary |-> summary]

PublishSearches ==
  /\ lab.pc = "search" /\ ~MoreCases
  /\ Writes(<<"result">>, [result |-> ConfigurationOf(lab, Summarized(lab.rows))])
  /\ UNCHANGED <<papers, pins>> /\ CountersUnchanged

-----------------------------------------------------------------------------
(* The reranker: the candidates are scored on a thread of their own, up to *)
(* 1 + MaxRetries times.  A thread whose time is up goes on, but nobody    *)
(* reads what it returns.                                                  *)
SearchForRerank ==
  /\ lab.pc = "rerank" /\ MoreCases
  /\ \E list \in RankedLists(lab.products) :
       lab' = [lab EXCEPT !.pc = "score", !.last = list]
  /\ UNCHANGED <<papers, pins>> /\ CountersUnchanged

Cut(list) == SubSeq(list, 1, IF Len(list) < MetricTop THEN Len(list) ELSE MetricTop)
Orders(list) == {s \in [DOMAIN list -> Entries(list)] : Entries(s) = Entries(list)}

\* What became of a case: "NO_CANDIDATES", "RERANKED" or "FALLBACK".
RerankRow(last, status, list, case, version) ==
  [status |-> status, candidate |-> RankIn(last, case.product) > 0,
   before |-> FoundAt(last, case, version), after |-> FoundAt(Cut(list), case, version)]

Reranked(status, list) ==
  lab' = [lab EXCEPT !.pc = "rerank", !.last = <<>>, !.attempts = 0,
                     !.rows = Append(@, RerankRow(lab.last, status, list, NextCase, lab.version))]

NoCandidates == lab.last = <<>> /\ Reranked("NO_CANDIDATES", <<>>)

Attempted == lab.last # <<>> /\ lab.attempts <= MaxRetries

\* Scores that came in time.  Scores that are not one for each candidate fall back.
Scored ==
  /\ Attempted
  /\ (\E order \in Orders(lab.last) : Reranked("RERANKED", order)) \/ Reranked("FALLBACK", lab.last)

NotScored == Attempted /\ lab' = [lab EXCEPT !.attempts = @ + 1]

FallsBack == lab.attempts > MaxRetries /\ Reranked("FALLBACK", lab.last)

ScoreOnce ==
  /\ lab.pc = "score"
  /\ NoCandidates \/ Scored \/ NotScored \/ FallsBack
  /\ UNCHANGED <<papers, pins>> /\ CountersUnchanged

RerankSummarized(rows) ==
  [missed    |-> Cardinality({i \in DOMAIN rows : ~rows[i].candidate}),
   fallbacks |-> Cardinality({i \in DOMAIN rows : rows[i].status = "FALLBACK"}),
   before    |-> Cardinality({i \in DOMAIN rows : rows[i].before > 0}),
   after     |-> Cardinality({i \in DOMAIN rows : rows[i].after > 0})]

PublishReranked ==
  /\ lab.pc = "rerank" /\ ~MoreCases
  /\ Writes(<<"summary">>, [summary |-> ConfigurationOf(lab, RerankSummarized(lab.rows))])
  /\ UNCHANGED <<papers, pins>> /\ CountersUnchanged

LabDies ==
  /\ lab.pc # "idle" /\ labFaults < MaxLabFaults
  /\ labFaults' = labFaults + 1
  /\ Ends
  /\ UNCHANGED <<papers, pins, projections, scriptRuns>>

LabNext ==
  \/ BeginProjection \/ ProjectCategories \/ ProjectRelations \/ WritePaper
  \/ \E name \in {"snapshot", "final"} : Pin(name)
  \/ BuildDraft \/ FillReview \/ FinalizeCases
  \/ \E kind \in {"search", "rerank"} : BeginEvaluation(kind)
  \/ SearchCase \/ RecordCase \/ PublishSearches \/ SearchForRerank \/ ScoreOnce \/ PublishReranked
  \/ LabDies

-----------------------------------------------------------------------------
(* What the evaluations promise.                                           *)
\* A published evaluation is one of the snapshot and the cases that were pinned:
\* each case asks for a product of the snapshot in the version searched, and a
\* person approved these very cases and held those that are not answerable.
EvaluationIsOfReviewed ==
  \A name \in {"result", "summary"} : Whole(name) =>
    LET paper == papers[name] IN
    /\ paper.version = pins.snapshot.version
    /\ \A i \in 1..CaseCount : /\ paper.cases[i].version = paper.version
                               /\ paper.cases[i].product \in DOMAIN pins.snapshot.rows
    /\ paper.review.decision = "APPROVE"
    /\ paper.cases = Reviewed(paper.review.cases, paper.review)

\* Every case has its row and is accounted for with each method, and no rate counts
\* a case that was held; the fusion is measured on cases on which both searches
\* returned something.
SearchesAreAccounted ==
  Whole("result") =>
    LET rows == papers["result"].rows IN
    /\ Len(rows) = CaseCount
    /\ \A i \in With(rows, "fused", "SUCCEEDED") : \A n \in {"bm25", "dense"} :
         rows[i][n].status = "SUCCEEDED" /\ ~rows[i][n].none
    /\ \A m \in Methods : LET s == papers["result"].summary[m] IN
         /\ s.attempted = CaseCount /\ s.succeeded + s.error + s.blocked = CaseCount
         /\ s.answerable + s.hold = s.succeeded
         /\ s.found <= s.answerable /\ s.found + s.none <= s.succeeded
         /\ m = "fused" => s.none = 0

\* The fused list has everything either search returned, once, by falling score and
\* rank; what is before another in both lists is before it there.
FusionIsComplete ==
  lab.pc = "search" /\ lab.last # <<>> =>
    LET a     == lab.last[1].list
        b     == lab.last[2].list
        fused == Fused(a, b)
        Ahead(list, p, q) == RankIn(list, p) # 0 /\ (RankIn(list, q) = 0 \/ RankIn(list, p) < RankIn(list, q)) IN
    /\ Entries(fused) = Entries(a) \union Entries(b)
    /\ \A i, j \in DOMAIN fused : i < j => fused[i] # fused[j] /\ FusedBefore(a, b, fused[i], fused[j])
    /\ \A p, q \in Entries(fused) : Ahead(a, p, q) /\ Ahead(b, p, q) => Ahead(fused, p, q)

\* Every case has its row; reranking moves evidence only within the candidates:
\* what was not among them is not found, and what falls back, after however many
\* attempts, is where it was.  So what is counted as gained or lost is at most
\* what did not fall back.
RerankingIsAccounted ==
  Whole("summary") =>
    /\ Len(papers["summary"].rows) = CaseCount
    /\ \A i \in DOMAIN papers["summary"].rows : LET row == papers["summary"].rows[i] IN
         /\ row.after > 0 => row.candidate
         /\ row.status = "FALLBACK" => row.after = row.before
    /\ LET s == papers["summary"].summary IN
         /\ s.after + s.missed <= CaseCount
         /\ s.after + s.fallbacks <= s.before + CaseCount
         /\ s.before + s.fallbacks <= s.after + CaseCount

EvaluationIsAccounted ==
  EvaluationIsOfReviewed /\ SearchesAreAccounted /\ FusionIsComplete /\ RerankingIsAccounted
=============================================================================
