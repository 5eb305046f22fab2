---------------------------- MODULE ReadBootstrap ----------------------------
(***************************************************************************)
(* Cafe24 reads that an operator starts: the endpoints that check the      *)
(* token in app.state and hand it to a transport which counts requests,    *)
(* the adapter's page reads, and the collectors that turn the pages of one *)
(* call into one batch under the protected root.  Endpoints run on threads *)
(* of a pool, next to the OAuth endpoints that replace the token and then  *)
(* its metadata.                                                           *)
(*                                                                         *)
(* The source is external.  Orders are listed newest first and come in     *)
(* while pages are read; a page of articles starts with the board's        *)
(* notices.  The offset of a page counts records of the list.  What a full *)
(* runner does with its pages is modelled in PageCollection and its        *)
(* neighbours; here only its requests appear.                              *)
(***************************************************************************)
EXTENDS Integers, Sequences, FiniteSets, SequencesExt

CONSTANTS
  Readers,        \* threads that serve the endpoints
  ReadCalls,      \* the calls they may serve: an endpoint and its argument
  Stamps,         \* instants a batch id can be stamped with
  Limits,         \* endpoint -> max_request_count of its transport
  PageSize,       \* Cafe24Adapter.PAGE_SIZE
  MaxReadPages,   \* pages of one list that a collector reads, but for the product probe
  ReadTries,      \* RetryPolicy.max_attempts
  SourceLists,         \* resource -> parent -> its records as the source lists them at first
  NoticesOf,      \* board -> the notices above its articles
  CommentBoards,  \* boards with comments
  MaxArrivals,    \* bound: orders that come in
  GrantScopes,    \* the scopes the provider may grant
  MaxGrants,      \* bound: tokens granted
  MaxReadCalls,   \* bound: calls
  MaxReadFaults,  \* bound: failed requests, failed writes and deaths
  NotThere,       \* model value: a file that does not exist
  TornFile        \* model value: a file that was opened and not filled

Top      == 0       \* the parent of a list that has none
NewOrder == 100     \* the first order that comes in
Every    == 0       \* no limit on the records taken
ProductBatchSize == 250  \* products whose variants a read bootstrap reads

ReadScopes == {"product", "order", "category", "community"}

ReadResources ==
  {"products", "variants", "variant_inventories", "category_product_relations", "categories", "orders",
   "order_items", "refunds", "boards", "articles", "article_comments"}

ReadEndpoints ==
  {"category-products/snapshot", "products/probe", "community/probe", "orders/probe", "categories/probe",
   "products/full", "read_bootstrap", "community/articles/full", "community/comments/full", "orders/full",
   "orders/items/full", "categories/full", "products/full/run", "refunds/full", "community/attachments/full",
   "smoke", "smoke-core"}

ASSUME ReadAssumption ==
  /\ PageSize \in Nat \ {0} /\ MaxReadPages \in Nat \ {0} /\ ReadTries \in Nat \ {0}
  /\ \A e \in DOMAIN Limits : Limits[e] \in Nat \ {0}
  /\ {MaxArrivals, MaxGrants, MaxReadCalls, MaxReadFaults} \subseteq Nat
  /\ ReadCalls \subseteq [of : ReadEndpoints, arg : Int]
  /\ DOMAIN SourceLists = ReadResources
  /\ \A res \in ReadResources : \A p \in DOMAIN SourceLists[res] : SourceLists[res][p] \in Seq(Nat)
  /\ \A b \in DOMAIN NoticesOf : NoticesOf[b] \in Seq(Nat)

VARIABLES
  grants,      \* the scopes of the tokens the server has taken
  held,        \* the token in app.state and the one its metadata came with; 0 is none
  storing,     \* the token whose metadata is still to be stored, or 0
  clearing,    \* /start has cleared the token and not yet its metadata
  expired,     \* the tokens up to this one are past their expiry
  arrivals,    \* orders that have come in
  reader,      \* what a call has in memory
  captures,    \* batch id -> what is stored under it
  served,       \* the calls so far
  readFaults

grantVars == <<grants, held, storing, clearing, expired>>
readVars  == <<grantVars, arrivals, reader, captures, served, readFaults>>

-----------------------------------------------------------------------------
(* Collectors read in stages: the lists of a resource under the first      *)
(* "take" records of each list of another one, and of each list all pages, *)
(* the first, or the only one.                                             *)
Stage(res, under, take, pages) == [of |-> res, under |-> under, take |-> take, pages |-> pages]
TopStage(res, pages)           == Stage(res, "none", Every, pages)

BootstrapStages ==
  << TopStage("products", "all"), Stage("variants", "products", ProductBatchSize, "all"),
     Stage("variant_inventories", "variants", Every, "only"), TopStage("categories", "all"),
     TopStage("orders", "all"), Stage("order_items", "orders", Every, "only"),
     TopStage("refunds", "all"), TopStage("boards", "all"),
     Stage("articles", "boards", Every, "all"), Stage("article_comments", "articles", Every, "all") >>

ProductStages(take) ==
  << TopStage("products", "first"), Stage("variants", "products", take, "all"),
     Stage("variant_inventories", "variants", Every, "only") >>

OrderStages(take) ==
  << TopStage("orders", "first"), Stage("order_items", "orders", take, "only"),
     TopStage("refunds", "first") >>

CommunityStages(ofBoards, ofArticles) ==
  << TopStage("boards", "first"), Stage("articles", "commented", ofBoards, "first"),
     Stage("article_comments", "articles", ofArticles, "first") >>

CategoryStages == << TopStage("categories", "first") >>

SnapshotStages == << Stage("category_product_relations", "argument", Every, "only") >>

-----------------------------------------------------------------------------
(* The endpoints: which argument they accept, the stages they read, what   *)
(* becomes of the pages, the offset of the first one, whether a batch is   *)
(* reserved and the token's expiry looked at, the scopes required and the  *)
(* pages read of one list.  A full run takes a transport for every batch;  *)
(* that of the attachments sends no token.  The read bootstrap has no      *)
(* endpoint in the repository; here one starts it as the others.  A        *)
(* negative argument stands for every one that is refused.                 *)
Aligned(offset) == offset >= 0 /\ offset % PageSize = 0

Collects(ok, stages, from) ==
  [ok |-> ok, stages |-> stages, from |-> from, keep |-> "batch", reserves |-> TRUE, expiry |-> TRUE,
   needs |-> ReadScopes, maxPages |-> MaxReadPages]
RunsFully(ok) ==
  [ok |-> ok, stages |-> <<>>, from |-> 0, keep |-> "runner", reserves |-> FALSE, expiry |-> TRUE,
   needs |-> ReadScopes, maxPages |-> MaxReadPages]
Looks(stages) ==
  [ok |-> TRUE, stages |-> stages, from |-> 0, keep |-> "nothing", reserves |-> FALSE, expiry |-> TRUE,
   needs |-> ReadScopes, maxPages |-> MaxReadPages]

CategoryProductsSnapshot(category) ==
  [Collects(category >= 1, SnapshotStages, 0) EXCEPT !.reserves = FALSE, !.needs = {"product"}]
ProductProbe                     == [Collects(TRUE, ProductStages(10), 0) EXCEPT !.maxPages = 1]
CommunityProbe                   == Collects(TRUE, CommunityStages(2, 3), 0)
OrderProbe                       == Collects(TRUE, OrderStages(3), 0)
CategoryProbe                    == Collects(TRUE, CategoryStages, 0)
ProductFull(offset)              == Collects(Aligned(offset), ProductStages(PageSize), offset)
WholeBootstrap                   == Collects(TRUE, BootstrapStages, 0)
CommunityArticlesFullRun(offset) == RunsFully(Aligned(offset))
CommunityCommentsFullRun         == RunsFully(TRUE)
OrdersFullRun(days)              == RunsFully(days >= 0)
OrderItemsFullRun                == RunsFully(TRUE)
CategoryFullRun(offset)          == RunsFully(Aligned(offset))
ProductFullRun(offset)           == RunsFully(Aligned(offset))
RefundsFullRun                   == RunsFully(TRUE)
AttachmentsFullRun               == Looks(<<>>)
LiveReadSmoke ==
  Looks(<< TopStage("products", "first"), TopStage("orders", "first"),
           TopStage("categories", "first"), TopStage("boards", "first") >>)
LiveReadCoreSmoke ==
  [Looks(<< TopStage("products", "first"), TopStage("orders", "first") >>)
   EXCEPT !.expiry = FALSE, !.needs = {"product", "order"}]

Endpoint(call) ==
  CASE call.of = "category-products/snapshot" -> CategoryProductsSnapshot(call.arg)
    [] call.of = "products/probe"             -> ProductProbe
    [] call.of = "community/probe"            -> CommunityProbe
    [] call.of = "orders/probe"               -> OrderProbe
    [] call.of = "categories/probe"           -> CategoryProbe
    [] call.of = "products/full"              -> ProductFull(call.arg)
    [] call.of = "read_bootstrap"             -> WholeBootstrap
    [] call.of = "community/articles/full"    -> CommunityArticlesFullRun(call.arg)
    [] call.of = "community/comments/full"    -> CommunityCommentsFullRun
    [] call.of = "orders/full"                -> OrdersFullRun(call.arg)
    [] call.of = "orders/items/full"          -> OrderItemsFullRun
    [] call.of = "categories/full"            -> CategoryFullRun(call.arg)
    [] call.of = "products/full/run"          -> ProductFullRun(call.arg)
    [] call.of = "refunds/full"               -> RefundsFullRun
    [] call.of = "community/attachments/full" -> AttachmentsFullRun
    [] call.of = "smoke"                      -> LiveReadSmoke
    [] call.of = "smoke-core"                 -> LiveReadCoreSmoke

\* The batch a call writes; /products/full has its offset in the name.
BatchId(call, at) == [of |-> call.of, arg |-> IF call.of = "products/full" THEN call.arg ELSE 0, at |-> at]
BatchIds          == {BatchId(c, at) : c \in ReadCalls, at \in Stamps}

-----------------------------------------------------------------------------
(* The pages of the source through the adapter.  A list has more when the  *)
(* page is full; the pages of articles and comments can be overfull.       *)
Arrived(k) == [i \in 1 .. k |-> NewOrder + k - i]
ListOf(res, parent, k) ==
  (IF res = "orders" THEN Arrived(k) ELSE <<>>)
    \o (IF parent \in DOMAIN SourceLists[res] THEN SourceLists[res][parent] ELSE <<>>)

Notices(board) == IF board \in DOMAIN NoticesOf THEN NoticesOf[board] ELSE <<>>

PageAt(list, offset) == SubSeq(list, offset + 1, Min({offset + PageSize, Len(list)}))
FullPage(ids)  == [ids |-> ids, more |-> Len(ids) = PageSize]
OverPage(ids)  == [ids |-> ids, more |-> Len(ids) >= PageSize]
WholeList(ids) == [ids |-> ids, more |-> FALSE]

\* Mutant: a page of articles has more only if it is exactly full.
ReadArticlesAsOthers(board, offset) ==
  FullPage((IF offset = 0 THEN Notices(board) ELSE <<>>) \o PageAt(ListOf("articles", board, 0), offset))

ReadProducts(offset)                 == FullPage(PageAt(ListOf("products", Top, 0), offset))
ReadVariants(product, offset)        == FullPage(PageAt(ListOf("variants", product, 0), offset))
ReadVariantInventory(variant)        == FullPage(ListOf("variant_inventories", variant, 0))
ReadCategories(offset)               == FullPage(PageAt(ListOf("categories", Top, 0), offset))
ReadCategoryProducts(category)       == WholeList(ListOf("category_product_relations", category, 0))
ReadOrders(offset)                   == FullPage(PageAt(ListOf("orders", Top, arrivals), offset))
ReadOrderItems(order)                == WholeList(ListOf("order_items", order, 0))
ReadRefunds(offset)                  == FullPage(PageAt(ListOf("refunds", Top, 0), offset))
ReadBoards(offset)                   == FullPage(PageAt(ListOf("boards", Top, 0), offset))

ReadArticles(board, offset) ==
  OverPage((IF offset = 0 THEN Notices(board) ELSE <<>>) \o PageAt(ListOf("articles", board, 0), offset))

ReadArticleComments(article, offset) == OverPage(PageAt(ListOf("article_comments", article, 0), offset))

PageOf(res, parent, offset) ==
  CASE res = "products"                   -> ReadProducts(offset)
    [] res = "variants"                   -> ReadVariants(parent, offset)
    [] res = "variant_inventories"        -> ReadVariantInventory(parent)
    [] res = "categories"                 -> ReadCategories(offset)
    [] res = "category_product_relations" -> ReadCategoryProducts(parent)
    [] res = "orders"                     -> ReadOrders(offset)
    [] res = "order_items"                -> ReadOrderItems(parent)
    [] res = "refunds"                    -> ReadRefunds(offset)
    [] res = "boards"                     -> ReadBoards(offset)
    [] res = "articles"                   -> ReadArticles(parent, offset)
    [] res = "article_comments"           -> ReadArticleComments(parent, offset)

ScopeOf(res) ==
  CASE res \in {"products", "variants", "variant_inventories", "category_product_relations"} -> "product"
    [] res = "categories"                              -> "category"
    [] res \in {"orders", "order_items", "refunds"}    -> "order"
    [] res \in {"boards", "articles", "article_comments"} -> "community"

\* validate_read_scope.
ValidScope(granted, required) == granted # {} /\ granted \subseteq ReadScopes /\ required \subseteq granted

-----------------------------------------------------------------------------
(* What a call has in memory: the token it read, the scopes of the metadata*)
(* it read, what its transport has sent, the stage, the lists of the stage *)
(* that are left, the offset and pages of the first of them, its tries,    *)
(* the pages it has captured, and the exports it has written.              *)
NotServing    == [pc |-> "idle"]
NoCapture == [reserved |-> FALSE, since |-> 0, pages |-> <<>>, exports |-> <<>>, manifest |-> NotThere]

ReaderAt(r, pc)      == reader[r].pc = pc
Leave(r)       == reader' = [reader EXCEPT ![r] = NotServing]
Becomes(r, v)  == reader' = [reader EXCEPT ![r] = v]
Of(r)          == Endpoint(reader[r].call)
Batch(r)       == BatchId(reader[r].call, reader[r].at)
KeptAs(b)      == IF b \in DOMAIN captures THEN captures[b] ELSE NoCapture
Kept(r)        == KeptAs(Batch(r))
Keep(r, kept)  == captures' = [b \in DOMAIN captures \union {Batch(r)} |->
                                 IF b = Batch(r) THEN kept ELSE captures[b]]

IdsUnder(ids, parent) == [i \in DOMAIN ids |-> [under |-> parent, id |-> ids[i]]]
RecordsOf(pages, res) ==
  FlattenSeq([i \in DOMAIN pages |-> IF pages[i].of = res THEN IdsUnder(pages[i].ids, pages[i].under) ELSE <<>>])

\* The first "take" of the records under each parent.
Among(records, take, i) ==
  take = Every \/ Cardinality({j \in 1 .. i : records[j].under = records[i].under}) <= take
FirstOfEach(records, take) ==
  FlattenSeq([i \in DOMAIN records |-> IF Among(records, take, i) THEN <<records[i]>> ELSE <<>>])

Parents(call, stage, pages) ==
  LET chosen(records) == LET first == FirstOfEach(records, stage.take) IN
                         [i \in DOMAIN first |-> first[i].id] IN
  CASE stage.under = "none"      -> <<Top>>
    [] stage.under = "argument"  -> <<call.arg>>
    [] stage.under = "commented" ->
         chosen(SelectSeq(RecordsOf(pages, "boards"), LAMBDA x : x.id \in CommentBoards))
    [] OTHER                     -> chosen(RecordsOf(pages, stage.under))

\* The next stage with lists to read, with them; or the end of the reads.
ToStage(run, n) ==
  LET stages == Endpoint(run.call).stages
      ready  == {j \in n .. Len(stages) : Parents(run.call, stages[j], run.pages) # <<>>} IN
  IF ready = {} THEN [run EXCEPT !.stage = Len(stages) + 1, !.left = <<>>]
  ELSE LET j == CHOOSE x \in ready : \A y \in ready : x <= y IN
       [run EXCEPT !.stage = j, !.left = Parents(run.call, stages[j], run.pages),
                   !.offset = IF j = 1 THEN Endpoint(run.call).from ELSE 0, !.nr = 0, !.tries = 0]

StartRun(r, at) ==
  ToStage([pc |-> CASE Of(r).keep = "batch" -> "check" [] Of(r).keep = "runner" -> "runner" [] OTHER -> "read",
           call |-> reader[r].call, token |-> reader[r].token, scopes |-> grants[held.meta],
           at |-> at, since |-> arrivals, by |-> reader[r].by, sent |-> 0, pages |-> <<>>,
           stage |-> 1, left |-> <<>>, offset |-> 0, nr |-> 0, tries |-> 0, exported |-> 0], 1)

-----------------------------------------------------------------------------
ReadInit ==
  /\ grants = <<>> /\ held = [token |-> 0, meta |-> 0]
  /\ storing = 0 /\ clearing = FALSE /\ expired = 0
  /\ arrivals = 0
  /\ reader = [r \in Readers |-> NotServing]
  /\ captures = <<>>
  /\ served = <<>>
  /\ readFaults = 0

\* Mutant: the scopes are looked at when they are stored.
TakeAnyGrant(scopes) ==
  /\ storing = 0 /\ Len(grants) < MaxGrants
  /\ grants' = Append(grants, scopes)
  /\ storing' = Len(grants')
  /\ held' = [held EXCEPT !.token = Len(grants')]
  /\ UNCHANGED <<clearing, expired>>

\* _store_oauth_token_metadata: scopes other than the required ones are
\* refused; then the token is stored, and after it what was granted with it.
TakeGrant(scopes) ==
  /\ storing = 0 /\ Len(grants) < MaxGrants
  /\ scopes = ReadScopes
  /\ grants' = Append(grants, scopes)
  /\ storing' = Len(grants')
  /\ held' = [held EXCEPT !.token = Len(grants')]
  /\ UNCHANGED <<clearing, expired>>

StoreGrantMeta ==
  /\ storing # 0
  /\ held' = [held EXCEPT !.meta = storing]
  /\ storing' = 0
  /\ UNCHANGED <<grants, clearing, expired>>

\* /start forgets the token, and then its metadata.
ForgetToken ==
  /\ ~clearing /\ held.token # 0
  /\ held' = [held EXCEPT !.token = 0]
  /\ clearing' = TRUE
  /\ UNCHANGED <<grants, storing, expired>>

ForgetMeta ==
  /\ clearing
  /\ held' = [held EXCEPT !.meta = 0]
  /\ clearing' = FALSE
  /\ UNCHANGED <<grants, storing, expired>>

Expires ==
  /\ expired < Len(grants)
  /\ expired' = expired + 1
  /\ UNCHANGED <<grants, held, storing, clearing>>

GrantStep ==
  /\ (\E scopes \in GrantScopes : TakeGrant(scopes)) \/ StoreGrantMeta \/ ForgetToken \/ ForgetMeta \/ Expires
  /\ UNCHANGED <<arrivals, reader, captures, served, readFaults>>

OrderArrives ==
  /\ arrivals < MaxArrivals
  /\ arrivals' = arrivals + 1
  /\ UNCHANGED <<grantVars, reader, captures, served, readFaults>>

-----------------------------------------------------------------------------
\* An endpoint reads the token, then what came with it.
CallEndpoint(r, call) ==
  /\ ReaderAt(r, "idle") /\ Len(served) < MaxReadCalls
  /\ served' = Append(served, call)
  /\ Becomes(r, [pc |-> "gate", call |-> call, token |-> held.token, by |-> Len(served')])
  /\ UNCHANGED <<grantVars, arrivals, captures, readFaults>>

Passes(r) ==
  /\ Of(r).ok
  /\ reader[r].token # 0 /\ held.meta # 0
  /\ ValidScope(grants[held.meta], Of(r).needs)
  /\ Of(r).expiry => held.meta > expired

\* The mall, the scopes and the expiry, which the code reads one after the other,
\* are read at once, as they are stored at once; the token was read before them.
Gate(r, at) ==
  /\ ReaderAt(r, "gate")
  /\ IF Passes(r) THEN Becomes(r, StartRun(r, at)) ELSE Leave(r)
  /\ UNCHANGED <<grantVars, arrivals, captures, served, readFaults>>

\* The tests before a batch is written, and the directory that reserves it.
BatchExists(b) ==
  KeptAs(b).reserved \/ KeptAs(b).pages # <<>> \/ KeptAs(b).manifest # NotThere \/ KeptAs(b).exports # <<>>

CheckBatch(r) ==
  /\ ReaderAt(r, "check")
  /\ IF BatchExists(Batch(r)) THEN Leave(r)
     ELSE Becomes(r, [reader[r] EXCEPT !.pc = IF Of(r).reserves THEN "reserve" ELSE "read"])
  /\ UNCHANGED <<grantVars, arrivals, captures, served, readFaults>>

ReserveBatch(r) ==
  /\ ReaderAt(r, "reserve")
  /\ IF Kept(r).reserved
     THEN Leave(r) /\ UNCHANGED captures
     ELSE /\ Keep(r, [Kept(r) EXCEPT !.reserved = TRUE, !.since = reader[r].since])
          /\ Becomes(r, [reader[r] EXCEPT !.pc = "read"])
  /\ UNCHANGED <<grantVars, arrivals, served, readFaults>>

-----------------------------------------------------------------------------
StageOf(r)    == Of(r).stages[reader[r].stage]
Reading(r)    == ReaderAt(r, "read") /\ reader[r].stage <= Len(Of(r).stages)
MaySend(r)    == reader[r].sent < Limits[reader[r].call.of] /\ ValidScope(reader[r].scopes, {ScopeOf(StageOf(r).of)})

\* The page's file; two pages of one resource have one name when their
\* numbers are equal, and the file is created exclusively.
RawTaken(r, nr) == \E i \in DOMAIN Kept(r).pages : Kept(r).pages[i].no = nr /\ Kept(r).pages[i].of = StageOf(r).of

\* After a page: the next one of the list, the next list, the next stage.  A
\* list with more pages than a collector reads fails the batch, and so does
\* one that should have a single page.
PagesOver(r, page) ==
  \/ StageOf(r).pages = "only" /\ page.more
  \/ StageOf(r).pages = "all" /\ page.more /\ reader[r].nr + 1 >= Of(r).maxPages

AfterPage(r, page, run) ==
  IF StageOf(r).pages = "all" /\ page.more
  THEN [run EXCEPT !.offset = @ + PageSize, !.nr = @ + 1, !.tries = 0]
  ELSE IF Len(run.left) > 1 THEN [run EXCEPT !.left = Tail(@), !.offset = 0, !.nr = 0, !.tries = 0]
  ELSE ToStage(run, run.stage + 1)

ReadListPage(r) ==
  /\ Reading(r)
  /\ LET res   == StageOf(r).of
         under == Head(reader[r].left)
         page  == PageOf(res, under, reader[r].offset)
         no    == Len(reader[r].pages) + 1
         raw   == [no |-> no, of |-> res, under |-> under, offset |-> reader[r].offset,
                   ids |-> page.ids, by |-> reader[r].by]
         run   == [reader[r] EXCEPT !.sent = @ + 1, !.pages = Append(@, raw)]
         keep  == Of(r).keep = "batch" IN
     /\ IF ~MaySend(r) \/ (keep /\ RawTaken(r, no)) \/ PagesOver(r, page)
        THEN Leave(r) ELSE Becomes(r, AfterPage(r, page, run))
     /\ IF keep /\ MaySend(r) /\ ~RawTaken(r, no)
        THEN Keep(r, [Kept(r) EXCEPT !.pages = Append(@, raw)])
        ELSE UNCHANGED captures
  /\ UNCHANGED <<grantVars, arrivals, served, readFaults>>

\* A failed request counts; ProviderSyncRunner repeats it when the failure is
\* transient, other reads fail at once.
RequestFails(r) ==
  /\ Reading(r) /\ MaySend(r)
  /\ readFaults < MaxReadFaults /\ readFaults' = readFaults + 1
  /\ \/ /\ StageOf(r).pages = "all" /\ reader[r].tries + 1 < ReadTries
        /\ Becomes(r, [reader[r] EXCEPT !.sent = @ + 1, !.tries = @ + 1])
     \/ Leave(r)
  /\ UNCHANGED <<grantVars, arrivals, captures, served>>

\* A full run sends requests and takes a transport for every batch.
RunnerSends(r) ==
  /\ ReaderAt(r, "runner") /\ reader[r].sent < Limits[reader[r].call.of]
  /\ Becomes(r, [reader[r] EXCEPT !.sent = @ + 1])
  /\ UNCHANGED <<grantVars, arrivals, captures, served, readFaults>>

RunnerTakesTransport(r) ==
  /\ ReaderAt(r, "runner") /\ reader[r].sent > 0
  /\ Becomes(r, [reader[r] EXCEPT !.sent = 0])
  /\ UNCHANGED <<grantVars, arrivals, captures, served, readFaults>>

\* A full run or a smoke test answers.
EndsReads(r) ==
  /\ ReaderAt(r, "runner") \/ (ReaderAt(r, "read") /\ ~Reading(r) /\ Of(r).keep = "nothing")
  /\ Leave(r)
  /\ UNCHANGED <<grantVars, arrivals, captures, served, readFaults>>

-----------------------------------------------------------------------------
\* The resources a read bootstrap and a product batch must have seen.
Evident(call) ==
  CASE call.of = "read_bootstrap" -> {"products", "orders", "categories", "refunds", "boards"}
    [] call.of \in {"products/probe", "products/full"} -> {"products"}
    [] OTHER -> {}
SeenResources(r) == {reader[r].pages[i].of : i \in DOMAIN reader[r].pages}

PagesTaken(r)   == ReaderAt(r, "read") /\ ~Reading(r) /\ Of(r).keep = "batch"
NextExport(r)  == Of(r).stages[reader[r].exported + 1].of
Exporting(r)   == PagesTaken(r) /\ reader[r].exported < Len(Of(r).stages)
Manifesting(r) == PagesTaken(r) /\ reader[r].exported = Len(Of(r).stages)

WithExport(r, content) ==
  [Kept(r) EXCEPT !.exports = [res \in DOMAIN @ \union {NextExport(r)} |->
                                 IF res = NextExport(r) THEN content ELSE @[res]]]

\* One sanitized export of every resource, each created exclusively.
WriteExport(r) ==
  /\ Exporting(r)
  /\ IF ~(Evident(reader[r].call) \subseteq SeenResources(r)) \/ NextExport(r) \in DOMAIN Kept(r).exports
     THEN Leave(r) /\ UNCHANGED captures
     ELSE /\ Keep(r, WithExport(r, RecordsOf(reader[r].pages, NextExport(r))))
          /\ Becomes(r, [reader[r] EXCEPT !.exported = @ + 1])
  /\ UNCHANGED <<grantVars, arrivals, served, readFaults>>

\* The manifest, with an entry for every page the call has captured.
WriteBatchManifest(r) ==
  /\ Manifesting(r)
  /\ IF Kept(r).manifest # NotThere THEN UNCHANGED captures
     ELSE Keep(r, [Kept(r) EXCEPT !.manifest = {reader[r].pages[i].no : i \in DOMAIN reader[r].pages}])
  /\ Leave(r)
  /\ UNCHANGED <<grantVars, arrivals, served, readFaults>>

\* A write of an export or of the manifest fails, or the server dies in it,
\* after the file was opened.
WriteFails(r) ==
  /\ readFaults < MaxReadFaults /\ readFaults' = readFaults + 1
  /\ \/ Exporting(r) /\ NextExport(r) \notin DOMAIN Kept(r).exports /\ Keep(r, WithExport(r, TornFile))
     \/ Manifesting(r) /\ Kept(r).manifest = NotThere /\ Keep(r, [Kept(r) EXCEPT !.manifest = TornFile])
  /\ Leave(r)
  /\ UNCHANGED <<grantVars, arrivals, served>>

\* The server dies; app.state is gone, the files stay.
ServerDies ==
  /\ readFaults < MaxReadFaults /\ readFaults' = readFaults + 1
  /\ \E r \in Readers : ~ReaderAt(r, "idle")
  /\ reader' = [r \in Readers |-> NotServing]
  /\ held' = [token |-> 0, meta |-> 0] /\ storing' = 0 /\ clearing' = FALSE
  /\ UNCHANGED <<grants, expired, arrivals, captures, served>>

ReadStep(r) ==
  \/ \E call \in ReadCalls : CallEndpoint(r, call)
  \/ \E at \in Stamps : Gate(r, at)
  \/ CheckBatch(r) \/ ReserveBatch(r) \/ ReadListPage(r) \/ RequestFails(r)
  \/ RunnerSends(r) \/ RunnerTakesTransport(r) \/ EndsReads(r)
  \/ WriteExport(r) \/ WriteBatchManifest(r) \/ WriteFails(r)

ReadNext == GrantStep \/ OrderArrives \/ ServerDies \/ \E r \in Readers : ReadStep(r)

ReadSpec == ReadInit /\ [][ReadNext]_readVars

-----------------------------------------------------------------------------
ReadPcs == {"idle", "gate", "check", "reserve", "read", "runner"}

ReadTypeOK ==
  /\ grants \in Seq(SUBSET ReadScopes) /\ held \in [token : 0 .. MaxGrants, meta : 0 .. MaxGrants]
  /\ storing \in 0 .. MaxGrants /\ clearing \in BOOLEAN /\ expired \in 0 .. MaxGrants
  /\ arrivals \in 0 .. MaxArrivals /\ readFaults \in 0 .. MaxReadFaults
  /\ served \in Seq(ReadCalls) /\ Len(served) <= MaxReadCalls
  /\ DOMAIN captures \subseteq BatchIds
  /\ \A r \in Readers : reader[r].pc \in ReadPcs
  /\ \A r \in Readers : reader[r].pc \in {"check", "reserve", "read", "runner"} =>
       /\ reader[r].token \in 1 .. Len(grants)
       /\ reader[r].sent \in 0 .. Limits[reader[r].call.of]
       /\ (reader[r].pc = "read" /\ reader[r].stage <= Len(Of(r).stages)) => reader[r].left # <<>>

-----------------------------------------------------------------------------
ManifestOf(b) == captures[b].manifest
HasManifest(b) == ManifestOf(b) \notin {NotThere, TornFile}
ExportedIds(b, res, parent) ==
  {captures[b].exports[res][i].id : i \in {j \in DOMAIN captures[b].exports[res] :
                                              captures[b].exports[res][j].under = parent}}
\* What the lists of a stage are listed under; of the products, those that are taken.
ParentsKept(b, s) ==
  IF s.under = "none" THEN {Top}
  ELSE {captures[b].exports[s.under][i].id :
          i \in {j \in DOMAIN captures[b].exports[s.under] : s.take = Every \/ j <= s.take}}
ListedThen(b, res, parent) == ToSet(ListOf(res, parent, captures[b].since))

\* A batch with a whole manifest is whole: one call wrote all of its pages,
\* whoever else had the same id, the manifest has them all, every export is
\* there and holds the records of its resource's pages; and a read bootstrap
\* has every record the source listed when it began, the variants of the products
\* it takes, although pages were read one after the other, orders came in
\* meanwhile and notices overfill pages.
ManifestIsWhole ==
  \A b \in DOMAIN captures : HasManifest(b) =>
    LET kept   == captures[b]
        stages == Endpoint([of |-> b.of, arg |-> b.arg]).stages
        named  == {stages[i].of : i \in DOMAIN stages} IN
    /\ \A i, j \in DOMAIN kept.pages : kept.pages[i].by = kept.pages[j].by
    /\ kept.manifest = {kept.pages[i].no : i \in DOMAIN kept.pages}
    /\ named = DOMAIN kept.exports
    /\ \A res \in named : kept.exports[res] = RecordsOf(kept.pages, res)
    /\ b.of = "read_bootstrap" =>
         \A s \in ToSet(stages) : \A p \in ParentsKept(b, s) :
           ListedThen(b, s.of, p) \subseteq ExportedIds(b, s.of, p)

\* Whatever /start, /callback and expiry do between a call's reads of the
\* token and of its metadata, a call that has sent a request uses a token
\* that was granted the four read scopes and nothing else.
ReadsStayWithinGrant ==
  \A r \in Readers : (reader[r].pc \in {"read", "runner"} /\ reader[r].sent > 0) =>
    grants[reader[r].token] = ReadScopes
=============================================================================
