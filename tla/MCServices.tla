----------------------------- MODULE MCServices -----------------------------
(***************************************************************************)
(* Small instances: three workers in two processes; two windows of orders  *)
(* with a page each, two orders, one of which the source has no items for, *)
(* an empty page of refunds; products on two pages, categories             *)
(* on one, articles on two boards; two URLs in two articles; two requests  *)
(* about the token; two forms of one task; two boards with a task and a    *)
(* reservation that wait for a delivery and a launch that does not; an     *)
(* object with two versions of its mapping; three order lines and two      *)
(* deliveries, each of one of the kinds the calculation tells apart; an    *)
(* explanation and a search over corpora with two rows of one document,    *)
(* two versions of one source, or evidence dated in the future; two        *)
(* readers and a source with lists of one to two pages.                    *)
(***************************************************************************)
EXTENDS Services, TLC

CONSTANTS w1, w2, w3, p1, p2, q1, q2

MCProcessOf == (w1 :> p1) @@ (w2 :> p1) @@ (w3 :> p2)

Dated == {"orders", "articles"}

MCWindows == [res \in Resources |-> IF res \in Dated THEN 2 ELSE 1]
MCPagesIn == [res \in Resources |-> CASE res = "orders"     -> <<1, 1>>
                                      [] res = "products"   -> <<2>>
                                      [] res = "articles"   -> <<1, 1>>
                                      [] OTHER              -> <<1>>]
MCRecordsOn == [res \in Resources |-> CASE res = "orders"     -> << <<{1}>>, <<{2}>> >>
                                        [] res = "refunds"    -> << <<{}>> >>
                                        [] res = "products"   -> << <<{1}, {2}>> >>
                                        [] res = "categories" -> << <<{1}>> >>
                                        [] OTHER              -> << <<{1}>>, <<{2}>> >>]
MCMaxRecords == [res \in Resources |-> IF res \in {"orders", "refunds"} THEN 1 ELSE 2]
MCAttachedTo == [o \in Orders |-> IF o = 3 THEN {} ELSE {o}]

MCCommentPages == <<2, 1, 2>>
MCSeeds == <<1, 2>>

MCTypeOf == (1 :> "TASK") @@ (2 :> "RESERVATION") @@ (3 :> "LAUNCH_EVENT")
MCBoards == {<<600, 900, 1200>>, <<600, 900, 1290>>}

\* Later by less than an hour, later, earlier, without a date, held back.
Change(before, after, blocked) == [before |-> before, after |-> after, blocked |-> blocked]
MCChanges == {Change(0, 59, FALSE), Change(480, 630, FALSE), Change(480, 420, FALSE),
              Change(NoDate, 630, FALSE), Change(480, 630, TRUE)}

\* An impact that names nothing and moves what does not wait, and one that names
\* more than it moves.
MCSentImpacts == {[path |-> (3 :> 1290), named |-> {}], [path |-> (1 :> 600), named |-> {1, 2}]}

\* Sold, of unknown quantity, partly cancelled with and without what is left, of
\* unknown status, shipped, cancelled, of another product, not eligible.
Line(product, quantity, shipping, canceled, remaining) ==
  [product |-> product, sku |-> product, quantity |-> quantity, shipping |-> shipping,
   canceled |-> canceled, remaining |-> remaining]
MCLineKinds ==
  {Line(1, 2, "F", "F", Unknown), Line(1, Unknown, "F", "F", Unknown), Line(1, 3, "F", "M", 1),
   Line(1, 3, "F", "M", Unknown), Line(1, 3, "W", "F", 1), Line(1, 2, "T", "F", Unknown),
   Line(1, 2, "F", "T", 2), Line(2, 1, "F", "F", Unknown), Line(3, 1, "F", "F", Unknown)}

MCSecuredQtys == {0, 1, Unknown}

Delivery(confirmation, quality, freshness, quantity) ==
  [confirmation |-> confirmation, quality |-> quality, freshness |-> freshness, quantity |-> quantity]
MCDeliveryKinds ==
  {Delivery("CONFIRMED", "CONFIRMED", "FRESH", 1), Delivery("CONFIRMED", "CONFIRMED", "FRESH", Unknown),
   Delivery("TENTATIVE", "CONFIRMED", "FRESH", 2), Delivery("CONFIRMED", "BLOCKED", "FRESH", 2),
   Delivery("CONFIRMED", "CONFIRMED", "STALE", Unknown), Delivery("TENTATIVE", "BLOCKED", "UNKNOWN", Unknown)}

Row(chunk, source, version, type, asOf, says, plain) ==
  [chunk |-> chunk, source |-> source, version |-> version, type |-> type, asOf |-> asOf,
   stale |-> FALSE, says |-> says, plain |-> plain]
Runtime(ready, method, corpus, credential) ==
  [ready |-> ready, method |-> method, rows |-> corpus, credential |-> credential]
Coming   == Row(3, 2, 1, "INCOMING_STOCK", 0, {"tentative"}, TRUE)
Shipping == Row(1, 1, 1, "POLICY", NoTime, {"shipping"}, TRUE)
Corpora ==
  {{Shipping, Row(2, 1, 1, "POLICY", NoTime, {}, TRUE), Coming},
   {Shipping, Row(2, 1, 2, "POLICY", NoTime, {}, TRUE), Coming},
   {Row(1, 1, 1, "POLICY", 1, {"shipping", "shortage"}, TRUE), Row(2, 1, 1, "POLICY", 1, {"shortage"}, FALSE),
    Row(4, 4, 1, "INVENTORY_SNAPSHOT", 1, {}, TRUE)}}
MCDeployments ==
  {Runtime(TRUE, "BM25", corpus, TRUE) : corpus \in Corpora}
    \union {Runtime(FALSE, "BM25", {}, TRUE), Runtime(TRUE, "VECTOR", {Shipping}, TRUE),
            Runtime(TRUE, "BM25", {Shipping}, FALSE)}
Inquiry(kind, claim, wants, cite) == [kind |-> kind, claim |-> claim, wants |-> wants, cite |-> cite]
MCAskedBy ==
  (q1 :> {Inquiry("explain", claim, "any", TRUE) : claim \in Claims}
           \union {Inquiry("explain", "READINESS", "any", FALSE)})
    @@ (q2 :> {Inquiry("search", "OTHER", wants, FALSE) : wants \in {"any", "INVENTORY_SNAPSHOT"}})
MCTimeToLive == [type \in LiveTypes |-> 1]

\* Lists over one page and under; a board whose first page is overfull; an order
\* that comes in; the requests of each endpoint, as many as the code allows at
\* the size of these lists.
MCLists ==
  [products |-> (0 :> <<1, 2, 3>>), variants |-> (1 :> <<11>>) @@ (2 :> <<21>>),
   variant_inventories |-> (11 :> <<11>>) @@ (21 :> <<21>>), categories |-> (0 :> <<5>>),
   category_product_relations |-> (5 :> <<1, 2, 3>>), orders |-> (0 :> <<31, 32>>),
   order_items |-> (31 :> <<1, 2>>) @@ (100 :> <<3>>), refunds |-> (0 :> <<>>), boards |-> (0 :> <<6, 7>>),
   articles |-> (6 :> <<61, 62, 63>>), article_comments |-> (61 :> <<8>>)]
MCNotices == (6 :> <<60>>) @@ (7 :> <<>>)

CallOf(of, arg) == [of |-> of, arg |-> arg]
MCReadCalls ==
  {CallOf("category-products/snapshot", n) : n \in {-1, 5}} \union {CallOf("products/full", n) : n \in {-1, 0, 2}}
    \union {CallOf(of, 0) : of \in {"products/probe", "community/probe", "orders/probe", "categories/probe",
                                  "read_bootstrap", "community/articles/full", "community/comments/full",
                                  "community/attachments/full", "orders/full", "orders/items/full",
                                  "categories/full", "products/full/run", "refunds/full", "smoke", "smoke-core"}}
MCLimits ==
  [of \in {c.of : c \in MCReadCalls} |->
     CASE of = "read_bootstrap" -> 30
       [] of \in {"products/full", "community/probe"} -> 6
       [] of = "orders/probe" -> 5
       [] of \in {"products/probe", "smoke"} -> 4
       [] of = "smoke-core" -> 2
       [] OTHER -> 1]

MCMaxRunsOf   == [f \in Foci |-> CASE f = "catalog" -> 3 [] f = "community" -> 1 [] OTHER -> 2]
MCMaxFaultsOf == [f \in Foci |-> 1]

\* Threads of order-item collections and of downloads are interchangeable.
\* (Workers and token threads are too, but their instances are small and every
\* permutation costs time on all states.)
Symmetry == Permutations(ItemCollectors) \union Permutations(Downloaders)
=============================================================================
