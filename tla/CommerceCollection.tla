------------------------- MODULE CommerceCollection -------------------------
(***************************************************************************)
(* Order, refund and order-item collections over one protected root, in a  *)
(* server that serves each request on a thread and may die at any moment,  *)
(* and the commerce integrity report over what they leave behind.          *)
(***************************************************************************)
EXTENDS OrderItemCollection

ASSUME CommerceAssumption == {"orders", "refunds"} \subseteq Resources /\ "order_items" \notin Resources

commerceVars == <<batches, collectVars, itemVars, faults>>

PageBatches == [of : Resources, at : Positions, stage : Stages]
ItemBatches == [of : {"order_items"}, at : Orders, stage : Stages]

CommerceTypeOK ==
  /\ batches \in Seq(PageBatches \union ItemBatches)
  /\ CollectTypeOK
  /\ ItemTypeOK

CommerceInit ==
  /\ batches = <<>>
  /\ faults = 0
  /\ CollectInit
  /\ ItemInit

\* The process dies: every run is gone, the files stay as they are.
CommerceCrash ==
  /\ faults < MaxFaults
  /\ faults' = faults + 1
  /\ run' = [c \in Collectors |-> Idle]
  /\ itemRun' = [t \in ItemCollectors |-> Idle]
  /\ openAs' = [t \in ItemCollectors |-> "none"]
  /\ UNCHANGED <<batches, progress, again, index, tmp, unreadable, reports, itemRuns, overlapped>>

\* An order run starts at the beginning of its range, or where a run that did
\* not complete says the next one should; a refund run always at the beginning.
BeginOrders(c)  == \E from \in {First} \union ResumePoints("orders") : Begin(c, "orders", from)
BeginRefunds(c) == Begin(c, "refunds", First)

CollectStep(c) == BeginOrders(c) \/ BeginRefunds(c) \/ PageStep(c) \/ Finish(c, AtEnd(c)) \/ Fail(c)

CommerceNext ==
  \/ \E c \in Collectors : CollectStep(c) /\ UNCHANGED itemVars
  \/ \E t \in ItemCollectors : ItemStep(t) /\ UNCHANGED collectVars
  \/ CommerceCrash

CommerceSpec == CommerceInit /\ [][CommerceNext]_commerceVars

-----------------------------------------------------------------------------
\* The commerce integrity report.  The CSV export it compares with lists the
\* orders of the range and the items of those that the source still has.
AllOrders ==
  UNION {UNION {RecordsOn["orders"][w][p] : p \in 1 .. PagesIn["orders"][w]} : w \in 1 .. Windows["orders"]}

NoDuplicates(res, recordsOf(_)) ==
  \A i, j \in Canonical(batches, res) : i # j => recordsOf(batches[i]) \cap recordsOf(batches[j]) = {}

ItemOrders   == {batches[i].at : i \in Canonical(batches, "order_items")}
RefundOrders == UNION {Records(batches[i]) : i \in Canonical(batches, "refunds")}

ReportPasses ==
  /\ NoDuplicates("orders", Records)
  /\ NoDuplicates("order_items", LAMBDA b : {b.at})
  /\ ItemOrders \subseteq OrderIds
  /\ RefundOrders \subseteq OrderIds
  /\ AllOrders \subseteq OrderIds
  /\ AllOrders \ GoneOrders \subseteq ItemOrders
  /\ \A res \in Resources \union {"order_items"} : ~HasMissing(batches, res) /\ ~HasInvalid(batches, res)

\* The range was collected once, by runs that each took over where the last
\* one stopped, and an order-item run completed after it.
Clean == faults = 0 /\ ~overlapped /\ ~again

Collected ==
  /\ \A c \in Collectors : At(c, "idle")
  /\ \A t \in ItemCollectors : ItemsAt(t, "idle")
  /\ \E i \in DOMAIN progress : progress[i].of = "orders" /\ progress[i].status = "COMPLETED"
  /\ \E r \in reports : Completed(r) /\ r.ids = OrderIds

\* The runners and the integrity report agree: a collection that met rate
\* limits, stopped at limits and was resumed, but never failed or overlapped,
\* passes the report, with no order or item twice and no artifact left over.
CleanCollectionPasses == (Clean /\ Collected) => ReportPasses
=============================================================================
