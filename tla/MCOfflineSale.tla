--------------------------- MODULE MCOfflineSale ---------------------------
(***************************************************************************)
(* Small instances of OfflineSale.  Two threads serve events about one or  *)
(* two SKUs; the events are chosen so that each kind of clash occurs.      *)
(***************************************************************************)
EXTENDS OfflineSale, TLC

CONSTANTS t1, t2, home, other, skuA, skuB, key1, key2, key3,
          idA, idB, idC, idD, idE

MCTenants == {home, other}
MCSkus    == {skuA, skuB}
MCKeys    == {key1, key2, key3}
MCIdents  == {idA, idB, idC, idD, idE}
MCCutoff  == 1

Sale(id, ident, tenant, key, sku, quantity, at) ==
  [id |-> id, ident |-> ident, sale |-> TRUE, tenant |-> tenant, key |-> key,
   fact |-> [sku |-> sku, quantity |-> quantity, occurredAt |-> at]]

\* A POS sale, the same business fact from another source, a colliding fact
\* under the same key, and another sale that reuses the first event's id; sales
\* that reuse it for another SKU and for another tenant, which the ledger takes.
first     == Sale(idA, idA, home, key1, skuA, 1, 2)
sameFact  == Sale(idB, idB, home, key1, skuA, 1, 2)
collision == Sale(idC, idC, home, key1, skuA, 2, 2)
reusedId  == Sale(idA, idD, home, key2, skuA, 1, 2)
reusedSku == Sale(idA, idB, home, key3, skuB, 2, 2)
foreignId == Sale(idA, idE, other, key1, skuB, 1, 2)
\* Another sale of the same SKU, two of another SKU, one before the cut-off,
\* and a sale of another tenant.
second    == Sale(idB, idB, home, key2, skuA, 1, 3)
secondSku == Sale(idB, idB, home, key2, skuB, 1, 2)
thirdSku  == Sale(idC, idC, home, key3, skuB, 1, 2)
early     == Sale(idC, idC, home, key2, skuA, 1, 1)
otherSku  == Sale(idD, idD, other, key1, skuB, 1, 2)
\* A legacy sale without a business key, and an event that is no sale.
legacy    == Sale(idC, idC, home, NoKey, skuA, 1, 2)
inquiry   == [Sale(idD, idD, home, NoKey, skuA, 1, 2) EXCEPT !.sale = FALSE]

KeyEvents        == {first, collision, reusedId}
ReuseEvents      == {first, reusedSku, foreignId}
ClashEvents      == KeyEvents \union ReuseEvents
ProjectionEvents == {first, second, early}
SequentialEvents == {first, sameFact, secondSku, early, legacy, inquiry, otherSku}
RestartEvents    == {first, secondSku}
LegacyEvents     == {legacy}
LiveEvents       == {first, secondSku, thirdSku}
StaleEvents      == {first, second}

\* Bounds: in a behaviour with a fault, requests are of two events that share a
\* key or an id; sales of another SKU and tenant meet only the first one, and
\* neither a fault nor a rebuild.
Accepted == {e \in Events : acceptCount[e.ident] > 0 \/ \E t \in Threads : event[t] = e}
Apart ==
  \/ /\ Accepted \subseteq KeyEvents
     /\ faults = 0 \/ (Cardinality(Accepted) <= 2 /\ Accepted # {collision, reusedId})
  \/ /\ Accepted \subseteq ReuseEvents
     /\ faults = 0 /\ \A t \in Threads : pc[t] # "scan"

\* Each event is delivered once.  A thread of the pool that serves a request is
\* scheduled again and again.
ReceiveOnce(t, e) == ~Known(e) /\ (\A u \in Threads : event[u] # e) /\ Receive(t, e)
OnceNext ==
  \/ \E t \in Threads : \E e \in Events : ReceiveOnce(t, e)
  \/ \E t \in Threads : GetInventory(t) \/ Step(t)
OnceSpec == Init /\ [][OnceNext]_vars /\ \A t \in Threads : WF_vars(Step(t))

\* Sales without a rebuild; and restarts without another fault.
SalesNext ==
  \/ \E t \in Threads : \E e \in Events : Receive(t, e)
  \/ \E t \in Threads : Step(t)
SalesSpec == Init /\ [][SalesNext]_vars

RestartNext == SalesNext \/ (\E t \in Threads : GetInventory(t)) \/ Restart
RestartSpec == Init /\ [][RestartNext]_vars

ThreadSymmetry == Permutations(Threads)
=============================================================================
