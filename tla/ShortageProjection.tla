-------------------------- MODULE ShortageProjection --------------------------
(***************************************************************************)
(* What the open orders ask for and what is missing to serve them:         *)
(* project_current_reservation_demand takes order lines one by one, and    *)
(* calculate_reservation_shortage the deliveries on their way.  A quantity *)
(* may be unknown (None), which is not zero: what cannot be calculated     *)
(* stays unknown.  Lines and deliveries come in any order.                 *)
(***************************************************************************)
EXTENDS Integers, FiniteSets, FiniteSetsExt, Functions

CONSTANTS
  OrderLines,       \* order_item_id
  LineKinds,        \* what a line may say
  EligibleProducts, \* operational products of the reservation category
  Deliveries,       \* evidence_id
  DeliveryKinds,    \* what the evidence of a delivery may say
  SecuredQtys,      \* quantities that may be secured, Unknown among them
  RequiredQtys,     \* what a reservation may require
  Unknown

Quantities == Nat \union {Unknown}

ASSUME ShortageAssumption ==
  /\ Unknown \notin Nat
  /\ LineKinds \subseteq [product : Nat, sku : Nat \union {Unknown}, quantity : Quantities,
                          shipping : {"F", "M", "T", "W"}, canceled : {"F", "M", "T"},
                          remaining : Quantities]
  /\ DeliveryKinds \subseteq [confirmation : {"CONFIRMED", "TENTATIVE"}, quality : {"CONFIRMED", "BLOCKED"},
                              freshness : {"FRESH", "STALE", "UNKNOWN"}, quantity : Quantities]
  /\ SecuredQtys \subseteq Quantities /\ RequiredQtys \subseteq Nat \ {0}

VARIABLES
  lineOf,         \* the lines taken so far: what each one says
  aggregate,      \* (product, SKU) -> the bucket
  toReview,       \* lines a person has to look at
  excluded,
  deliveryOf,     \* the deliveries taken so far
  confirmedTotal, tentativeTotal,
  confirmedUnknown,
  setAside        \* delivery -> the reason it does not count

shortageVars == <<lineOf, aggregate, toReview, excluded, deliveryOf, confirmedTotal,
                  tentativeTotal, confirmedUnknown, setAside>>
demandVars   == <<lineOf, aggregate, toReview, excluded>>
incomingVars == <<deliveryOf, confirmedTotal, tentativeTotal, confirmedUnknown, setAside>>

Buckets == [quantity : Nat, unknown : BOOLEAN]

ShortageTypeOK ==
  /\ DOMAIN lineOf \subseteq OrderLines /\ \A i \in DOMAIN lineOf : lineOf[i] \in LineKinds
  /\ \A k \in DOMAIN aggregate : aggregate[k] \in Buckets
  /\ toReview \subseteq OrderLines /\ excluded \subseteq OrderLines
  /\ DOMAIN deliveryOf \subseteq Deliveries /\ \A d \in DOMAIN deliveryOf : deliveryOf[d] \in DeliveryKinds
  /\ confirmedTotal \in Nat /\ tentativeTotal \in Nat /\ confirmedUnknown \in BOOLEAN
  /\ DOMAIN setAside \subseteq Deliveries

Nothing == [x \in {} |-> x]

ShortageInit ==
  /\ lineOf = Nothing /\ aggregate = Nothing /\ toReview = {} /\ excluded = {}
  /\ deliveryOf = Nothing /\ confirmedTotal = 0 /\ tentativeTotal = 0
  /\ confirmedUnknown = FALSE /\ setAside = Nothing

\* f with g at x, for a function that grows.
With(f, x, g) == [y \in DOMAIN f \union {x} |-> IF y = x THEN g ELSE f[y]]

-----------------------------------------------------------------------------
Classify(l) ==
  CASE l.canceled = "T" \/ l.shipping \in {"M", "T"} -> "EXCLUDE"
    [] l.shipping = "F" /\ l.canceled = "F"          -> "INCLUDE"
    [] OTHER                                         -> "REVIEW"

\* A partly cancelled line counts with what evidence says is left of it.
LeftOver(l) == l.shipping = "F" /\ l.canceled = "M" /\ l.remaining # Unknown

DemandKey(l) == <<l.product, l.sku>>

EmptyBucket == [quantity |-> 0, unknown |-> FALSE]

\* Mutant: what is unknown counts as nothing.
UnknownAsNothing(bucket, q) == IF q = Unknown THEN bucket ELSE [bucket EXCEPT !.quantity = @ + q]

WithQuantity(bucket, q) ==
  IF q = Unknown THEN [bucket EXCEPT !.unknown = TRUE] ELSE [bucket EXCEPT !.quantity = @ + q]

IntoBucket(l, q) ==
  LET bucket == IF DemandKey(l) \in DOMAIN aggregate THEN aggregate[DemandKey(l)] ELSE EmptyBucket IN
  aggregate' = With(aggregate, DemandKey(l), WithQuantity(bucket, q))

\* The loop over order_items.
TakeLine(i) ==
  /\ i \notin DOMAIN lineOf
  /\ \E l \in LineKinds :
       /\ lineOf' = With(lineOf, i, l)
       /\ CASE Classify(l) = "EXCLUDE" \/ l.product \notin EligibleProducts ->
                 excluded' = excluded \union {i} /\ UNCHANGED <<aggregate, toReview>>
            [] Classify(l) = "INCLUDE" /\ l.product \in EligibleProducts ->
                 IntoBucket(l, l.quantity) /\ UNCHANGED <<excluded, toReview>>
            [] Classify(l) = "REVIEW" /\ l.product \in EligibleProducts /\ LeftOver(l) ->
                 IntoBucket(l, l.remaining) /\ UNCHANGED <<excluded, toReview>>
            [] OTHER ->
                 toReview' = toReview \union {i} /\ UNCHANGED <<aggregate, excluded>>
  /\ UNCHANGED incomingVars

\* required_qty of a demand, and confirmed_required_qty of them all.
Demand(k) == IF aggregate[k].unknown THEN Unknown ELSE aggregate[k].quantity

ConfirmedRequired ==
  IF \E k \in DOMAIN aggregate : Demand(k) = Unknown THEN Unknown
  ELSE SumFunction([k \in DOMAIN aggregate |-> Demand(k)])

-----------------------------------------------------------------------------
\* Why a delivery does not count, in the order of the tests.
Reason(e) ==
  IF e.confirmation = "TENTATIVE"      THEN "TENTATIVE"
  ELSE IF e.quality # "CONFIRMED"      THEN "SOURCE_QUALITY_BLOCKED"
  ELSE IF e.freshness = "STALE"        THEN "STALE"
  ELSE IF e.freshness = "UNKNOWN"      THEN "FRESHNESS_UNKNOWN"
  ELSE IF e.quantity = Unknown         THEN "QUANTITY_UNKNOWN"
  ELSE "USED"

\* The loop over incoming.
TakeDelivery(d) ==
  /\ d \notin DOMAIN deliveryOf
  /\ \E e \in DeliveryKinds :
       LET why == Reason(e) IN
       /\ deliveryOf' = With(deliveryOf, d, e)
       /\ setAside' = IF why = "USED" THEN setAside ELSE With(setAside, d, why)
       /\ confirmedTotal' = IF why = "USED" THEN confirmedTotal + e.quantity ELSE confirmedTotal
       /\ tentativeTotal' = IF why = "TENTATIVE" /\ e.quantity # Unknown
                            THEN tentativeTotal + e.quantity ELSE tentativeTotal
       /\ confirmedUnknown' = (confirmedUnknown \/ why = "QUANTITY_UNKNOWN")
  /\ UNCHANGED demandVars

ShortageNext == (\E i \in OrderLines : TakeLine(i)) \/ (\E d \in Deliveries : TakeDelivery(d))

ShortageSpec == ShortageInit /\ [][ShortageNext]_shortageVars

\* What is returned when the deliveries are through.
Shortage(required, secured) ==
  IF secured = Unknown \/ confirmedUnknown THEN Unknown
  ELSE Max({required - secured - confirmedTotal, 0})

-----------------------------------------------------------------------------
\* What a line asks for and a delivery brings, each looked at by itself.
Counts(l) ==
  /\ l.product \in EligibleProducts /\ l.shipping = "F"
  /\ l.canceled = "F" \/ (l.canceled = "M" /\ l.remaining # Unknown)

Asks(l) == IF l.canceled = "F" THEN l.quantity ELSE l.remaining

Asked   == [i \in DOMAIN lineOf |-> Asks(lineOf[i])]
Brought == [d \in DOMAIN deliveryOf |-> deliveryOf[d].quantity]

Trusted(e) == e.confirmation = "CONFIRMED" /\ e.quality = "CONFIRMED" /\ e.freshness = "FRESH"

CountedFor(k) == {i \in DOMAIN lineOf : Counts(lineOf[i]) /\ DemandKey(lineOf[i]) = k}

TrustedDeliveries == {d \in DOMAIN deliveryOf : Trusted(deliveryOf[d])}

NoQuantity(d) == deliveryOf[d].quantity = Unknown

\* Every line ends up in one place, whatever came before it; a demand is the sum
\* of its lines and unknown as soon as one of them is, and so is their total; no
\* delivery lowers a shortage unless it is confirmed, of good quality and fresh,
\* and a shortage is a number only if everything that lowers it is known.
ShortageIsAccounted ==
  /\ \A i \in DOMAIN lineOf :
       LET l == lineOf[i] IN
       /\ Cardinality({p \in {"counted", "review", "excluded"} :
                         CASE p = "counted" -> DemandKey(l) \in DOMAIN aggregate /\ Counts(l)
                           [] p = "review"  -> i \in toReview
                           [] OTHER         -> i \in excluded}) = 1
       /\ i \in toReview => l.canceled # "T" /\ l.shipping \in {"F", "W"}
  /\ \A k \in DOMAIN aggregate :
       IF \E i \in CountedFor(k) : Asks(lineOf[i]) = Unknown THEN Demand(k) = Unknown
       ELSE Demand(k) = SumFunctionOnSet(Asked, CountedFor(k))
  /\ ConfirmedRequired = Unknown
       <=> \E i \in DOMAIN lineOf : Counts(lineOf[i]) /\ Asks(lineOf[i]) = Unknown
  /\ DOMAIN setAside = {d \in DOMAIN deliveryOf : ~Trusted(deliveryOf[d]) \/ NoQuantity(d)}
  /\ \A secured \in SecuredQtys, required \in RequiredQtys :
       LET short == Shortage(required, secured) IN
       IF secured = Unknown \/ \E d \in TrustedDeliveries : NoQuantity(d) THEN short = Unknown
       ELSE /\ short \in Nat
            /\ LET brought == SumFunctionOnSet(Brought, TrustedDeliveries) IN
               IF secured + brought >= required THEN short = 0 ELSE secured + brought + short = required
=============================================================================
