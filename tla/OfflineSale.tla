---------------------------- MODULE OfflineSale ----------------------------
(***************************************************************************)
(* The offline-sale pipeline in its DEMO deployment (a database session    *)
(* factory is configured): POST /demo/events runs process() and            *)
(* GET /inventory rebuilds the projections, both on threads of the server's *)
(* pool, with no lock between them.                                        *)
(*                                                                         *)
(* Database state (survives a restart): snapshots, ledger.                 *)
(* Process state (lost by a restart): acceptCount, businessFacts, effects, *)
(* insights, lookups, projections.                                         *)
(* Thread state: pc, event, applied, firstNew, todo, draft, slot.          *)
(*                                                                         *)
(* A thread may be descheduled between any two statements, so every read   *)
(* of shared state and every later write that depends on it are separate   *)
(* actions.  Each database statement sees the rows committed before it     *)
(* (read committed) and a commit is atomic.                                *)
(***************************************************************************)
EXTENDS Naturals, Sequences, FiniteSets

CONSTANTS
  Threads,      \* threads of the server's pool
  Events,       \* the canonical events the source may deliver, any number of times
  Tenants, Skus,
  Keys,         \* business identity keys
  Idents,       \* "tenant:idempotency_key" identities
  NoKey,        \* the payload carries no business identity key
  NoEvent,      \* the thread serves no event
  HomeTenant,   \* settings.tenant_id
  Cutoff,       \* snapshot_as_of
  MaxFaults     \* bound: database failures and restarts in a behaviour

Facts == [sku : Skus, quantity : Nat, occurredAt : Nat]

EventType == [id : Idents, ident : Idents, sale : BOOLEAN, tenant : Tenants,
              key : Keys \union {NoKey}, fact : Facts]

ASSUME EventsAssumption ==
  /\ Events \subseteq EventType
  /\ NoKey \notin Keys
  /\ NoEvent \notin Events
  /\ HomeTenant \in Tenants
  /\ Cutoff \in Nat
  /\ MaxFaults \in Nat

VARIABLES
  snapshots,      \* (tenant, sku) pairs that have a SKU row and a DEMO snapshot
  ledger,         \* committed inventory_ledger rows
  acceptCount,    \* ACCEPTED receipts issued per inbox identity
  businessFacts,  \* business_facts: (tenant, key) -> the fact first seen
  effects,        \* EffectRegistry.processed
  insights,       \* the events whose insight was appended, in order
  lookups,        \* <<i, j>>: insight i shows the C04 record that insight j was registered as
  projections,    \* inventory_projections, a Python list
  pc, event, applied, firstNew, todo, draft, slot,
  faults          \* database failures and restarts so far

dbVars     == <<snapshots, ledger>>
memoryVars == <<acceptCount, businessFacts, effects, insights, lookups, projections>>
threadVars == <<pc, event, applied, firstNew, todo, draft, slot>>
vars       == <<dbVars, memoryVars, threadVars, faults>>

-----------------------------------------------------------------------------
Items == Tenants \X Skus

BusinessKey(e) == <<e.tenant, e.key>>          \* (tenant_id, business_key)
Item(e)        == <<e.tenant, e.fact.sku>>
Keyed(e)       == e.key # NoKey

Row(e) == [key |-> BusinessKey(e), fact |-> e.fact, source |-> e.id]
Rows   == [key : Tenants \X Keys, fact : Facts, source : Idents]

\* The row that the unique constraint on (tenant, business_key) makes unique.
RowsOf(key) == {row \in ledger : row.key = key}

\* The other unique constraint: (tenant, source_event_id, sku, reason).
SourceTaken(e) ==
  \E row \in ledger : /\ row.key[1] = e.tenant
                      /\ row.source = e.id
                      /\ row.fact.sku = e.fact.sku

\* The rows delta_total_after_snapshot sums and the evidence query lists.
Counted(item) ==
  {row \in ledger : /\ row.key[1] = item[1]
                    /\ row.fact.sku = item[2]
                    /\ row.fact.occurredAt > Cutoff}

\* A projection keeps the set of rows its ledger_delta adds up and the set of
\* rows its evidence names; on_hand and reserved are the snapshot's constants.
Projection == [item : Items, summed : SUBSET Rows, evidence : SUBSET Rows]

\* What EffectRegistry.processed holds: business identities and legacy ones.
EffectIdentity(e) ==
  IF Keyed(e) THEN <<"business", BusinessKey(e)>> ELSE <<"source", e.ident>>

NoFact  == [none |-> TRUE]
NoDraft == [none |-> TRUE]

-----------------------------------------------------------------------------
PcValues == {"idle",
             "accept", "check", "record", "snapshot", "seed", "seedBrand",
             "select", "insert", "effect", "mark", "sum", "list", "find", "store",
             "announce", "register", "scan", "clear"}

DatabaseTypeOK ==
  /\ snapshots \subseteq Items
  /\ ledger \subseteq Rows

MemoryTypeOK ==
  /\ acceptCount \in [Idents -> Nat]
  /\ businessFacts \in [Tenants \X Keys -> Facts \union {NoFact}]
  /\ effects \subseteq {"business", "source"} \X ((Tenants \X Keys) \union Idents)
  /\ insights \in Seq(Events)
  /\ lookups \subseteq Nat \X Nat
  /\ projections \in Seq(Projection)

ThreadTypeOK ==
  /\ pc \in [Threads -> PcValues]
  /\ event \in [Threads -> Events \union {NoEvent}]
  /\ applied \in [Threads -> BOOLEAN]
  /\ firstNew \in [Threads -> Nat]
  /\ todo \in [Threads -> SUBSET Items]
  /\ draft \in [Threads -> Projection \union {NoDraft}]
  /\ slot \in [Threads -> Nat]

TypeOK ==
  /\ DatabaseTypeOK
  /\ MemoryTypeOK
  /\ ThreadTypeOK
  /\ faults \in 0 .. MaxFaults

Init ==
  /\ snapshots = {}
  /\ ledger = {}
  /\ acceptCount = [i \in Idents |-> 0]
  /\ businessFacts = [k \in Tenants \X Keys |-> NoFact]
  /\ effects = {}
  /\ insights = <<>>
  /\ lookups = {}
  /\ projections = <<>>
  /\ pc = [t \in Threads |-> "idle"]
  /\ event = [t \in Threads |-> NoEvent]
  /\ applied = [t \in Threads |-> FALSE]
  /\ firstNew = [t \in Threads |-> 0]
  /\ todo = [t \in Threads |-> {}]
  /\ draft = [t \in Threads |-> NoDraft]
  /\ slot = [t \in Threads |-> 0]
  /\ faults = 0

-----------------------------------------------------------------------------
\* The thread goes on at the step named by label.
Goto(t, label) == pc' = [pc EXCEPT ![t] = label]

\* The thread answers, or raises: its local variables are gone.
Finish(t) ==
  /\ pc' = [pc EXCEPT ![t] = "idle"]
  /\ event' = [event EXCEPT ![t] = NoEvent]
  /\ applied' = [applied EXCEPT ![t] = FALSE]
  /\ firstNew' = [firstNew EXCEPT ![t] = 0]
  /\ todo' = [todo EXCEPT ![t] = {}]
  /\ draft' = [draft EXCEPT ![t] = NoDraft]
  /\ slot' = [slot EXCEPT ![t] = 0]

localVars == <<event, applied, firstNew, todo, draft, slot>>

\* Where process() continues with an event the inbox has answered for.
AfterInbox(e) == IF ~e.sale THEN "register" ELSE IF Keyed(e) THEN "check" ELSE "effect"

\* InMemoryInbox: a receipt was accepted under the event's identity.
NeverKnown(e) == FALSE
Known(e) == acceptCount[e.ident] # 0

(***************************************************************************)
(* POST /demo/events: publish_demo_event notes how many insights there are *)
(* and calls process(), which asks the inbox about the event's identity.   *)
(***************************************************************************)
Receive(t, e) ==
  /\ pc[t] = "idle"
  /\ event' = [event EXCEPT ![t] = e]
  /\ firstNew' = [firstNew EXCEPT ![t] = Len(insights)]
  /\ Goto(t, IF Known(e) THEN AfterInbox(e) ELSE "accept")
  /\ UNCHANGED <<dbVars, memoryVars, applied, todo, draft, slot, faults>>

\* InMemoryInbox.ingest: the identity was new, the receipt is stored.
Accept(t) ==
  /\ pc[t] = "accept"
  /\ acceptCount' = [acceptCount EXCEPT ![event[t].ident] = @ + 1]
  /\ Goto(t, AfterInbox(event[t]))
  /\ UNCHANGED <<dbVars, businessFacts, effects, insights, lookups, projections,
                 localVars, faults>>

\* business_facts.get: a key first seen with another fact ends the request.
CheckFact(t) ==
  LET e == event[t] IN
  /\ pc[t] = "check"
  /\ Goto(t, IF businessFacts[BusinessKey(e)] \in {NoFact, e.fact}
             THEN "record" ELSE "register")
  /\ UNCHANGED <<dbVars, memoryVars, localVars, faults>>

\* The fact is remembered before the database is touched.
RecordFact(t) ==
  LET e == event[t] IN
  /\ pc[t] = "record"
  /\ businessFacts' = [businessFacts EXCEPT ![BusinessKey(e)] = e.fact]
  /\ Goto(t, "snapshot")
  /\ UNCHANGED <<dbVars, acceptCount, effects, insights, lookups, projections,
                 localVars, faults>>

-----------------------------------------------------------------------------
SkuExists(sku)      == \E item \in snapshots : item[2] = sku
BrandExists(tenant) == \E item \in snapshots : item[1] = tenant

(***************************************************************************)
(* _ensure_demo_snapshot: an existing snapshot is used; a SKU id owned by  *)
(* another tenant raises; otherwise the SKU, its snapshot and, when the    *)
(* tenant has none yet, the demo brand are inserted by one commit.         *)
(***************************************************************************)
ReadSnapshot(t) ==
  LET e == event[t] IN
  /\ pc[t] = "snapshot"
  /\ \/ /\ Item(e) \in snapshots
        /\ Goto(t, "select")
        /\ UNCHANGED localVars
     \/ /\ ~SkuExists(e.fact.sku)
        /\ Goto(t, IF BrandExists(e.tenant) THEN "seed" ELSE "seedBrand")
        /\ UNCHANGED localVars
     \/ /\ Item(e) \notin snapshots
        /\ SkuExists(e.fact.sku)
        /\ Finish(t)
  /\ UNCHANGED <<dbVars, memoryVars, faults>>

\* A row committed since ReadSnapshot makes the insert raise IntegrityError,
\* which nothing on this path catches.
SeedConflict(t) ==
  \/ SkuExists(event[t].fact.sku)
  \/ pc[t] = "seedBrand" /\ BrandExists(event[t].tenant)

SeedSnapshot(t) ==
  /\ pc[t] \in {"seed", "seedBrand"}
  /\ IF SeedConflict(t)
     THEN Finish(t) /\ UNCHANGED snapshots
     ELSE /\ snapshots' = snapshots \union {Item(event[t])}
          /\ Goto(t, "select")
          /\ UNCHANGED localVars
  /\ UNCHANGED <<ledger, memoryVars, faults>>

-----------------------------------------------------------------------------
\* The unique constraint on (tenant, business_key) refuses the row.
KeyNeverTaken(e) == FALSE
KeyTaken(e) == RowsOf(BusinessKey(e)) # {}

\* What append_once answers about a row that already holds the business key.
ClassifyAnyFact(t) == "sum"
ClassifyAsApplied(t) == "effect"
Classify(t) ==
  IF \A row \in RowsOf(BusinessKey(event[t])) : row.fact = event[t].fact
  THEN "sum"         \* the same fact: not applied, the projection is refreshed
  ELSE "register"    \* BusinessIdentityCollision is caught: the request ends

\* InventoryLedgerRepository.append_once, the select.
SelectRow(t) ==
  /\ pc[t] = "select"
  /\ Goto(t, IF RowsOf(BusinessKey(event[t])) = {} THEN "insert" ELSE Classify(t))
  /\ UNCHANGED <<dbVars, memoryVars, localVars, faults>>

\* The insert and its commit; an IntegrityError is classified by the row that
\* holds the key, and re-raised when no row does.
InsertRow(t) ==
  LET e == event[t] IN
  /\ pc[t] = "insert"
  /\ \/ /\ KeyTaken(e)
        /\ Goto(t, Classify(t))
        /\ UNCHANGED <<ledger, localVars>>
     \/ /\ ~KeyTaken(e)
        /\ SourceTaken(e)
        /\ Finish(t)
        /\ UNCHANGED ledger
     \/ /\ ~KeyTaken(e)
        /\ ~SourceTaken(e)
        /\ ledger' = ledger \union {Row(e)}
        /\ Goto(t, "effect")
        /\ UNCHANGED localVars
  /\ UNCHANGED <<snapshots, memoryVars, faults>>

\* Where the request continues once the effect registry has answered.
AfterEffectUnrefreshed(e, isNew) == IF isNew THEN "announce" ELSE "register"
AfterEffectAlways(e, isNew) == IF Keyed(e) THEN "sum" ELSE "announce"
AfterEffect(e, isNew) ==
  IF Keyed(e) THEN "sum" ELSE IF isNew THEN "announce" ELSE "register"

\* EffectRegistry.apply_once, the membership test.
CheckEffect(t) ==
  LET e == event[t] IN
  /\ pc[t] = "effect"
  /\ Goto(t, IF EffectIdentity(e) \in effects THEN AfterEffect(e, FALSE) ELSE "mark")
  /\ UNCHANGED <<dbVars, memoryVars, localVars, faults>>

\* EffectRegistry.apply_once, the insertion.
MarkEffect(t) ==
  LET e == event[t] IN
  /\ pc[t] = "mark"
  /\ effects' = effects \union {EffectIdentity(e)}
  /\ applied' = [applied EXCEPT ![t] = TRUE]
  /\ Goto(t, AfterEffect(e, TRUE))
  /\ UNCHANGED <<dbVars, acceptCount, businessFacts, insights, lookups, projections,
                 event, firstNew, todo, draft, slot, faults>>

-----------------------------------------------------------------------------
\* The items a thread still has to refresh: its sale's, or a rebuild's.
Targets(t) == IF event[t] = NoEvent THEN todo[t] ELSE {Item(event[t])}

\* _refresh_inventory_projection_from_db, the first query: the sum.
SumDelta(t) ==
  /\ pc[t] = "sum"
  /\ \E item \in Targets(t) :
       draft' = [draft EXCEPT ![t] =
                   [item |-> item, summed |-> Counted(item), evidence |-> {}]]
  /\ Goto(t, "list")
  /\ UNCHANGED <<dbVars, memoryVars, event, applied, firstNew, todo, slot, faults>>

\* The second query: the evidence.
ListThenSum(t) ==
  /\ pc[t] = "list"
  /\ draft' = [draft EXCEPT ![t].evidence = draft[t].summed,
                            ![t].summed = Counted(draft[t].item)]
  /\ Goto(t, "find")
  /\ UNCHANGED <<dbVars, memoryVars, event, applied, firstNew, todo, slot, faults>>
ListEvidence(t) ==
  /\ pc[t] = "list"
  /\ draft' = [draft EXCEPT ![t].evidence = Counted(draft[t].item)]
  /\ Goto(t, "find")
  /\ UNCHANGED <<dbVars, memoryVars, event, applied, firstNew, todo, slot, faults>>

\* _replace_inventory_projection scans the list for the item's first entry.
IsFirstOfTenant(i, item) == i = 1 /\ projections[i].item[1] = item[1]
IsFirst(i, item) ==
  /\ projections[i].item = item
  /\ \A j \in 1 .. i - 1 : projections[j].item # item

FindProjection(t) ==
  LET item == draft[t].item IN
  /\ pc[t] = "find"
  /\ \/ \E i \in DOMAIN projections :
          IsFirst(i, item) /\ slot' = [slot EXCEPT ![t] = i]
     \/ /\ \A i \in DOMAIN projections : projections[i].item # item
        /\ slot' = [slot EXCEPT ![t] = 0]      \* not found: to be appended
  /\ Goto(t, "store")
  /\ UNCHANGED <<dbVars, memoryVars, event, applied, firstNew, todo, draft, faults>>

\* if not effect_applied: the request ends without an insight.
AlwaysAnnounce(t) == "announce"
AfterRefresh(t) == IF applied[t] THEN "announce" ELSE "register"

\* A sale that was not applied is answered; a rebuild goes on to its next item.
AfterStore(t) ==
  LET rest == todo[t] \ {draft[t].item} IN
  IF event[t] = NoEvent
  THEN IF rest = {}
       THEN Finish(t)
       ELSE /\ Goto(t, "sum")
            /\ todo' = [todo EXCEPT ![t] = rest]
            /\ draft' = [draft EXCEPT ![t] = NoDraft]
            /\ slot' = [slot EXCEPT ![t] = 0]
            /\ UNCHANGED <<event, applied, firstNew>>
  ELSE /\ Goto(t, AfterRefresh(t))
       /\ draft' = [draft EXCEPT ![t] = NoDraft]
       /\ slot' = [slot EXCEPT ![t] = 0]
       /\ UNCHANGED <<event, applied, firstNew, todo>>

\* The assignment through the found index, or the append.  The list may have
\* been cleared in between: the index is then out of range and raises.
StoreProjection(t) ==
  /\ pc[t] = "store"
  /\ IF slot[t] > Len(projections)
     THEN Finish(t) /\ UNCHANGED projections
     ELSE /\ projections' = IF slot[t] = 0
                            THEN Append(projections, draft[t])
                            ELSE [projections EXCEPT ![slot[t]] = draft[t]]
          /\ AfterStore(t)
  /\ UNCHANGED <<dbVars, acceptCount, businessFacts, effects, insights, lookups, faults>>

\* insights.append
Announce(t) ==
  /\ pc[t] = "announce"
  /\ insights' = Append(insights, event[t])
  /\ Goto(t, "register")
  /\ UNCHANGED <<dbVars, acceptCount, businessFacts, effects, lookups, projections,
                 localVars, faults>>

\* The insights of the thread's own event since its request began.
OwnNewSkipsFirst(t) ==
  {i \in firstNew[t] + 2 .. Len(insights) : insights[i].id = event[t].id}
OwnNew(t) ==
  {i \in firstNew[t] + 1 .. Len(insights) : insights[i].id = event[t].id}

\* The insights whose record the registry has under an id; the content of a
\* record is the calculation with the quantity sold.
Recorded(id) == {j \in DOMAIN insights : insights[j].id = id /\ <<j, j>> \in lookups}
Sold(i)      == insights[i].fact.quantity

(***************************************************************************)
(* process() has returned: publish_demo_event registers the insights of    *)
(* its own event among those appended since the request began, and each    *)
(* that was shows its record.  A record that exists is never replaced: the *)
(* next one under its id has another instant in it, C04_VERSION_CONFLICT   *)
(* is swallowed and the insight shows nothing, unless both were made from  *)
(* the same quantity in one tick of the clock.  As all attempts of the     *)
(* window are for one id, only the first that meets no record stores one.  *)
(***************************************************************************)
Register(t) ==
  LET e     == event[t]
      taken == Recorded(e.id)
      first == {i \in OwnNew(t) : \A j \in OwnNew(t) : i <= j} IN
  /\ pc[t] = "register"
  /\ \/ /\ ~(e.sale /\ e.tenant = HomeTenant) \/ OwnNew(t) = {}
        /\ UNCHANGED lookups
     \/ /\ e.sale /\ e.tenant = HomeTenant
        /\ \E j \in IF taken = {} THEN first ELSE taken :
           \E sameTick \in SUBSET {i \in OwnNew(t) : Sold(i) = Sold(j)} :
             lookups' = lookups \union {<<i, j>> : i \in sameTick}
                                \union (IF taken = {} THEN {<<j, j>>} ELSE {})
  /\ Finish(t)
  /\ UNCHANGED <<dbVars, acceptCount, businessFacts, effects, insights, projections, faults>>

-----------------------------------------------------------------------------
\* GET /inventory finds no projection and starts a rebuild.
GetInventory(t) ==
  /\ pc[t] = "idle"
  /\ projections = <<>>
  /\ Goto(t, "scan")
  /\ UNCHANGED <<dbVars, memoryVars, localVars, faults>>

\* rebuild_inventory_projections reads the tenant's snapshots ...
ScanSnapshots(t) ==
  /\ pc[t] = "scan"
  /\ todo' = [todo EXCEPT ![t] = {item \in snapshots : item[1] = HomeTenant}]
  /\ Goto(t, "clear")
  /\ UNCHANGED <<dbVars, memoryVars, event, applied, firstNew, draft, slot, faults>>

\* ... clears the whole list and refreshes one projection per snapshot.
ClearProjections(t) ==
  /\ pc[t] = "clear"
  /\ projections' = <<>>
  /\ IF todo[t] = {} THEN Finish(t) ELSE Goto(t, "sum") /\ UNCHANGED localVars
  /\ UNCHANGED <<dbVars, acceptCount, businessFacts, effects, insights, lookups, faults>>

-----------------------------------------------------------------------------
\* A statement of the database fails and the exception ends the request.
DatabaseFailure(t) ==
  /\ faults < MaxFaults
  /\ pc[t] \in {"snapshot", "seed", "seedBrand", "select", "insert", "sum", "list", "scan"}
  /\ Finish(t)
  /\ faults' = faults + 1
  /\ UNCHANGED <<dbVars, memoryVars>>

\* The commit takes effect but its answer is lost: the driver raises.
LostCommit(t) ==
  /\ faults < MaxFaults
  /\ \/ /\ pc[t] \in {"seed", "seedBrand"}
        /\ ~SeedConflict(t)
        /\ snapshots' = snapshots \union {Item(event[t])}
        /\ UNCHANGED ledger
     \/ /\ pc[t] = "insert"
        /\ ~KeyTaken(event[t])
        /\ ~SourceTaken(event[t])
        /\ ledger' = ledger \union {Row(event[t])}
        /\ UNCHANGED snapshots
  /\ Finish(t)
  /\ faults' = faults + 1
  /\ UNCHANGED memoryVars

\* The server process dies and create_app builds a fresh one over the database.
Restart ==
  /\ faults < MaxFaults
  /\ faults' = faults + 1
  /\ acceptCount' = [i \in Idents |-> 0]
  /\ businessFacts' = [k \in Tenants \X Keys |-> NoFact]
  /\ effects' = {}
  /\ insights' = <<>>
  /\ lookups' = {}
  /\ projections' = <<>>
  /\ pc' = [t \in Threads |-> "idle"]
  /\ event' = [t \in Threads |-> NoEvent]
  /\ applied' = [t \in Threads |-> FALSE]
  /\ firstNew' = [t \in Threads |-> 0]
  /\ todo' = [t \in Threads |-> {}]
  /\ draft' = [t \in Threads |-> NoDraft]
  /\ slot' = [t \in Threads |-> 0]
  /\ UNCHANGED dbVars

\* One statement of a request being served.
Step(t) ==
  \/ Accept(t) \/ CheckFact(t) \/ RecordFact(t)
  \/ ReadSnapshot(t) \/ SeedSnapshot(t)
  \/ SelectRow(t) \/ InsertRow(t)
  \/ CheckEffect(t) \/ MarkEffect(t)
  \/ SumDelta(t) \/ ListEvidence(t) \/ FindProjection(t) \/ StoreProjection(t)
  \/ Announce(t) \/ Register(t)
  \/ ScanSnapshots(t) \/ ClearProjections(t)

Next ==
  \/ \E t \in Threads : \E e \in Events : Receive(t, e)
  \/ \E t \in Threads : GetInventory(t)
  \/ \E t \in Threads : Step(t)
  \/ \E t \in Threads : DatabaseFailure(t) \/ LostCommit(t)
  \/ Restart

Spec == Init /\ [][Next]_vars

-----------------------------------------------------------------------------
(***************************************************************************)
(* Properties                                                              *)
(***************************************************************************)

\* The steps at which process() has the answer "applied" or "replayed" of a
\* keyed sale and has not yet returned it.
Answered(t) ==
  /\ event[t] # NoEvent
  /\ Keyed(event[t])
  /\ pc[t] \in {"effect", "mark", "sum", "list", "find", "store", "announce"}

\* A keyed sale that process() goes on to treat as applied or as a replay is on
\* the ledger with exactly its fact, whatever the other threads did between the
\* in-memory fact check, the select and the insert.
AnsweredSaleIsOnLedger ==
  \A t \in Threads : Answered(t) =>
    \E row \in RowsOf(BusinessKey(event[t])) : row.fact = event[t].fact

\* The business effect happens once: within one life of the server no two
\* insights are about the same business key, although the inbox, the fact table
\* and the effect registry are all checked and set without a lock.
EffectOncePerBusinessKey ==
  \A i, j \in DOMAIN insights :
    Keyed(insights[i]) /\ Keyed(insights[j]) /\ i # j =>
      BusinessKey(insights[i]) # BusinessKey(insights[j])

\* The insight of a keyed sale is about the very event whose row won the
\* ledger: its evidence_ids name the source of the committed row.
InsightNamesLedgerSource ==
  \A i \in DOMAIN insights :
    Keyed(insights[i]) => Row(insights[i]) \in ledger

\* A projection never adds up a sale that its evidence does not name, and never
\* names one that is not committed, at whatever points the two queries ran.
EvidenceExplainsDelta ==
  \A i \in DOMAIN projections :
    /\ projections[i].summed \subseteq projections[i].evidence
    /\ projections[i].evidence \subseteq Counted(projections[i].item)

\* A thread that is going to register the insight.
ToRegister(t, i) == pc[t] = "register" /\ event[t] = insights[i] /\ firstNew[t] < i

\* By the time its request has answered, an insight of the home tenant shows a
\* record, or another insight under the same event id was registered before it.
InsightIsBacked ==
  \A i \in DOMAIN insights :
    insights[i].tenant = HomeTenant =>
      \/ \E j \in DOMAIN insights : <<i, j>> \in lookups
      \/ \E j \in DOMAIN insights \ {i} : insights[j].id = insights[i].id /\ <<j, j>> \in lookups
      \/ \E t \in Threads : ToRegister(t, i)

\* What an insight shows is a record of its own id and its own calculation, and
\* an id has one record, for good.
RecordsAreOwn ==
  \A i, j \in DOMAIN insights : <<i, j>> \in lookups =>
    /\ <<j, j>> \in lookups /\ Sold(i) = Sold(j)
    /\ Recorded(insights[i].id) = {j}

\* Each insight ends up with its own record, or loses it to an insight that
\* reused the event id, and never shows another calculation than its own: also
\* when requests for one id overlap and each looks only at its own window.
InsightIsRegistered == InsightIsBacked /\ RecordsAreOwn

Idle == \A t \in Threads : pc[t] = "idle"

\* With nothing in flight every projection adds up, and names, exactly the
\* sales committed for its item.
ProjectionsCurrentWhenIdle ==
  Idle => \A i \in DOMAIN projections :
            LET p == projections[i] IN
            p.summed = Counted(p.item) /\ p.evidence = Counted(p.item)

\* An inbox identity gets the receipt ACCEPTED once.
AcceptedOnce == \A i \in Idents : acceptCount[i] <= 1

\* A legacy sale, which has no business key, has its effect once per identity.
LegacyEffectOnce ==
  \A i, j \in DOMAIN insights :
    ~Keyed(insights[i]) /\ ~Keyed(insights[j]) /\ i # j =>
      insights[i].ident # insights[j].ident

\* With no two requests at a time both hold: inbox.receive and apply_once answer
\* for the same identity, each from a registry of its own.
OncePerIdentity == AcceptedOnce /\ LegacyEffectOnce

\* With nothing in flight the inventory the API answers from is empty (and will
\* be rebuilt) or has a projection of every snapshot of the home tenant.
HomeInventoryComplete ==
  Idle /\ projections # <<>> =>
    \A item \in snapshots : item[1] = HomeTenant =>
      \E i \in DOMAIN projections : projections[i].item = item

Visible(row) ==
  \E i \in DOMAIN projections : row \in projections[i].summed

\* A rebuild has emptied the list between the scan and the assignment, which is
\* going to raise IndexError.
PlaceIsGone(t) == pc[t] = "store" /\ slot[t] > Len(projections)

\* A sale that the cut-off counts and whose row was just committed shows up in
\* a projection.  The exceptions: a fault ended the request, or its place in the
\* list was gone, and then the request fails although the sale is on the ledger.
CommittedSaleBecomesVisible ==
  \A t \in Threads, e \in Events :
    e.fact.occurredAt > Cutoff =>
      (event[t] = e /\ Keyed(e) /\ pc[t] = "effect"
         ~> Visible(Row(e)) \/ PlaceIsGone(t) \/ faults > 0)

-----------------------------------------------------------------------------
(***************************************************************************)
(* The pipeline implements SaleEffects.  A posted row is pending while the *)
(* thread that inserted it is on its way to insights.append.               *)
(***************************************************************************)
Holds(t) ==
  /\ event[t] # NoEvent
  /\ Keyed(event[t])
  /\ \/ pc[t] \in {"effect", "mark"}
     \/ applied[t] /\ pc[t] \in {"sum", "list", "find", "store", "announce"}

SaleRows     == {Row(e) : e \in {f \in Events : Keyed(f)}}
HeldRows     == {Row(event[t]) : t \in {u \in Threads : Holds(u)}}
ReportedRows == {Row(insights[i]) : i \in {j \in DOMAIN insights : Keyed(insights[j])}}

Effects == INSTANCE SaleEffects
  WITH LedgerRows <- SaleRows, posted <- ledger, pending <- HeldRows, reported <- ReportedRows

\* Across every interleaving, failure and restart the pipeline only does what
\* SaleEffects allows: one fact per business key, each posted sale reported at
\* most once and only by the request that posted it.
RefinesSaleEffects == Effects!Spec

\* The inductive strengthening the proofs use.  What a thread at a step has in
\* its locals: the event e it serves, its draft d, whether it applied the effect.
Serves(label, e, d, a) ==
  /\ label \in {"idle", "scan", "clear"} => e = NoEvent
  /\ label \in {"accept", "effect", "mark", "announce", "register"} => e \in Events
  /\ label \in {"check", "record", "snapshot", "seed", "seedBrand", "select", "insert"} =>
       e \in Events /\ Keyed(e)
  /\ label \in {"sum", "list", "find", "store"} => e = NoEvent \/ Keyed(e)
  /\ label \in {"list", "find", "store"} => d \in Projection
  /\ label \notin {"accept", "register"} /\ e # NoEvent => e.sale
  /\ a => label \in {"sum", "list", "find", "store", "announce", "register"}
  /\ label = "announce" => a \/ ~Keyed(e)

StepsServeEvents ==
  \A t \in Threads : Serves(pc[t], event[t], draft[t], applied[t])

\* A business key is on the ledger once.
OneRowPerBusinessKey ==
  \A one, two \in ledger : one.key = two.key => one = two

\* A thread on its way to an insight inserted the row itself: the row is there,
\* no other thread is on its way with the key, and no insight has it yet.
HolderIsAlone ==
  \A t \in Threads : Holds(t) =>
    /\ Row(event[t]) \in ledger
    /\ \A u \in Threads \ {t} :
         Holds(u) => BusinessKey(event[u]) # BusinessKey(event[t])
    /\ \A i \in DOMAIN insights :
         Keyed(insights[i]) => BusinessKey(insights[i]) # BusinessKey(event[t])

\* The inductive invariant behind the effect properties and the refinement.
EffectInv ==
  /\ OneRowPerBusinessKey
  /\ AnsweredSaleIsOnLedger
  /\ HolderIsAlone
  /\ InsightNamesLedgerSource
  /\ EffectOncePerBusinessKey
=============================================================================
