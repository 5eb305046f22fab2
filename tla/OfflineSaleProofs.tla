------------------------- MODULE OfflineSaleProofs -------------------------
(***************************************************************************)
(* Proofs about OfflineSale for every set of threads, events, tenants,     *)
(* SKUs and keys and every bound on faults.                                *)
(***************************************************************************)
EXTENDS OfflineSale, SequenceTheorems, TLAPS

\* What the assumption on Events says of one event.
LEMMA EventFacts ==
  ASSUME NEW e \in Events
  PROVE  /\ e \in EventType /\ e # NoEvent
         /\ Item(e) \in Items
         /\ e.id \in Idents /\ e.ident \in Idents /\ e.sale \in BOOLEAN
         /\ e.tenant \in Tenants /\ e.fact \in Facts
         /\ Keyed(e) => /\ BusinessKey(e) \in Tenants \X Keys
                        /\ Row(e) \in Rows
                        /\ Row(e).key = BusinessKey(e)
                        /\ Row(e).fact = e.fact
  <1>1. e \in EventType /\ e # NoEvent
    BY EventsAssumption
  <1>2. /\ Item(e) \in Items /\ e.fact \in Facts
        /\ e.id \in Idents /\ e.ident \in Idents /\ e.sale \in BOOLEAN
        /\ e.tenant \in Tenants
    BY <1>1 DEF EventType, Facts, Item, Items
  <1>3. ASSUME Keyed(e)
        PROVE  /\ BusinessKey(e) \in Tenants \X Keys
               /\ Row(e) \in Rows
               /\ Row(e).key = BusinessKey(e)
               /\ Row(e).fact = e.fact
    BY <1>1, <1>2, <1>3 DEF EventType, Keyed, BusinessKey, Row, Rows
  <1>4. QED
    BY <1>1, <1>2, <1>3

-----------------------------------------------------------------------------
(***************************************************************************)
(* Type correctness, together with which event each step serves.           *)
(***************************************************************************)
TypeInv == TypeOK /\ StepsServeEvents

USE DEF dbVars, memoryVars, localVars, Goto, KeyTaken, AfterRefresh

LEMMA InitType == Init => TypeInv
  BY EventsAssumption DEF Init, TypeInv, TypeOK, DatabaseTypeOK, MemoryTypeOK, ThreadTypeOK,
       StepsServeEvents, Serves, PcValues

\* A request that ends leaves its thread idle and well typed.
LEMMA FinishType ==
  ASSUME TypeInv, NEW t \in Threads, Finish(t)
  PROVE  ThreadTypeOK' /\ StepsServeEvents'
  <1>1. ThreadTypeOK'
    BY DEF TypeInv, TypeOK, ThreadTypeOK, Finish, PcValues
  <1>2. StepsServeEvents'
    BY DEF TypeInv, TypeOK, ThreadTypeOK, StepsServeEvents, Serves, Finish
  <1>3. QED
    BY <1>1, <1>2

\* A thread that moves on keeps the invariant when its locals suit the new step.
LEMMA MoveType ==
  ASSUME TypeInv, NEW t \in Threads, NEW label \in PcValues,
         pc' = [pc EXCEPT ![t] = label],
         ThreadTypeOK',
         \A u \in Threads \ {t} : /\ event'[u] = event[u]
                                  /\ draft'[u] = draft[u]
                                  /\ applied'[u] = applied[u],
         Serves(label, event'[t], draft'[t], applied'[t])
  PROVE  StepsServeEvents'
  BY DEF TypeInv, TypeOK, ThreadTypeOK, StepsServeEvents

\* The same for a thread whose locals stay as they are.
LEMMA StayType ==
  ASSUME TypeInv, NEW t \in Threads, NEW label \in PcValues,
         pc' = [pc EXCEPT ![t] = label],
         UNCHANGED localVars,
         Serves(label, event[t], draft[t], applied[t])
  PROVE  ThreadTypeOK' /\ StepsServeEvents'
  <1>1. ThreadTypeOK'
    BY DEF TypeInv, TypeOK, ThreadTypeOK
  <1>2. QED
    BY <1>1, MoveType

\* What the invariant says of the thread that takes a step.
LEMMA ThreadFacts ==
  ASSUME TypeInv, NEW t \in Threads
  PROVE  /\ Serves(pc[t], event[t], draft[t], applied[t])
         /\ event[t] \in Events \union {NoEvent}
         /\ DatabaseTypeOK /\ MemoryTypeOK /\ ThreadTypeOK
  BY DEF TypeInv, TypeOK, ThreadTypeOK, StepsServeEvents

LEMMA ReceiveType ==
  ASSUME TypeInv, NEW t \in Threads, NEW e \in Events, Receive(t, e)
  PROVE  TypeInv'
  <1> DEFINE label == IF Known(e) THEN AfterInbox(e) ELSE "accept"
  <1>1. label \in PcValues
    BY DEF PcValues, AfterInbox
  <1>2. ThreadTypeOK'
    BY <1>1, ThreadFacts, EventFacts DEF Receive, ThreadTypeOK, MemoryTypeOK
  <1>3. Serves(label, event'[t], draft'[t], applied'[t])
    BY ThreadFacts, EventFacts DEF Receive, Serves, AfterInbox, ThreadTypeOK
  <1>4. StepsServeEvents'
    BY <1>1, <1>2, <1>3, MoveType, ThreadFacts DEF Receive, ThreadTypeOK
  <1>5. QED
    BY <1>2, <1>4 DEF Receive, TypeInv, TypeOK, DatabaseTypeOK, MemoryTypeOK

LEMMA AcceptType ==
  ASSUME TypeInv, NEW t \in Threads, Accept(t)
  PROVE  TypeInv'
  <1> DEFINE label == AfterInbox(event[t])
  <1>1. label \in PcValues /\ Serves(label, event[t], draft[t], applied[t])
    BY ThreadFacts, EventFacts DEF Accept, Serves, PcValues, AfterInbox
  <1>2. ThreadTypeOK' /\ StepsServeEvents'
    BY <1>1, StayType DEF Accept
  <1>3. DatabaseTypeOK' /\ MemoryTypeOK' /\ faults' \in 0 .. MaxFaults
    BY ThreadFacts, EventFacts DEF TypeInv, TypeOK, DatabaseTypeOK, MemoryTypeOK, Serves, Accept
  <1>4. QED
    BY <1>2, <1>3 DEF TypeInv, TypeOK

LEMMA CheckFactType ==
  ASSUME TypeInv, NEW t \in Threads, CheckFact(t)
  PROVE  TypeInv'
  <1> DEFINE label == IF businessFacts[BusinessKey(event[t])] \in {NoFact, event[t].fact}
                   THEN "record" ELSE "register"
  <1>1. label \in PcValues /\ Serves(label, event[t], draft[t], applied[t])
    BY ThreadFacts, EventFacts DEF CheckFact, Serves, PcValues
  <1>2. ThreadTypeOK' /\ StepsServeEvents'
    BY <1>1, StayType DEF CheckFact
  <1>3. DatabaseTypeOK' /\ MemoryTypeOK' /\ faults' \in 0 .. MaxFaults
    BY ThreadFacts, EventFacts DEF TypeInv, TypeOK, DatabaseTypeOK, MemoryTypeOK, Serves, CheckFact
  <1>4. QED
    BY <1>2, <1>3 DEF TypeInv, TypeOK

LEMMA RecordFactType ==
  ASSUME TypeInv, NEW t \in Threads, RecordFact(t)
  PROVE  TypeInv'
  <1> DEFINE label == "snapshot"
  <1>1. label \in PcValues /\ Serves(label, event[t], draft[t], applied[t])
    BY ThreadFacts, EventFacts DEF RecordFact, Serves, PcValues
  <1>2. ThreadTypeOK' /\ StepsServeEvents'
    BY <1>1, StayType DEF RecordFact
  <1>3. DatabaseTypeOK' /\ MemoryTypeOK' /\ faults' \in 0 .. MaxFaults
    BY ThreadFacts, EventFacts DEF TypeInv, TypeOK, DatabaseTypeOK, MemoryTypeOK, Serves, RecordFact
  <1>4. QED
    BY <1>2, <1>3 DEF TypeInv, TypeOK

LEMMA ReadSnapshotType ==
  ASSUME TypeInv, NEW t \in Threads, ReadSnapshot(t)
  PROVE  TypeInv'
  <1>1. CASE Item(event[t]) \in snapshots /\ pc' = [pc EXCEPT ![t] = "select"] /\ UNCHANGED localVars
    <2> DEFINE label == "select"
    <2>1. label \in PcValues /\ Serves(label, event[t], draft[t], applied[t])
      BY <1>1, ThreadFacts, EventFacts DEF ReadSnapshot, Serves, PcValues
    <2>2. ThreadTypeOK' /\ StepsServeEvents'
      BY <1>1, <2>1, StayType DEF ReadSnapshot
    <2>3. DatabaseTypeOK' /\ MemoryTypeOK' /\ faults' \in 0 .. MaxFaults
      BY <1>1, ThreadFacts, EventFacts DEF TypeInv, TypeOK, DatabaseTypeOK, MemoryTypeOK, Serves, ReadSnapshot
    <2>4. QED
      BY <2>2, <2>3 DEF TypeInv, TypeOK
  <1>2. CASE UNCHANGED localVars /\ pc' = [pc EXCEPT ![t] = IF BrandExists(event[t].tenant)
                                                     THEN "seed" ELSE "seedBrand"]
    <2> DEFINE label == IF BrandExists(event[t].tenant) THEN "seed" ELSE "seedBrand"
    <2>1. label \in PcValues /\ Serves(label, event[t], draft[t], applied[t])
      BY <1>2, ThreadFacts, EventFacts DEF ReadSnapshot, Serves, PcValues
    <2>2. ThreadTypeOK' /\ StepsServeEvents'
      BY <1>2, <2>1, StayType DEF ReadSnapshot
    <2>3. DatabaseTypeOK' /\ MemoryTypeOK' /\ faults' \in 0 .. MaxFaults
      BY <1>2, ThreadFacts, EventFacts DEF TypeInv, TypeOK, DatabaseTypeOK, MemoryTypeOK, Serves, ReadSnapshot
    <2>4. QED
      BY <2>2, <2>3 DEF TypeInv, TypeOK
  <1>3. CASE Finish(t)
    <2>1. Finish(t)
      BY <1>3 DEF ReadSnapshot
    <2>2. DatabaseTypeOK' /\ MemoryTypeOK' /\ faults' \in 0 .. MaxFaults
      BY <1>3, ThreadFacts, EventFacts DEF TypeInv, TypeOK, DatabaseTypeOK, MemoryTypeOK, Serves, ReadSnapshot
    <2>3. QED
      BY <2>1, <2>2, FinishType DEF TypeInv, TypeOK
  <1>4. QED
    BY <1>1, <1>2, <1>3 DEF ReadSnapshot

LEMMA SeedSnapshotType ==
  ASSUME TypeInv, NEW t \in Threads, SeedSnapshot(t)
  PROVE  TypeInv'
  <1>1. CASE SeedConflict(t)
    <2>1. Finish(t)
      BY <1>1 DEF SeedSnapshot
    <2>2. DatabaseTypeOK' /\ MemoryTypeOK' /\ faults' \in 0 .. MaxFaults
      BY <1>1, ThreadFacts, EventFacts DEF TypeInv, TypeOK, DatabaseTypeOK, MemoryTypeOK, Serves, SeedSnapshot
    <2>3. QED
      BY <2>1, <2>2, FinishType DEF TypeInv, TypeOK
  <1>2. CASE ~SeedConflict(t)
    <2> DEFINE label == "select"
    <2>1. label \in PcValues /\ Serves(label, event[t], draft[t], applied[t])
      BY <1>2, ThreadFacts, EventFacts DEF SeedSnapshot, Serves, PcValues
    <2>2. ThreadTypeOK' /\ StepsServeEvents'
      BY <1>2, <2>1, StayType DEF SeedSnapshot
    <2>3. DatabaseTypeOK' /\ MemoryTypeOK' /\ faults' \in 0 .. MaxFaults
      BY <1>2, ThreadFacts, EventFacts DEF TypeInv, TypeOK, DatabaseTypeOK, MemoryTypeOK, Serves, SeedSnapshot
    <2>4. QED
      BY <2>2, <2>3 DEF TypeInv, TypeOK
  <1>3. QED
    BY <1>1, <1>2 DEF SeedSnapshot

LEMMA SelectRowType ==
  ASSUME TypeInv, NEW t \in Threads, SelectRow(t)
  PROVE  TypeInv'
  <1> DEFINE label == IF RowsOf(BusinessKey(event[t])) = {} THEN "insert" ELSE Classify(t)
  <1>1. label \in PcValues /\ Serves(label, event[t], draft[t], applied[t])
    BY ThreadFacts, EventFacts DEF SelectRow, Serves, PcValues, Classify
  <1>2. ThreadTypeOK' /\ StepsServeEvents'
    BY <1>1, StayType DEF SelectRow
  <1>3. DatabaseTypeOK' /\ MemoryTypeOK' /\ faults' \in 0 .. MaxFaults
    BY ThreadFacts, EventFacts DEF TypeInv, TypeOK, DatabaseTypeOK, MemoryTypeOK, Serves, SelectRow
  <1>4. QED
    BY <1>2, <1>3 DEF TypeInv, TypeOK

LEMMA InsertRowType ==
  ASSUME TypeInv, NEW t \in Threads, InsertRow(t)
  PROVE  TypeInv'
  <1>1. CASE RowsOf(BusinessKey(event[t])) # {}
    <2> DEFINE label == Classify(t)
    <2>1. label \in PcValues /\ Serves(label, event[t], draft[t], applied[t])
      BY <1>1, ThreadFacts, EventFacts DEF InsertRow, Serves, PcValues, Classify
    <2>2. ThreadTypeOK' /\ StepsServeEvents'
      BY <1>1, <2>1, StayType DEF InsertRow, Classify
    <2>3. DatabaseTypeOK' /\ MemoryTypeOK' /\ faults' \in 0 .. MaxFaults
      BY <1>1, ThreadFacts, EventFacts DEF TypeInv, TypeOK, DatabaseTypeOK, MemoryTypeOK, Serves, InsertRow
    <2>4. QED
      BY <2>2, <2>3 DEF TypeInv, TypeOK
  <1>2. CASE RowsOf(BusinessKey(event[t])) = {} /\ SourceTaken(event[t])
    <2>1. Finish(t)
      BY <1>2 DEF InsertRow
    <2>2. DatabaseTypeOK' /\ MemoryTypeOK' /\ faults' \in 0 .. MaxFaults
      BY <1>2, ThreadFacts, EventFacts DEF TypeInv, TypeOK, DatabaseTypeOK, MemoryTypeOK, Serves, InsertRow
    <2>3. QED
      BY <2>1, <2>2, FinishType DEF TypeInv, TypeOK
  <1>3. CASE RowsOf(BusinessKey(event[t])) = {} /\ ~SourceTaken(event[t])
    <2> DEFINE label == "effect"
    <2>1. label \in PcValues /\ Serves(label, event[t], draft[t], applied[t])
      BY <1>3, ThreadFacts, EventFacts DEF InsertRow, Serves, PcValues
    <2>2. ThreadTypeOK' /\ StepsServeEvents'
      BY <1>3, <2>1, StayType DEF InsertRow
    <2>3. DatabaseTypeOK' /\ MemoryTypeOK' /\ faults' \in 0 .. MaxFaults
      BY <1>3, ThreadFacts, EventFacts DEF TypeInv, TypeOK, DatabaseTypeOK, MemoryTypeOK, Serves, InsertRow
    <2>4. QED
      BY <2>2, <2>3 DEF TypeInv, TypeOK
  <1>4. QED
    BY <1>1, <1>2, <1>3 DEF InsertRow

LEMMA CheckEffectType ==
  ASSUME TypeInv, NEW t \in Threads, CheckEffect(t)
  PROVE  TypeInv'
  <1> DEFINE label == IF EffectIdentity(event[t]) \in effects THEN AfterEffect(event[t], FALSE)
                                                       ELSE "mark"
  <1>1. label \in PcValues /\ Serves(label, event[t], draft[t], applied[t])
    BY ThreadFacts, EventFacts DEF CheckEffect, Serves, PcValues, AfterEffect
  <1>2. ThreadTypeOK' /\ StepsServeEvents'
    BY <1>1, StayType DEF CheckEffect
  <1>3. DatabaseTypeOK' /\ MemoryTypeOK' /\ faults' \in 0 .. MaxFaults
    BY ThreadFacts, EventFacts DEF TypeInv, TypeOK, DatabaseTypeOK, MemoryTypeOK, Serves, CheckEffect
  <1>4. QED
    BY <1>2, <1>3 DEF TypeInv, TypeOK

LEMMA MarkEffectType ==
  ASSUME TypeInv, NEW t \in Threads, MarkEffect(t)
  PROVE  TypeInv'
  <1> DEFINE label == AfterEffect(event[t], TRUE)
  <1>1. label \in PcValues
    BY DEF PcValues, AfterEffect
  <1>2. ThreadTypeOK'
    BY <1>1, ThreadFacts, EventFacts DEF MarkEffect, ThreadTypeOK, Serves, AfterEffect
  <1>3. Serves(label, event'[t], draft'[t], applied'[t])
    BY ThreadFacts, EventFacts DEF MarkEffect, ThreadTypeOK, Serves, AfterEffect
  <1>4. StepsServeEvents'
    BY <1>1, <1>2, <1>3, MoveType, ThreadFacts DEF MarkEffect, ThreadTypeOK
  <1>5. DatabaseTypeOK' /\ MemoryTypeOK' /\ faults' \in 0 .. MaxFaults
    BY ThreadFacts, EventFacts DEF TypeInv, TypeOK, DatabaseTypeOK, MemoryTypeOK, Serves, MarkEffect, EffectIdentity
  <1>6. QED
    BY <1>2, <1>4, <1>5 DEF TypeInv, TypeOK

LEMMA SumDeltaType ==
  ASSUME TypeInv, NEW t \in Threads, SumDelta(t)
  PROVE  TypeInv'
  <1> DEFINE label == "list"
  <1>1. label \in PcValues
    BY DEF PcValues, Targets, Projection, Counted, DatabaseTypeOK
  <1>2. ThreadTypeOK'
    BY <1>1, ThreadFacts, EventFacts DEF SumDelta, ThreadTypeOK, Serves, Targets, Projection, Counted, DatabaseTypeOK
  <1>3. Serves(label, event'[t], draft'[t], applied'[t])
    BY ThreadFacts, EventFacts DEF SumDelta, ThreadTypeOK, Serves, Targets, Projection, Counted, DatabaseTypeOK
  <1>4. StepsServeEvents'
    BY <1>1, <1>2, <1>3, MoveType, ThreadFacts DEF SumDelta, ThreadTypeOK
  <1>5. DatabaseTypeOK' /\ MemoryTypeOK' /\ faults' \in 0 .. MaxFaults
    BY ThreadFacts, EventFacts DEF TypeInv, TypeOK, DatabaseTypeOK, MemoryTypeOK, Serves, SumDelta
  <1>6. QED
    BY <1>2, <1>4, <1>5 DEF TypeInv, TypeOK

LEMMA ListEvidenceType ==
  ASSUME TypeInv, NEW t \in Threads, ListEvidence(t)
  PROVE  TypeInv'
  <1> DEFINE label == "find"
  <1>1. label \in PcValues
    BY DEF PcValues, Projection, Counted, DatabaseTypeOK
  <1>2. ThreadTypeOK'
    BY <1>1, ThreadFacts, EventFacts DEF ListEvidence, ThreadTypeOK, Serves, Projection, Counted, DatabaseTypeOK
  <1>3. Serves(label, event'[t], draft'[t], applied'[t])
    BY ThreadFacts, EventFacts DEF ListEvidence, ThreadTypeOK, Serves, Projection, Counted, DatabaseTypeOK
  <1>4. StepsServeEvents'
    BY <1>1, <1>2, <1>3, MoveType, ThreadFacts DEF ListEvidence, ThreadTypeOK
  <1>5. DatabaseTypeOK' /\ MemoryTypeOK' /\ faults' \in 0 .. MaxFaults
    BY ThreadFacts, EventFacts DEF TypeInv, TypeOK, DatabaseTypeOK, MemoryTypeOK, Serves, ListEvidence
  <1>6. QED
    BY <1>2, <1>4, <1>5 DEF TypeInv, TypeOK

LEMMA FindProjectionType ==
  ASSUME TypeInv, NEW t \in Threads, FindProjection(t)
  PROVE  TypeInv'
  <1>1. PICK n \in Nat : slot' = [slot EXCEPT ![t] = n]
    <2>1. DOMAIN projections \subseteq Nat
      BY ThreadFacts DEF MemoryTypeOK
    <2>2. QED
      BY <2>1 DEF FindProjection
  <1>2. ThreadTypeOK'
    BY <1>1, ThreadFacts DEF FindProjection, ThreadTypeOK, PcValues
  <1>3. Serves("store", event'[t], draft'[t], applied'[t])
    BY ThreadFacts DEF FindProjection, ThreadTypeOK, Serves
  <1>4. StepsServeEvents'
    BY <1>2, <1>3, MoveType, ThreadFacts DEF FindProjection, ThreadTypeOK, PcValues
  <1>5. DatabaseTypeOK' /\ MemoryTypeOK' /\ faults' \in 0 .. MaxFaults
    BY DEF FindProjection, TypeInv, TypeOK, DatabaseTypeOK, MemoryTypeOK
  <1>6. QED
    BY <1>2, <1>4, <1>5 DEF TypeInv, TypeOK

LEMMA StoreProjectionType ==
  ASSUME TypeInv, NEW t \in Threads, StoreProjection(t)
  PROVE  TypeInv'
  <1>1. draft[t] \in Projection
    BY ThreadFacts DEF StoreProjection, Serves
  <1>2. DatabaseTypeOK' /\ MemoryTypeOK' /\ faults' \in 0 .. MaxFaults
    <2>1. \/ projections' = projections
          \/ projections' = Append(projections, draft[t])
          \/ projections' = [projections EXCEPT ![slot[t]] = draft[t]]
      BY DEF StoreProjection
    <2>2. projections \in Seq(Projection)
      BY ThreadFacts DEF MemoryTypeOK
    <2>3. projections' \in Seq(Projection)
      BY <2>1, <2>2, <1>1, ExceptSeq
    <2>4. QED
      BY <2>3 DEF StoreProjection, TypeInv, TypeOK, DatabaseTypeOK, MemoryTypeOK
  <1>3. ThreadTypeOK' /\ StepsServeEvents'
    <2>1. CASE Finish(t)
      BY <2>1, FinishType
    <2>2. CASE ~Finish(t) /\ event[t] = NoEvent
      <3>1. /\ pc' = [pc EXCEPT ![t] = "sum"]
            /\ todo' = [todo EXCEPT ![t] = todo[t] \ {draft[t].item}]
            /\ draft' = [draft EXCEPT ![t] = NoDraft]
            /\ slot' = [slot EXCEPT ![t] = 0]
            /\ UNCHANGED <<event, applied, firstNew>>
        BY <2>2 DEF StoreProjection, AfterStore
      <3>2. ThreadTypeOK'
        BY <3>1, ThreadFacts DEF ThreadTypeOK, PcValues
      <3>3. Serves("sum", event'[t], draft'[t], applied'[t])
        BY <3>1, <2>2, ThreadFacts DEF ThreadTypeOK, Serves, StoreProjection
      <3>4. QED
        BY <3>1, <3>2, <3>3, MoveType, ThreadFacts DEF ThreadTypeOK, PcValues
    <2>3. CASE ~Finish(t) /\ event[t] # NoEvent
      <3> DEFINE label == IF applied[t] THEN "announce" ELSE "register"
      <3>1. /\ pc' = [pc EXCEPT ![t] = label]
            /\ draft' = [draft EXCEPT ![t] = NoDraft]
            /\ slot' = [slot EXCEPT ![t] = 0]
            /\ UNCHANGED <<event, applied, firstNew, todo>>
        BY <2>3 DEF StoreProjection, AfterStore
      <3>2. ThreadTypeOK' /\ label \in PcValues
        BY <3>1, ThreadFacts DEF ThreadTypeOK, PcValues
      <3>3. Serves(label, event'[t], draft'[t], applied'[t])
        BY <3>1, <2>3, ThreadFacts DEF ThreadTypeOK, Serves, StoreProjection
      <3>4. QED
        BY <3>1, <3>2, <3>3, MoveType, ThreadFacts DEF ThreadTypeOK
    <2>4. QED
      BY <2>1, <2>2, <2>3
  <1>4. QED
    BY <1>2, <1>3 DEF TypeInv, TypeOK

LEMMA AnnounceType ==
  ASSUME TypeInv, NEW t \in Threads, Announce(t)
  PROVE  TypeInv'
  <1> DEFINE label == "register"
  <1>1. label \in PcValues /\ Serves(label, event[t], draft[t], applied[t])
    BY ThreadFacts, EventFacts DEF Announce, Serves, PcValues
  <1>2. ThreadTypeOK' /\ StepsServeEvents'
    BY <1>1, StayType DEF Announce
  <1>3. DatabaseTypeOK' /\ MemoryTypeOK' /\ faults' \in 0 .. MaxFaults
    BY ThreadFacts, EventFacts DEF TypeInv, TypeOK, DatabaseTypeOK, MemoryTypeOK, Serves, Announce
  <1>4. QED
    BY <1>2, <1>3 DEF TypeInv, TypeOK

LEMMA RegisterType ==
  ASSUME TypeInv, NEW t \in Threads, Register(t)
  PROVE  TypeInv'
  <1>1. Finish(t)
    BY DEF Register
  <1>2. DatabaseTypeOK' /\ MemoryTypeOK' /\ faults' \in 0 .. MaxFaults
    <2>1. insights \in Seq(Events) /\ lookups \subseteq Nat \X Nat /\ firstNew[t] \in Nat
      BY ThreadFacts DEF MemoryTypeOK, ThreadTypeOK
    <2>2. OwnNew(t) \subseteq Nat /\ \A id : Recorded(id) \subseteq Nat
      BY <2>1 DEF OwnNew, Recorded
    <2>3. lookups' \subseteq Nat \X Nat
      BY <2>1, <2>2 DEF Register
    <2>4. QED
      BY <2>3, ThreadFacts DEF Register, TypeInv, TypeOK, DatabaseTypeOK, MemoryTypeOK
  <1>3. QED
    BY <1>1, <1>2, FinishType DEF TypeInv, TypeOK

LEMMA GetInventoryType ==
  ASSUME TypeInv, NEW t \in Threads, GetInventory(t)
  PROVE  TypeInv'
  <1> DEFINE label == "scan"
  <1>1. label \in PcValues /\ Serves(label, event[t], draft[t], applied[t])
    BY ThreadFacts, EventFacts DEF GetInventory, Serves, PcValues
  <1>2. ThreadTypeOK' /\ StepsServeEvents'
    BY <1>1, StayType DEF GetInventory
  <1>3. DatabaseTypeOK' /\ MemoryTypeOK' /\ faults' \in 0 .. MaxFaults
    BY ThreadFacts, EventFacts DEF TypeInv, TypeOK, DatabaseTypeOK, MemoryTypeOK, Serves, GetInventory
  <1>4. QED
    BY <1>2, <1>3 DEF TypeInv, TypeOK

LEMMA ScanSnapshotsType ==
  ASSUME TypeInv, NEW t \in Threads, ScanSnapshots(t)
  PROVE  TypeInv'
  <1> DEFINE label == "clear"
  <1>1. label \in PcValues
    BY DEF PcValues, DatabaseTypeOK
  <1>2. ThreadTypeOK'
    BY <1>1, ThreadFacts, EventFacts DEF ScanSnapshots, ThreadTypeOK, Serves, DatabaseTypeOK
  <1>3. Serves(label, event'[t], draft'[t], applied'[t])
    BY ThreadFacts, EventFacts DEF ScanSnapshots, ThreadTypeOK, Serves, DatabaseTypeOK
  <1>4. StepsServeEvents'
    BY <1>1, <1>2, <1>3, MoveType, ThreadFacts DEF ScanSnapshots, ThreadTypeOK
  <1>5. DatabaseTypeOK' /\ MemoryTypeOK' /\ faults' \in 0 .. MaxFaults
    BY ThreadFacts, EventFacts DEF TypeInv, TypeOK, DatabaseTypeOK, MemoryTypeOK, Serves, ScanSnapshots
  <1>6. QED
    BY <1>2, <1>4, <1>5 DEF TypeInv, TypeOK

LEMMA ClearProjectionsType ==
  ASSUME TypeInv, NEW t \in Threads, ClearProjections(t)
  PROVE  TypeInv'
  <1>1. CASE todo[t] = {}
    <2>1. Finish(t)
      BY <1>1 DEF ClearProjections
    <2>2. DatabaseTypeOK' /\ MemoryTypeOK' /\ faults' \in 0 .. MaxFaults
      BY <1>1, ThreadFacts, EventFacts DEF TypeInv, TypeOK, DatabaseTypeOK, MemoryTypeOK, Serves, ClearProjections
    <2>3. QED
      BY <2>1, <2>2, FinishType DEF TypeInv, TypeOK
  <1>2. CASE todo[t] # {}
    <2> DEFINE label == "sum"
    <2>1. label \in PcValues /\ Serves(label, event[t], draft[t], applied[t])
      BY <1>2, ThreadFacts, EventFacts DEF ClearProjections, Serves, PcValues
    <2>2. ThreadTypeOK' /\ StepsServeEvents'
      BY <1>2, <2>1, StayType DEF ClearProjections
    <2>3. DatabaseTypeOK' /\ MemoryTypeOK' /\ faults' \in 0 .. MaxFaults
      BY <1>2, ThreadFacts, EventFacts DEF TypeInv, TypeOK, DatabaseTypeOK, MemoryTypeOK, Serves, ClearProjections
    <2>4. QED
      BY <2>2, <2>3 DEF TypeInv, TypeOK
  <1>3. QED
    BY <1>1, <1>2 DEF ClearProjections

LEMMA DatabaseFailureType ==
  ASSUME TypeInv, NEW t \in Threads, DatabaseFailure(t)
  PROVE  TypeInv'
  <1>1. Finish(t)
    BY DEF DatabaseFailure
  <1>2. DatabaseTypeOK' /\ MemoryTypeOK' /\ faults' \in 0 .. MaxFaults
    BY ThreadFacts, EventFacts, EventsAssumption
       DEF DatabaseFailure, TypeInv, TypeOK, DatabaseTypeOK, MemoryTypeOK, Serves
  <1>3. QED
    BY <1>1, <1>2, FinishType DEF TypeInv, TypeOK

LEMMA LostCommitType ==
  ASSUME TypeInv, NEW t \in Threads, LostCommit(t)
  PROVE  TypeInv'
  <1>1. Finish(t)
    BY DEF LostCommit
  <1>2. DatabaseTypeOK' /\ MemoryTypeOK' /\ faults' \in 0 .. MaxFaults
    BY ThreadFacts, EventFacts, EventsAssumption
       DEF LostCommit, TypeInv, TypeOK, DatabaseTypeOK, MemoryTypeOK, Serves
  <1>3. QED
    BY <1>1, <1>2, FinishType DEF TypeInv, TypeOK

LEMMA RestartType ==
  ASSUME TypeInv, Restart
  PROVE  TypeInv'
  <1>1. DatabaseTypeOK' /\ faults' \in 0 .. MaxFaults
    BY EventsAssumption DEF Restart, TypeInv, TypeOK, DatabaseTypeOK
  <1>2. MemoryTypeOK' /\ ThreadTypeOK'
    BY DEF Restart, MemoryTypeOK, ThreadTypeOK, PcValues
  <1>3. StepsServeEvents'
    BY DEF Restart, StepsServeEvents, Serves
  <1>4. QED
    BY <1>1, <1>2, <1>3 DEF TypeInv, TypeOK

LEMMA NextType == TypeInv /\ [Next]_vars => TypeInv'
  <1> SUFFICES ASSUME TypeInv, [Next]_vars PROVE TypeInv'
    OBVIOUS
  <1>1. CASE UNCHANGED vars
    BY <1>1 DEF vars, threadVars, TypeInv, TypeOK, DatabaseTypeOK, MemoryTypeOK,
         ThreadTypeOK, StepsServeEvents
  <1>2. ASSUME NEW t \in Threads, Step(t) PROVE TypeInv'
    BY <1>2, AcceptType, CheckFactType, RecordFactType, ReadSnapshotType, SeedSnapshotType,
       SelectRowType, InsertRowType, CheckEffectType, MarkEffectType, SumDeltaType,
       ListEvidenceType, FindProjectionType, StoreProjectionType, AnnounceType,
       RegisterType, ScanSnapshotsType, ClearProjectionsType DEF Step
  <1>3. QED
    BY <1>1, <1>2, ReceiveType, GetInventoryType, DatabaseFailureType, LostCommitType,
       RestartType DEF Next

\* Every variable keeps its type, and every step of a thread finds the event
\* and the draft it needs in the thread's locals.
LEMMA TypeInvariance == Spec => []TypeInv
  BY InitType, NextType, PTL DEF Spec

\* Every variable has its type in every reachable state.
THEOREM TypeCorrect == Spec => []TypeOK
  <1>1. TypeInv => TypeOK
    BY DEF TypeInv
  <1>2. QED
    BY <1>1, TypeInvariance, PTL

-----------------------------------------------------------------------------
(***************************************************************************)
(* The effect invariant.  Most steps neither touch the ledger and the      *)
(* insights nor put a thread on its way to an insight: they are quiet.     *)
(***************************************************************************)
LEMMA InitEffect == Init => EffectInv
  BY DEF Init, EffectInv, OneRowPerBusinessKey, AnsweredSaleIsOnLedger, Answered,
       HolderIsAlone, Holds, InsightNamesLedgerSource, EffectOncePerBusinessKey

OnLedger(e) == \E row \in ledger : row.key = BusinessKey(e) /\ row.fact = e.fact

\* A step that appends nothing to the insights and makes no thread a holder
\* preserves the invariant when the ledger only grows and stays functional.
LEMMA QuietStep ==
  ASSUME TypeInv, EffectInv,
         ledger \subseteq ledger', OneRowPerBusinessKey', insights' = insights,
         \A u \in Threads : Holds(u)' => Holds(u) /\ event'[u] = event[u],
         \A u \in Threads : Answered(u)' =>
           \/ Answered(u) /\ event'[u] = event[u]
           \/ \E row \in ledger' : /\ row.key = BusinessKey(event'[u])
                                   /\ row.fact = event'[u].fact
  PROVE  EffectInv'
  <1>1. AnsweredSaleIsOnLedger'
    BY DEF EffectInv, AnsweredSaleIsOnLedger, RowsOf
  <1>2. HolderIsAlone'
    BY DEF EffectInv, HolderIsAlone
  <1>3. InsightNamesLedgerSource' /\ EffectOncePerBusinessKey'
    BY DEF EffectInv, InsightNamesLedgerSource, EffectOncePerBusinessKey
  <1>4. QED
    BY <1>1, <1>2, <1>3 DEF EffectInv

LEMMA AcceptEffect ==
  ASSUME TypeInv, EffectInv, NEW t \in Threads, Accept(t)
  PROVE  EffectInv'
  <1>1. \A u \in Threads : Holds(u)' => Holds(u) /\ event'[u] = event[u]
    BY ThreadFacts DEF Accept, Holds, Serves, ThreadTypeOK, AfterInbox
  <1>2. \A u \in Threads : Answered(u)' => Answered(u) /\ event'[u] = event[u]
    BY ThreadFacts DEF Accept, Answered, Serves, ThreadTypeOK, AfterInbox
  <1>3. UNCHANGED <<ledger, insights>> /\ OneRowPerBusinessKey'
    BY DEF Accept, EffectInv, OneRowPerBusinessKey
  <1>4. QED
    BY <1>1, <1>2, <1>3, QuietStep

LEMMA CheckFactEffect ==
  ASSUME TypeInv, EffectInv, NEW t \in Threads, CheckFact(t)
  PROVE  EffectInv'
  <1>1. \A u \in Threads : Holds(u)' => Holds(u) /\ event'[u] = event[u]
    BY ThreadFacts DEF CheckFact, Holds, Serves, ThreadTypeOK
  <1>2. \A u \in Threads : Answered(u)' => Answered(u) /\ event'[u] = event[u]
    BY ThreadFacts DEF CheckFact, Answered, Serves, ThreadTypeOK
  <1>3. UNCHANGED <<ledger, insights>> /\ OneRowPerBusinessKey'
    BY DEF CheckFact, EffectInv, OneRowPerBusinessKey
  <1>4. QED
    BY <1>1, <1>2, <1>3, QuietStep

LEMMA RecordFactEffect ==
  ASSUME TypeInv, EffectInv, NEW t \in Threads, RecordFact(t)
  PROVE  EffectInv'
  <1>1. \A u \in Threads : Holds(u)' => Holds(u) /\ event'[u] = event[u]
    BY ThreadFacts DEF RecordFact, Holds, Serves, ThreadTypeOK
  <1>2. \A u \in Threads : Answered(u)' => Answered(u) /\ event'[u] = event[u]
    BY ThreadFacts DEF RecordFact, Answered, Serves, ThreadTypeOK
  <1>3. UNCHANGED <<ledger, insights>> /\ OneRowPerBusinessKey'
    BY DEF RecordFact, EffectInv, OneRowPerBusinessKey
  <1>4. QED
    BY <1>1, <1>2, <1>3, QuietStep

LEMMA ReadSnapshotEffect ==
  ASSUME TypeInv, EffectInv, NEW t \in Threads, ReadSnapshot(t)
  PROVE  EffectInv'
  <1>1. \A u \in Threads : Holds(u)' => Holds(u) /\ event'[u] = event[u]
    BY ThreadFacts DEF ReadSnapshot, Holds, Serves, ThreadTypeOK, Finish
  <1>2. \A u \in Threads : Answered(u)' => Answered(u) /\ event'[u] = event[u]
    BY ThreadFacts DEF ReadSnapshot, Answered, Serves, ThreadTypeOK, Finish
  <1>3. UNCHANGED <<ledger, insights>> /\ OneRowPerBusinessKey'
    BY DEF ReadSnapshot, EffectInv, OneRowPerBusinessKey
  <1>4. QED
    BY <1>1, <1>2, <1>3, QuietStep

LEMMA SeedSnapshotEffect ==
  ASSUME TypeInv, EffectInv, NEW t \in Threads, SeedSnapshot(t)
  PROVE  EffectInv'
  <1>1. \A u \in Threads : Holds(u)' => Holds(u) /\ event'[u] = event[u]
    BY ThreadFacts DEF SeedSnapshot, Holds, Serves, ThreadTypeOK, Finish
  <1>2. \A u \in Threads : Answered(u)' => Answered(u) /\ event'[u] = event[u]
    BY ThreadFacts DEF SeedSnapshot, Answered, Serves, ThreadTypeOK, Finish
  <1>3. UNCHANGED <<ledger, insights>> /\ OneRowPerBusinessKey'
    BY DEF SeedSnapshot, EffectInv, OneRowPerBusinessKey
  <1>4. QED
    BY <1>1, <1>2, <1>3, QuietStep

LEMMA CheckEffectEffect ==
  ASSUME TypeInv, EffectInv, NEW t \in Threads, CheckEffect(t)
  PROVE  EffectInv'
  <1>1. \A u \in Threads : Holds(u)' => Holds(u) /\ event'[u] = event[u]
    BY ThreadFacts DEF CheckEffect, Holds, Serves, ThreadTypeOK, AfterEffect
  <1>2. \A u \in Threads : Answered(u)' => Answered(u) /\ event'[u] = event[u]
    BY ThreadFacts DEF CheckEffect, Answered, Serves, ThreadTypeOK, AfterEffect
  <1>3. UNCHANGED <<ledger, insights>> /\ OneRowPerBusinessKey'
    BY DEF CheckEffect, EffectInv, OneRowPerBusinessKey
  <1>4. QED
    BY <1>1, <1>2, <1>3, QuietStep

LEMMA MarkEffectEffect ==
  ASSUME TypeInv, EffectInv, NEW t \in Threads, MarkEffect(t)
  PROVE  EffectInv'
  <1>1. \A u \in Threads : Holds(u)' => Holds(u) /\ event'[u] = event[u]
    BY ThreadFacts DEF MarkEffect, Holds, Serves, ThreadTypeOK, AfterEffect
  <1>2. \A u \in Threads : Answered(u)' => Answered(u) /\ event'[u] = event[u]
    BY ThreadFacts DEF MarkEffect, Answered, Serves, ThreadTypeOK, AfterEffect
  <1>3. UNCHANGED <<ledger, insights>> /\ OneRowPerBusinessKey'
    BY DEF MarkEffect, EffectInv, OneRowPerBusinessKey
  <1>4. QED
    BY <1>1, <1>2, <1>3, QuietStep

LEMMA SumDeltaEffect ==
  ASSUME TypeInv, EffectInv, NEW t \in Threads, SumDelta(t)
  PROVE  EffectInv'
  <1>1. \A u \in Threads : Holds(u)' => Holds(u) /\ event'[u] = event[u]
    BY ThreadFacts DEF SumDelta, Holds, Serves, ThreadTypeOK
  <1>2. \A u \in Threads : Answered(u)' => Answered(u) /\ event'[u] = event[u]
    BY ThreadFacts DEF SumDelta, Answered, Serves, ThreadTypeOK
  <1>3. UNCHANGED <<ledger, insights>> /\ OneRowPerBusinessKey'
    BY DEF SumDelta, EffectInv, OneRowPerBusinessKey
  <1>4. QED
    BY <1>1, <1>2, <1>3, QuietStep

LEMMA ListEvidenceEffect ==
  ASSUME TypeInv, EffectInv, NEW t \in Threads, ListEvidence(t)
  PROVE  EffectInv'
  <1>1. \A u \in Threads : Holds(u)' => Holds(u) /\ event'[u] = event[u]
    BY ThreadFacts DEF ListEvidence, Holds, Serves, ThreadTypeOK
  <1>2. \A u \in Threads : Answered(u)' => Answered(u) /\ event'[u] = event[u]
    BY ThreadFacts DEF ListEvidence, Answered, Serves, ThreadTypeOK
  <1>3. UNCHANGED <<ledger, insights>> /\ OneRowPerBusinessKey'
    BY DEF ListEvidence, EffectInv, OneRowPerBusinessKey
  <1>4. QED
    BY <1>1, <1>2, <1>3, QuietStep

LEMMA FindProjectionEffect ==
  ASSUME TypeInv, EffectInv, NEW t \in Threads, FindProjection(t)
  PROVE  EffectInv'
  <1>1. \A u \in Threads : Holds(u)' => Holds(u) /\ event'[u] = event[u]
    BY ThreadFacts DEF FindProjection, Holds, Serves, ThreadTypeOK
  <1>2. \A u \in Threads : Answered(u)' => Answered(u) /\ event'[u] = event[u]
    BY ThreadFacts DEF FindProjection, Answered, Serves, ThreadTypeOK
  <1>3. UNCHANGED <<ledger, insights>> /\ OneRowPerBusinessKey'
    BY DEF FindProjection, EffectInv, OneRowPerBusinessKey
  <1>4. QED
    BY <1>1, <1>2, <1>3, QuietStep

LEMMA StoreProjectionEffect ==
  ASSUME TypeInv, EffectInv, NEW t \in Threads, StoreProjection(t)
  PROVE  EffectInv'
  <1>1. \A u \in Threads : Holds(u)' => Holds(u) /\ event'[u] = event[u]
    BY ThreadFacts DEF StoreProjection, Holds, Serves, ThreadTypeOK, Finish, AfterStore
  <1>2. \A u \in Threads : Answered(u)' => Answered(u) /\ event'[u] = event[u]
    BY ThreadFacts DEF StoreProjection, Answered, Serves, ThreadTypeOK, Finish, AfterStore
  <1>3. UNCHANGED <<ledger, insights>> /\ OneRowPerBusinessKey'
    BY DEF StoreProjection, EffectInv, OneRowPerBusinessKey
  <1>4. QED
    BY <1>1, <1>2, <1>3, QuietStep

LEMMA RegisterEffect ==
  ASSUME TypeInv, EffectInv, NEW t \in Threads, Register(t)
  PROVE  EffectInv'
  <1>1. \A u \in Threads : Holds(u)' => Holds(u) /\ event'[u] = event[u]
    BY ThreadFacts DEF Register, Holds, Serves, ThreadTypeOK, Finish
  <1>2. \A u \in Threads : Answered(u)' => Answered(u) /\ event'[u] = event[u]
    BY ThreadFacts DEF Register, Answered, Serves, ThreadTypeOK, Finish
  <1>3. UNCHANGED <<ledger, insights>> /\ OneRowPerBusinessKey'
    BY DEF Register, EffectInv, OneRowPerBusinessKey
  <1>4. QED
    BY <1>1, <1>2, <1>3, QuietStep

LEMMA GetInventoryEffect ==
  ASSUME TypeInv, EffectInv, NEW t \in Threads, GetInventory(t)
  PROVE  EffectInv'
  <1>1. \A u \in Threads : Holds(u)' => Holds(u) /\ event'[u] = event[u]
    BY ThreadFacts DEF GetInventory, Holds, Serves, ThreadTypeOK
  <1>2. \A u \in Threads : Answered(u)' => Answered(u) /\ event'[u] = event[u]
    BY ThreadFacts DEF GetInventory, Answered, Serves, ThreadTypeOK
  <1>3. UNCHANGED <<ledger, insights>> /\ OneRowPerBusinessKey'
    BY DEF GetInventory, EffectInv, OneRowPerBusinessKey
  <1>4. QED
    BY <1>1, <1>2, <1>3, QuietStep

LEMMA ScanSnapshotsEffect ==
  ASSUME TypeInv, EffectInv, NEW t \in Threads, ScanSnapshots(t)
  PROVE  EffectInv'
  <1>1. \A u \in Threads : Holds(u)' => Holds(u) /\ event'[u] = event[u]
    BY ThreadFacts DEF ScanSnapshots, Holds, Serves, ThreadTypeOK
  <1>2. \A u \in Threads : Answered(u)' => Answered(u) /\ event'[u] = event[u]
    BY ThreadFacts DEF ScanSnapshots, Answered, Serves, ThreadTypeOK
  <1>3. UNCHANGED <<ledger, insights>> /\ OneRowPerBusinessKey'
    BY DEF ScanSnapshots, EffectInv, OneRowPerBusinessKey
  <1>4. QED
    BY <1>1, <1>2, <1>3, QuietStep

LEMMA ClearProjectionsEffect ==
  ASSUME TypeInv, EffectInv, NEW t \in Threads, ClearProjections(t)
  PROVE  EffectInv'
  <1>1. \A u \in Threads : Holds(u)' => Holds(u) /\ event'[u] = event[u]
    BY ThreadFacts DEF ClearProjections, Holds, Serves, ThreadTypeOK, Finish
  <1>2. \A u \in Threads : Answered(u)' => Answered(u) /\ event'[u] = event[u]
    BY ThreadFacts DEF ClearProjections, Answered, Serves, ThreadTypeOK, Finish
  <1>3. UNCHANGED <<ledger, insights>> /\ OneRowPerBusinessKey'
    BY DEF ClearProjections, EffectInv, OneRowPerBusinessKey
  <1>4. QED
    BY <1>1, <1>2, <1>3, QuietStep

LEMMA DatabaseFailureEffect ==
  ASSUME TypeInv, EffectInv, NEW t \in Threads, DatabaseFailure(t)
  PROVE  EffectInv'
  <1>1. \A u \in Threads : Holds(u)' => Holds(u) /\ event'[u] = event[u]
    BY ThreadFacts DEF DatabaseFailure, Holds, Serves, ThreadTypeOK, Finish
  <1>2. \A u \in Threads : Answered(u)' => Answered(u) /\ event'[u] = event[u]
    BY ThreadFacts DEF DatabaseFailure, Answered, Serves, ThreadTypeOK, Finish
  <1>3. UNCHANGED <<ledger, insights>> /\ OneRowPerBusinessKey'
    BY DEF DatabaseFailure, EffectInv, OneRowPerBusinessKey
  <1>4. QED
    BY <1>1, <1>2, <1>3, QuietStep

LEMMA ReceiveEffect ==
  ASSUME TypeInv, EffectInv, NEW t \in Threads, NEW e \in Events, Receive(t, e)
  PROVE  EffectInv'
  <1>1. \A u \in Threads : Holds(u)' => Holds(u) /\ event'[u] = event[u]
    BY ThreadFacts DEF Receive, Holds, Serves, ThreadTypeOK, AfterInbox
  <1>2. \A u \in Threads : Answered(u)' => Answered(u) /\ event'[u] = event[u]
    BY ThreadFacts DEF Receive, Answered, Serves, ThreadTypeOK, AfterInbox
  <1>3. UNCHANGED <<ledger, insights>> /\ OneRowPerBusinessKey'
    BY DEF Receive, EffectInv, OneRowPerBusinessKey
  <1>4. QED
    BY <1>1, <1>2, <1>3, QuietStep

\* A row that classifies a repeated key as a replay carries the same fact.
LEMMA ReplayHasRow ==
  ASSUME NEW t \in Threads, RowsOf(BusinessKey(event[t])) # {}, Classify(t) = "sum"
  PROVE  \E row \in ledger : row.key = BusinessKey(event[t]) /\ row.fact = event[t].fact
  BY DEF Classify, RowsOf

\* The classification of a repeated key: the thread answers a replay or ends.
LEMMA ClassifyEffect ==
  ASSUME TypeInv, EffectInv, NEW t \in Threads, pc[t] \in {"select", "insert"},
         RowsOf(BusinessKey(event[t])) # {},
         pc' = [pc EXCEPT ![t] = Classify(t)],
         UNCHANGED <<ledger, insights, localVars>>
  PROVE  EffectInv'
  <1>1. Classify(t) \in {"sum", "register"}
    BY DEF Classify
  <1>2. ~applied[t]
    BY ThreadFacts DEF Serves
  <1>3. \A u \in Threads : Holds(u)' => Holds(u) /\ event'[u] = event[u]
    BY <1>1, <1>2, ThreadFacts DEF Holds, ThreadTypeOK
  <1>4. \A u \in Threads : Answered(u)' =>
          \/ Answered(u) /\ event'[u] = event[u]
          \/ \E row \in ledger' : /\ row.key = BusinessKey(event'[u])
                                  /\ row.fact = event'[u].fact
    <2>1. ASSUME NEW u \in Threads, u # t, Answered(u)'
          PROVE  Answered(u) /\ event'[u] = event[u]
      BY <2>1, ThreadFacts DEF Answered, ThreadTypeOK
    <2>2. ASSUME Answered(t)'
          PROVE  \E row \in ledger' : /\ row.key = BusinessKey(event'[t])
                                      /\ row.fact = event'[t].fact
      <3>1. Classify(t) = "sum"
        BY <2>2, <1>1, ThreadFacts DEF Answered, ThreadTypeOK
      <3>2. QED
        BY <3>1, ReplayHasRow
    <2>3. QED
      BY <2>1, <2>2
  <1>5. OneRowPerBusinessKey'
    BY DEF EffectInv, OneRowPerBusinessKey
  <1>6. QED
    BY <1>3, <1>4, <1>5, QuietStep

LEMMA SelectRowEffect ==
  ASSUME TypeInv, EffectInv, NEW t \in Threads, SelectRow(t)
  PROVE  EffectInv'
  <1>1. CASE RowsOf(BusinessKey(event[t])) # {}
    BY <1>1, ClassifyEffect DEF SelectRow
  <1>2. CASE RowsOf(BusinessKey(event[t])) = {}
    <2>1. \A u \in Threads : Holds(u)' => Holds(u) /\ event'[u] = event[u]
      BY <1>2, ThreadFacts DEF SelectRow, Holds, Serves, ThreadTypeOK
    <2>2. \A u \in Threads : Answered(u)' => Answered(u) /\ event'[u] = event[u]
      BY <1>2, ThreadFacts DEF SelectRow, Answered, Serves, ThreadTypeOK
    <2>3. UNCHANGED <<ledger, insights>> /\ OneRowPerBusinessKey'
      BY DEF SelectRow, EffectInv, OneRowPerBusinessKey
    <2>4. QED
      BY <2>1, <2>2, <2>3, QuietStep
  <1>3. QED
    BY <1>1, <1>2

\* A row that is inserted when its key has none keeps the ledger functional.
LEMMA InsertKeepsOneRow ==
  ASSUME EffectInv, NEW e \in Events, Keyed(e), RowsOf(BusinessKey(e)) = {},
         ledger' = ledger \union {Row(e)}
  PROVE  OneRowPerBusinessKey'
  BY EventFacts DEF EffectInv, OneRowPerBusinessKey, RowsOf

LEMMA LostCommitEffect ==
  ASSUME TypeInv, EffectInv, NEW t \in Threads, LostCommit(t)
  PROVE  EffectInv'
  <1>1. \A u \in Threads : Holds(u)' => Holds(u) /\ event'[u] = event[u]
    BY ThreadFacts DEF LostCommit, Finish, Holds, Serves, ThreadTypeOK
  <1>2. \A u \in Threads : Answered(u)' => Answered(u) /\ event'[u] = event[u]
    BY ThreadFacts DEF LostCommit, Finish, Answered, Serves, ThreadTypeOK
  <1>3. ledger \subseteq ledger' /\ insights' = insights
    BY DEF LostCommit
  <1>4. OneRowPerBusinessKey'
    <2>1. CASE ledger' = ledger
      BY <2>1 DEF EffectInv, OneRowPerBusinessKey
    <2>2. CASE pc[t] = "insert" /\ RowsOf(BusinessKey(event[t])) = {}
                 /\ ledger' = ledger \union {Row(event[t])}
      BY <2>2, InsertKeepsOneRow, ThreadFacts DEF Serves
    <2>3. QED
      BY <2>1, <2>2 DEF LostCommit
  <1>5. QED
    BY <1>1, <1>2, <1>3, <1>4, QuietStep

\* The insert that succeeds makes its thread the only one on its way with the key.
LEMMA InsertNewRowEffect ==
  ASSUME TypeInv, EffectInv, NEW t \in Threads, InsertRow(t), pc[t] = "insert",
         RowsOf(BusinessKey(event[t])) = {}, ~SourceTaken(event[t])
  PROVE  EffectInv'
  <1> DEFINE e == event[t]
  <1>1. e \in Events /\ Keyed(e)
    BY ThreadFacts DEF Serves
  <1>2. /\ ledger' = ledger \union {Row(e)}
        /\ pc' = [pc EXCEPT ![t] = "effect"]
        /\ UNCHANGED localVars
        /\ insights' = insights
    BY DEF InsertRow
  <1>3. Row(e) \in ledger' /\ Row(e).key = BusinessKey(e) /\ Row(e).fact = e.fact
    BY <1>1, <1>2, EventFacts
  <1>4. \A row \in ledger : row.key # BusinessKey(e)
    BY DEF RowsOf
  <1>5. ASSUME NEW u \in Threads, u # t
        PROVE  /\ Holds(u)' => Holds(u)
               /\ Answered(u)' => Answered(u)
               /\ event'[u] = event[u]
    BY <1>2, <1>5, ThreadFacts DEF Holds, Answered, ThreadTypeOK
  <1>6. ASSUME NEW u \in Threads, u # t, Holds(u)
        PROVE  event[u] \in Events /\ Row(event[u]).key = BusinessKey(event[u])
    BY <1>6, ThreadFacts, EventFacts DEF Holds
  <1>7. ASSUME NEW i \in DOMAIN insights, Keyed(insights[i])
        PROVE  /\ Row(insights[i]) \in ledger
               /\ Row(insights[i]).key = BusinessKey(insights[i])
    <2>1. insights[i] \in Events
      BY ThreadFacts DEF MemoryTypeOK
    <2>2. QED
      BY <1>7, <2>1, EventFacts DEF EffectInv, InsightNamesLedgerSource
  <1>8. OneRowPerBusinessKey'
    BY <1>1, <1>2, InsertKeepsOneRow
  <1>9. AnsweredSaleIsOnLedger'
    BY <1>2, <1>3, <1>5 DEF EffectInv, AnsweredSaleIsOnLedger, RowsOf
  <1>10. HolderIsAlone'
    <2>1. ASSUME NEW u \in Threads, Holds(u)', u # t
          PROVE  /\ Row(event[u]) \in ledger
                 /\ BusinessKey(event[u]) # BusinessKey(e)
      BY <2>1, <1>4, <1>5, <1>6 DEF EffectInv, HolderIsAlone
    <2>2. \A i \in DOMAIN insights :
            Keyed(insights[i]) => BusinessKey(insights[i]) # BusinessKey(e)
      BY <1>4, <1>7
    <2>3. QED
      BY <2>1, <2>2, <1>2, <1>3, <1>5 DEF EffectInv, HolderIsAlone
  <1>11. InsightNamesLedgerSource' /\ EffectOncePerBusinessKey'
    BY <1>2 DEF EffectInv, InsightNamesLedgerSource, EffectOncePerBusinessKey
  <1>12. QED
    BY <1>8, <1>9, <1>10, <1>11 DEF EffectInv

LEMMA InsertRowEffect ==
  ASSUME TypeInv, EffectInv, NEW t \in Threads, InsertRow(t)
  PROVE  EffectInv'
  <1>1. CASE RowsOf(BusinessKey(event[t])) # {}
    BY <1>1, ClassifyEffect DEF InsertRow
  <1>2. CASE RowsOf(BusinessKey(event[t])) = {} /\ SourceTaken(event[t])
    <2>1. \A u \in Threads : Holds(u)' => Holds(u) /\ event'[u] = event[u]
      BY <1>2, ThreadFacts DEF InsertRow, Finish, Holds, Serves, ThreadTypeOK
    <2>2. \A u \in Threads : Answered(u)' => Answered(u) /\ event'[u] = event[u]
      BY <1>2, ThreadFacts DEF InsertRow, Finish, Answered, Serves, ThreadTypeOK
    <2>3. UNCHANGED <<ledger, insights>> /\ OneRowPerBusinessKey'
      BY <1>2 DEF InsertRow, EffectInv, OneRowPerBusinessKey
    <2>4. QED
      BY <2>1, <2>2, <2>3, QuietStep
  <1>3. CASE RowsOf(BusinessKey(event[t])) = {} /\ ~SourceTaken(event[t])
    BY <1>3, InsertNewRowEffect DEF InsertRow
  <1>4. QED
    BY <1>1, <1>2, <1>3

\* Appending an insight ends the thread's hold of the key.
LEMMA AnnounceEffect ==
  ASSUME TypeInv, EffectInv, NEW t \in Threads, Announce(t)
  PROVE  EffectInv'
  <1> DEFINE e == event[t]
  <1>1. e \in Events /\ insights \in Seq(Events)
    BY ThreadFacts DEF Announce, Serves, MemoryTypeOK
  <1>2. /\ pc' = [pc EXCEPT ![t] = "register"]
        /\ UNCHANGED <<ledger, localVars>>
        /\ insights' = Append(insights, e)
    BY DEF Announce
  <1>3. Keyed(e) => Holds(t)
    BY <1>1, ThreadFacts, EventFacts DEF Announce, Serves, Holds
  <1>4. /\ DOMAIN insights' = 1 .. Len(insights) + 1
        /\ \A i \in 1 .. Len(insights) : insights'[i] = insights[i]
        /\ insights'[Len(insights) + 1] = e
        /\ Len(insights) \in Nat /\ DOMAIN insights = 1 .. Len(insights)
    BY <1>1, <1>2
  <1>5. \A i \in DOMAIN insights' :
          \/ i \in DOMAIN insights /\ insights'[i] = insights[i]
          \/ i = Len(insights) + 1 /\ insights'[i] = e
    BY <1>4
  <1>6. ~Holds(t)'
    BY <1>2, ThreadFacts DEF Holds, ThreadTypeOK
  <1>7. ASSUME NEW u \in Threads, Holds(u)'
        PROVE  u # t /\ Holds(u) /\ event'[u] = event[u]
    <2>1. u # t
      BY <1>6, <1>7
    <2>2. QED
      BY <2>1, <1>2, <1>7, ThreadFacts DEF Holds, ThreadTypeOK
  <1>8. OneRowPerBusinessKey'
    BY <1>2 DEF EffectInv, OneRowPerBusinessKey
  <1>9. AnsweredSaleIsOnLedger'
    <2>1. \A u \in Threads : Answered(u)' => Answered(u) /\ event'[u] = event[u]
      BY <1>2, ThreadFacts DEF Answered, ThreadTypeOK
    <2>2. QED
      BY <2>1, <1>2 DEF EffectInv, AnsweredSaleIsOnLedger, RowsOf
  <1>10. HolderIsAlone'
    BY <1>2, <1>3, <1>5, <1>7 DEF EffectInv, HolderIsAlone
  <1>11. InsightNamesLedgerSource'
    BY <1>2, <1>3, <1>5 DEF EffectInv, InsightNamesLedgerSource, HolderIsAlone
  <1>12. EffectOncePerBusinessKey'
    BY <1>3, <1>4, <1>5 DEF EffectInv, EffectOncePerBusinessKey, HolderIsAlone
  <1>13. QED
    BY <1>8, <1>9, <1>10, <1>11, <1>12 DEF EffectInv

\* A restart leaves the ledger and nothing else.
LEMMA RestartEffect ==
  ASSUME TypeInv, EffectInv, Restart
  PROVE  EffectInv'
  <1>1. \A u \in Threads : ~Holds(u)' /\ ~Answered(u)'
    BY DEF Restart, Holds, Answered
  <1>2. insights' = <<>> /\ ledger' = ledger
    BY DEF Restart
  <1>3. QED
    BY <1>1, <1>2 DEF EffectInv, OneRowPerBusinessKey, AnsweredSaleIsOnLedger,
         HolderIsAlone, InsightNamesLedgerSource, EffectOncePerBusinessKey

LEMMA NextEffect == TypeInv /\ EffectInv /\ [Next]_vars => EffectInv'
  <1> SUFFICES ASSUME TypeInv, EffectInv, [Next]_vars PROVE EffectInv'
    OBVIOUS
  <1>1. CASE UNCHANGED vars
    <2>1. \A u \in Threads : /\ Holds(u)' => Holds(u) /\ event'[u] = event[u]
                             /\ Answered(u)' => Answered(u) /\ event'[u] = event[u]
      BY <1>1 DEF vars, threadVars, Holds, Answered
    <2>2. UNCHANGED <<ledger, insights>> /\ OneRowPerBusinessKey'
      BY <1>1 DEF vars, EffectInv, OneRowPerBusinessKey
    <2>3. QED
      BY <2>1, <2>2, QuietStep
  <1>2. ASSUME NEW t \in Threads, Step(t) PROVE EffectInv'
    BY <1>2, AcceptEffect, CheckFactEffect, RecordFactEffect, ReadSnapshotEffect,
       SeedSnapshotEffect, SelectRowEffect, InsertRowEffect, CheckEffectEffect,
       MarkEffectEffect, SumDeltaEffect, ListEvidenceEffect, FindProjectionEffect,
       StoreProjectionEffect, AnnounceEffect, RegisterEffect, ScanSnapshotsEffect,
       ClearProjectionsEffect DEF Step
  <1>3. QED
    BY <1>1, <1>2, ReceiveEffect, GetInventoryEffect, DatabaseFailureEffect,
       LostCommitEffect, RestartEffect DEF Next

\* The effect invariant holds in every reachable state.
THEOREM EffectInvariance == Spec => []EffectInv
  BY InitEffect, NextEffect, TypeInvariance, PTL DEF Spec

\* One insight per business key and life of the server, whatever the threads do.
THEOREM EffectOnce == Spec => []EffectOncePerBusinessKey
  <1>1. EffectInv => EffectOncePerBusinessKey
    BY DEF EffectInv
  <1>2. QED
    BY <1>1, EffectInvariance, PTL

\* An insight is about the event whose row is on the ledger.
THEOREM InsightSource == Spec => []InsightNamesLedgerSource
  <1>1. EffectInv => InsightNamesLedgerSource
    BY DEF EffectInv
  <1>2. QED
    BY <1>1, EffectInvariance, PTL

\* A keyed sale that goes on to be answered is on the ledger with its fact.
THEOREM AnsweredOnLedger == Spec => []AnsweredSaleIsOnLedger
  <1>1. EffectInv => AnsweredSaleIsOnLedger
    BY DEF EffectInv
  <1>2. QED
    BY <1>1, EffectInvariance, PTL

-----------------------------------------------------------------------------
(***************************************************************************)
(* Projections: the sum is read before the evidence and the ledger only    *)
(* grows, so a draft's sum stays within its evidence and both within the   *)
(* committed rows, however the two queries interleave with other commits.  *)
(***************************************************************************)
DraftExplained(label, d) ==
  /\ label \in {"list", "find", "store"} => d.summed \subseteq Counted(d.item)
  /\ label \in {"find", "store"} =>
       d.summed \subseteq d.evidence /\ d.evidence \subseteq Counted(d.item)

EvidenceInv ==
  /\ EvidenceExplainsDelta
  /\ \A t \in Threads : DraftExplained(pc[t], draft[t])

LEMMA CountedGrows ==
  ASSUME ledger \subseteq ledger', NEW item
  PROVE  Counted(item) \subseteq Counted(item)'
  BY DEF Counted

LEMMA ExplainedGrows ==
  ASSUME ledger \subseteq ledger', NEW label, NEW d, DraftExplained(label, d)
  PROVE  DraftExplained(label, d)'
  BY CountedGrows DEF DraftExplained

\* A step that leaves the projections alone and puts no thread into a refresh
\* with another draft preserves the invariant.
LEMMA QuietEvidence ==
  ASSUME EvidenceInv, ledger \subseteq ledger', projections' = projections,
         \A u \in Threads : \/ pc'[u] \notin {"list", "find", "store"}
                            \/ pc'[u] = pc[u] /\ draft'[u] = draft[u]
  PROVE  EvidenceInv'
  <1>1. EvidenceExplainsDelta'
    BY CountedGrows DEF EvidenceInv, EvidenceExplainsDelta
  <1>2. ASSUME NEW u \in Threads PROVE DraftExplained(pc[u], draft[u])'
    <2>1. CASE pc'[u] \notin {"list", "find", "store"}
      BY <2>1 DEF DraftExplained
    <2>2. CASE pc'[u] = pc[u] /\ draft'[u] = draft[u]
      BY <2>2, CountedGrows DEF EvidenceInv, DraftExplained
    <2>3. QED
      BY <2>1, <2>2
  <1>3. QED
    BY <1>1, <1>2 DEF EvidenceInv

LEMMA AcceptEvidence ==
  ASSUME TypeInv, EvidenceInv, NEW t \in Threads, Accept(t)
  PROVE  EvidenceInv'
  <1>1. \A u \in Threads : \/ pc'[u] \notin {"list", "find", "store"}
                           \/ pc'[u] = pc[u] /\ draft'[u] = draft[u]
    BY ThreadFacts DEF Accept, ThreadTypeOK, AfterInbox
  <1>2. ledger \subseteq ledger' /\ projections' = projections
    BY DEF Accept
  <1>3. QED
    BY <1>1, <1>2, QuietEvidence

LEMMA CheckFactEvidence ==
  ASSUME TypeInv, EvidenceInv, NEW t \in Threads, CheckFact(t)
  PROVE  EvidenceInv'
  <1>1. \A u \in Threads : \/ pc'[u] \notin {"list", "find", "store"}
                           \/ pc'[u] = pc[u] /\ draft'[u] = draft[u]
    BY ThreadFacts DEF CheckFact, ThreadTypeOK
  <1>2. ledger \subseteq ledger' /\ projections' = projections
    BY DEF CheckFact
  <1>3. QED
    BY <1>1, <1>2, QuietEvidence

LEMMA RecordFactEvidence ==
  ASSUME TypeInv, EvidenceInv, NEW t \in Threads, RecordFact(t)
  PROVE  EvidenceInv'
  <1>1. \A u \in Threads : \/ pc'[u] \notin {"list", "find", "store"}
                           \/ pc'[u] = pc[u] /\ draft'[u] = draft[u]
    BY ThreadFacts DEF RecordFact, ThreadTypeOK
  <1>2. ledger \subseteq ledger' /\ projections' = projections
    BY DEF RecordFact
  <1>3. QED
    BY <1>1, <1>2, QuietEvidence

LEMMA ReadSnapshotEvidence ==
  ASSUME TypeInv, EvidenceInv, NEW t \in Threads, ReadSnapshot(t)
  PROVE  EvidenceInv'
  <1>1. \A u \in Threads : \/ pc'[u] \notin {"list", "find", "store"}
                           \/ pc'[u] = pc[u] /\ draft'[u] = draft[u]
    BY ThreadFacts DEF ReadSnapshot, ThreadTypeOK, Finish
  <1>2. ledger \subseteq ledger' /\ projections' = projections
    BY DEF ReadSnapshot
  <1>3. QED
    BY <1>1, <1>2, QuietEvidence

LEMMA SeedSnapshotEvidence ==
  ASSUME TypeInv, EvidenceInv, NEW t \in Threads, SeedSnapshot(t)
  PROVE  EvidenceInv'
  <1>1. \A u \in Threads : \/ pc'[u] \notin {"list", "find", "store"}
                           \/ pc'[u] = pc[u] /\ draft'[u] = draft[u]
    BY ThreadFacts DEF SeedSnapshot, ThreadTypeOK, Finish
  <1>2. ledger \subseteq ledger' /\ projections' = projections
    BY DEF SeedSnapshot
  <1>3. QED
    BY <1>1, <1>2, QuietEvidence

LEMMA SelectRowEvidence ==
  ASSUME TypeInv, EvidenceInv, NEW t \in Threads, SelectRow(t)
  PROVE  EvidenceInv'
  <1>1. \A u \in Threads : \/ pc'[u] \notin {"list", "find", "store"}
                           \/ pc'[u] = pc[u] /\ draft'[u] = draft[u]
    BY ThreadFacts DEF SelectRow, ThreadTypeOK, Classify
  <1>2. ledger \subseteq ledger' /\ projections' = projections
    BY DEF SelectRow
  <1>3. QED
    BY <1>1, <1>2, QuietEvidence

LEMMA InsertRowEvidence ==
  ASSUME TypeInv, EvidenceInv, NEW t \in Threads, InsertRow(t)
  PROVE  EvidenceInv'
  <1>1. \A u \in Threads : \/ pc'[u] \notin {"list", "find", "store"}
                           \/ pc'[u] = pc[u] /\ draft'[u] = draft[u]
    BY ThreadFacts DEF InsertRow, ThreadTypeOK, Finish, Classify
  <1>2. ledger \subseteq ledger' /\ projections' = projections
    BY DEF InsertRow
  <1>3. QED
    BY <1>1, <1>2, QuietEvidence

LEMMA CheckEffectEvidence ==
  ASSUME TypeInv, EvidenceInv, NEW t \in Threads, CheckEffect(t)
  PROVE  EvidenceInv'
  <1>1. \A u \in Threads : \/ pc'[u] \notin {"list", "find", "store"}
                           \/ pc'[u] = pc[u] /\ draft'[u] = draft[u]
    BY ThreadFacts DEF CheckEffect, ThreadTypeOK, AfterEffect
  <1>2. ledger \subseteq ledger' /\ projections' = projections
    BY DEF CheckEffect
  <1>3. QED
    BY <1>1, <1>2, QuietEvidence

LEMMA MarkEffectEvidence ==
  ASSUME TypeInv, EvidenceInv, NEW t \in Threads, MarkEffect(t)
  PROVE  EvidenceInv'
  <1>1. \A u \in Threads : \/ pc'[u] \notin {"list", "find", "store"}
                           \/ pc'[u] = pc[u] /\ draft'[u] = draft[u]
    BY ThreadFacts DEF MarkEffect, ThreadTypeOK, AfterEffect
  <1>2. ledger \subseteq ledger' /\ projections' = projections
    BY DEF MarkEffect
  <1>3. QED
    BY <1>1, <1>2, QuietEvidence

LEMMA AnnounceEvidence ==
  ASSUME TypeInv, EvidenceInv, NEW t \in Threads, Announce(t)
  PROVE  EvidenceInv'
  <1>1. \A u \in Threads : \/ pc'[u] \notin {"list", "find", "store"}
                           \/ pc'[u] = pc[u] /\ draft'[u] = draft[u]
    BY ThreadFacts DEF Announce, ThreadTypeOK
  <1>2. ledger \subseteq ledger' /\ projections' = projections
    BY DEF Announce
  <1>3. QED
    BY <1>1, <1>2, QuietEvidence

LEMMA RegisterEvidence ==
  ASSUME TypeInv, EvidenceInv, NEW t \in Threads, Register(t)
  PROVE  EvidenceInv'
  <1>1. \A u \in Threads : \/ pc'[u] \notin {"list", "find", "store"}
                           \/ pc'[u] = pc[u] /\ draft'[u] = draft[u]
    BY ThreadFacts DEF Register, ThreadTypeOK, Finish
  <1>2. ledger \subseteq ledger' /\ projections' = projections
    BY DEF Register
  <1>3. QED
    BY <1>1, <1>2, QuietEvidence

LEMMA GetInventoryEvidence ==
  ASSUME TypeInv, EvidenceInv, NEW t \in Threads, GetInventory(t)
  PROVE  EvidenceInv'
  <1>1. \A u \in Threads : \/ pc'[u] \notin {"list", "find", "store"}
                           \/ pc'[u] = pc[u] /\ draft'[u] = draft[u]
    BY ThreadFacts DEF GetInventory, ThreadTypeOK
  <1>2. ledger \subseteq ledger' /\ projections' = projections
    BY DEF GetInventory
  <1>3. QED
    BY <1>1, <1>2, QuietEvidence

LEMMA ScanSnapshotsEvidence ==
  ASSUME TypeInv, EvidenceInv, NEW t \in Threads, ScanSnapshots(t)
  PROVE  EvidenceInv'
  <1>1. \A u \in Threads : \/ pc'[u] \notin {"list", "find", "store"}
                           \/ pc'[u] = pc[u] /\ draft'[u] = draft[u]
    BY ThreadFacts DEF ScanSnapshots, ThreadTypeOK
  <1>2. ledger \subseteq ledger' /\ projections' = projections
    BY DEF ScanSnapshots
  <1>3. QED
    BY <1>1, <1>2, QuietEvidence

LEMMA DatabaseFailureEvidence ==
  ASSUME TypeInv, EvidenceInv, NEW t \in Threads, DatabaseFailure(t)
  PROVE  EvidenceInv'
  <1>1. \A u \in Threads : \/ pc'[u] \notin {"list", "find", "store"}
                           \/ pc'[u] = pc[u] /\ draft'[u] = draft[u]
    BY ThreadFacts DEF DatabaseFailure, ThreadTypeOK, Finish
  <1>2. ledger \subseteq ledger' /\ projections' = projections
    BY DEF DatabaseFailure
  <1>3. QED
    BY <1>1, <1>2, QuietEvidence

LEMMA LostCommitEvidence ==
  ASSUME TypeInv, EvidenceInv, NEW t \in Threads, LostCommit(t)
  PROVE  EvidenceInv'
  <1>1. \A u \in Threads : \/ pc'[u] \notin {"list", "find", "store"}
                           \/ pc'[u] = pc[u] /\ draft'[u] = draft[u]
    BY ThreadFacts DEF LostCommit, ThreadTypeOK, Finish
  <1>2. ledger \subseteq ledger' /\ projections' = projections
    BY DEF LostCommit
  <1>3. QED
    BY <1>1, <1>2, QuietEvidence

LEMMA ReceiveEvidence ==
  ASSUME TypeInv, EvidenceInv, NEW t \in Threads, NEW e \in Events, Receive(t, e)
  PROVE  EvidenceInv'
  <1>1. \A u \in Threads : \/ pc'[u] \notin {"list", "find", "store"}
                           \/ pc'[u] = pc[u] /\ draft'[u] = draft[u]
    BY ThreadFacts DEF Receive, ThreadTypeOK, AfterInbox
  <1>2. ledger \subseteq ledger' /\ projections' = projections
    BY DEF Receive
  <1>3. QED
    BY <1>1, <1>2, QuietEvidence

\* A thread that refreshes its own draft and leaves the projections alone.
LEMMA DraftStep ==
  ASSUME EvidenceInv, NEW t \in Threads, UNCHANGED <<ledger, projections>>,
         \A u \in Threads \ {t} : pc'[u] = pc[u] /\ draft'[u] = draft[u],
         DraftExplained(pc'[t], draft'[t])
  PROVE  EvidenceInv'
  BY DEF EvidenceInv, EvidenceExplainsDelta, DraftExplained, Counted

LEMMA SumDeltaEvidence ==
  ASSUME TypeInv, EvidenceInv, NEW t \in Threads, SumDelta(t)
  PROVE  EvidenceInv'
  <1>1. DraftExplained(pc'[t], draft'[t])
    BY ThreadFacts DEF SumDelta, ThreadTypeOK, DraftExplained
  <1>2. \A u \in Threads \ {t} : pc'[u] = pc[u] /\ draft'[u] = draft[u]
    BY ThreadFacts DEF SumDelta, ThreadTypeOK
  <1>3. QED
    BY <1>1, <1>2, DraftStep DEF SumDelta

LEMMA ListEvidenceEvidence ==
  ASSUME TypeInv, EvidenceInv, NEW t \in Threads, ListEvidence(t)
  PROVE  EvidenceInv'
  <1>1. draft[t].summed \subseteq Counted(draft[t].item) /\ draft[t] \in Projection
    BY ThreadFacts DEF ListEvidence, EvidenceInv, DraftExplained, Serves
  <1>2. draft'[t] = [draft[t] EXCEPT !.evidence = Counted(draft[t].item)]
    BY ThreadFacts DEF ListEvidence, ThreadTypeOK
  <1>3. DraftExplained(pc'[t], draft'[t])
    BY <1>1, <1>2, ThreadFacts DEF ListEvidence, ThreadTypeOK, DraftExplained, Projection
  <1>4. \A u \in Threads \ {t} : pc'[u] = pc[u] /\ draft'[u] = draft[u]
    BY ThreadFacts DEF ListEvidence, ThreadTypeOK
  <1>5. QED
    BY <1>3, <1>4, DraftStep DEF ListEvidence

LEMMA FindProjectionEvidence ==
  ASSUME TypeInv, EvidenceInv, NEW t \in Threads, FindProjection(t)
  PROVE  EvidenceInv'
  <1>1. DraftExplained(pc'[t], draft'[t])
    BY ThreadFacts DEF FindProjection, ThreadTypeOK, DraftExplained, EvidenceInv
  <1>2. \A u \in Threads \ {t} : pc'[u] = pc[u] /\ draft'[u] = draft[u]
    BY ThreadFacts DEF FindProjection, ThreadTypeOK
  <1>3. QED
    BY <1>1, <1>2, DraftStep DEF FindProjection

LEMMA StoreProjectionEvidence ==
  ASSUME TypeInv, EvidenceInv, NEW t \in Threads, StoreProjection(t)
  PROVE  EvidenceInv'
  <1> DEFINE d == draft[t]
  <1>1. /\ d.summed \subseteq d.evidence
        /\ d.evidence \subseteq Counted(d.item)
        /\ d \in Projection /\ projections \in Seq(Projection)
    BY ThreadFacts DEF StoreProjection, EvidenceInv, DraftExplained, Serves, MemoryTypeOK
  <1>2. \/ projections' = projections
        \/ projections' = Append(projections, d)
        \/ projections' = [projections EXCEPT ![slot[t]] = d]
    BY DEF StoreProjection
  <1>3. \A i \in DOMAIN projections' :
          \/ i \in DOMAIN projections /\ projections'[i] = projections[i]
          \/ projections'[i] = d
    BY <1>1, <1>2
  <1>4. EvidenceExplainsDelta'
    BY <1>1, <1>3 DEF EvidenceInv, EvidenceExplainsDelta, StoreProjection, Counted
  <1>5. pc'[t] \notin {"list", "find", "store"}
    BY ThreadFacts DEF StoreProjection, AfterStore, Finish, ThreadTypeOK
  <1>6. \A u \in Threads \ {t} : pc'[u] = pc[u] /\ draft'[u] = draft[u]
    BY ThreadFacts DEF StoreProjection, AfterStore, Finish, ThreadTypeOK
  <1>7. ledger' = ledger
    BY DEF StoreProjection
  <1>8. QED
    BY <1>4, <1>5, <1>6, <1>7 DEF EvidenceInv, DraftExplained, Counted

LEMMA ClearProjectionsEvidence ==
  ASSUME TypeInv, EvidenceInv, NEW t \in Threads, ClearProjections(t)
  PROVE  EvidenceInv'
  <1>1. EvidenceExplainsDelta'
    BY DEF ClearProjections, EvidenceExplainsDelta
  <1>2. pc'[t] \notin {"list", "find", "store"}
    BY ThreadFacts DEF ClearProjections, Finish, ThreadTypeOK
  <1>3. \A u \in Threads \ {t} : pc'[u] = pc[u] /\ draft'[u] = draft[u]
    BY ThreadFacts DEF ClearProjections, Finish, ThreadTypeOK
  <1>4. ledger' = ledger
    BY DEF ClearProjections
  <1>5. QED
    BY <1>1, <1>2, <1>3, <1>4 DEF EvidenceInv, DraftExplained, Counted

LEMMA RestartEvidence ==
  ASSUME Restart PROVE EvidenceInv'
  BY DEF Restart, EvidenceInv, EvidenceExplainsDelta, DraftExplained

LEMMA NextEvidence == TypeInv /\ EvidenceInv /\ [Next]_vars => EvidenceInv'
  <1> SUFFICES ASSUME TypeInv, EvidenceInv, [Next]_vars PROVE EvidenceInv'
    OBVIOUS
  <1>1. CASE UNCHANGED vars
    BY <1>1, QuietEvidence DEF vars, threadVars
  <1>2. ASSUME NEW t \in Threads, Step(t) PROVE EvidenceInv'
    BY <1>2, AcceptEvidence, CheckFactEvidence, RecordFactEvidence, ReadSnapshotEvidence,
       SeedSnapshotEvidence, SelectRowEvidence, InsertRowEvidence, CheckEffectEvidence,
       MarkEffectEvidence, SumDeltaEvidence, ListEvidenceEvidence, FindProjectionEvidence,
       StoreProjectionEvidence, AnnounceEvidence, RegisterEvidence, ScanSnapshotsEvidence,
       ClearProjectionsEvidence DEF Step
  <1>3. QED
    BY <1>1, <1>2, ReceiveEvidence, GetInventoryEvidence, DatabaseFailureEvidence,
       LostCommitEvidence, RestartEvidence DEF Next

\* A projection never adds up a sale that its evidence does not name, nor names
\* one that is not committed.
THEOREM EvidenceSound == Spec => []EvidenceExplainsDelta
  <1>1. Init => EvidenceInv
    BY DEF Init, EvidenceInv, EvidenceExplainsDelta, DraftExplained
  <1>2. EvidenceInv => EvidenceExplainsDelta
    BY DEF EvidenceInv
  <1>3. QED
    BY <1>1, <1>2, NextEvidence, TypeInvariance, PTL DEF Spec

-----------------------------------------------------------------------------
(***************************************************************************)
(* The registration of insights.  A request's window of new insights opens *)
(* at Receive and is read at Register; in between nothing shortens the     *)
(* list, so the insight the request appends lies inside its own window.    *)
(***************************************************************************)
RegistrationInv ==
  /\ InsightIsRegistered
  /\ \A t \in Threads : firstNew[t] <= Len(insights)
  /\ \A i \in DOMAIN insights : insights[i] \in Events /\ insights[i].sale
  /\ lookups \subseteq (DOMAIN insights) \X (DOMAIN insights)

\* A step that leaves the insights and the registry alone, and every thread
\* that is about to register as it was.
KeepsRegistration ==
  /\ UNCHANGED <<insights, lookups>>
  /\ \A u \in Threads :
       /\ firstNew'[u] <= Len(insights)
       /\ pc[u] = "register" => /\ pc'[u] = "register"
                                /\ event'[u] = event[u]
                                /\ firstNew'[u] = firstNew[u]

LEMMA KeptRegistration ==
  ASSUME RegistrationInv, KeepsRegistration
  PROVE  RegistrationInv'
  <1>1. insights' = insights /\ lookups' = lookups
    BY DEF KeepsRegistration
  <1>2. RecordsAreOwn'
    BY <1>1 DEF RegistrationInv, InsightIsRegistered, RecordsAreOwn, Recorded, Sold
  <1>3. \A t \in Threads, i \in DOMAIN insights : ToRegister(t, i) => ToRegister(t, i)'
    BY <1>1 DEF KeepsRegistration, ToRegister
  <1>4. InsightIsBacked'
    BY <1>1, <1>3 DEF RegistrationInv, InsightIsRegistered, InsightIsBacked
  <1>5. \A t \in Threads : firstNew'[t] <= Len(insights')
    BY <1>1 DEF KeepsRegistration
  <1>6. QED
    BY <1>1, <1>2, <1>4, <1>5 DEF RegistrationInv, InsightIsRegistered

\* A request that ends without registering closes its window.
LEMMA FinishRegistration ==
  ASSUME TypeInv, RegistrationInv, NEW t \in Threads, pc[t] # "register", Finish(t),
         UNCHANGED <<insights, lookups>>
  PROVE  KeepsRegistration
  <1>1. Len(insights) \in Nat
    BY ThreadFacts DEF MemoryTypeOK
  <1>2. QED
    BY <1>1, ThreadFacts DEF Finish, ThreadTypeOK, RegistrationInv, KeepsRegistration

\* A thread that only moves on, from a step other than the registration.
LEMMA MoveRegistration ==
  ASSUME TypeInv, RegistrationInv, NEW t \in Threads, NEW label \in PcValues,
         pc[t] # "register", pc' = [pc EXCEPT ![t] = label],
         UNCHANGED <<insights, lookups, event, firstNew>>
  PROVE  KeepsRegistration
  BY ThreadFacts DEF ThreadTypeOK, RegistrationInv, KeepsRegistration

LEMMA ReceiveRegistration ==
  ASSUME TypeInv, RegistrationInv, NEW t \in Threads, NEW e \in Events, Receive(t, e)
  PROVE  RegistrationInv'
  <1>1. Len(insights) \in Nat
    BY ThreadFacts DEF MemoryTypeOK
  <1>2. KeepsRegistration
    BY <1>1, ThreadFacts DEF Receive, ThreadTypeOK, RegistrationInv, KeepsRegistration
  <1>3. QED
    BY <1>2, KeptRegistration

LEMMA AnnounceRegistration ==
  ASSUME TypeInv, RegistrationInv, NEW t \in Threads, Announce(t)
  PROVE  RegistrationInv'
  <1> DEFINE n == Len(insights)
  <1>1. /\ insights \in Seq(Events) /\ n \in Nat
        /\ event[t] \in Events /\ event[t].sale
        /\ firstNew[t] \in Nat /\ firstNew[t] <= n
    BY ThreadFacts, EventFacts DEF Announce, Serves, MemoryTypeOK, ThreadTypeOK, RegistrationInv
  <1>2. /\ DOMAIN insights' = 1 .. n + 1
        /\ insights'[n + 1] = event[t]
        /\ \A i \in 1 .. n : insights'[i] = insights[i]
        /\ Len(insights') = n + 1
    BY <1>1 DEF Announce
  <1>3. /\ pc'[t] = "register" /\ pc[t] = "announce"
        /\ \A u \in Threads \ {t} : pc'[u] = pc[u]
        /\ UNCHANGED <<event, firstNew, lookups>>
    BY ThreadFacts DEF Announce, ThreadTypeOK
  <1>4. InsightIsBacked'
    <2> SUFFICES ASSUME NEW i \in DOMAIN insights', insights'[i].tenant = HomeTenant
                 PROVE  \/ \E j \in DOMAIN insights' : <<i, j>> \in lookups'
                        \/ \E j \in DOMAIN insights' \ {i} :
                             insights'[j].id = insights'[i].id /\ <<j, j>> \in lookups'
                        \/ \E u \in Threads : ToRegister(u, i)'
      BY DEF InsightIsBacked
    <2>1. CASE i = n + 1
      <3>1. ToRegister(t, i)'
        BY <2>1, <1>1, <1>2, <1>3 DEF ToRegister
      <3>2. QED BY <3>1
    <2>2. CASE i \in 1 .. n
      <3>1. i \in DOMAIN insights /\ insights'[i] = insights[i] /\ DOMAIN insights = 1 .. n
        BY <2>2, <1>1, <1>2
      <3>2. \A j \in DOMAIN insights : j \in DOMAIN insights' /\ insights'[j] = insights[j]
        BY <3>1, <1>1, <1>2
      <3>3. ASSUME NEW u \in Threads, ToRegister(u, i) PROVE ToRegister(u, i)'
        BY <3>1, <3>3, <1>3 DEF ToRegister
      <3>4. InsightIsBacked
        BY DEF RegistrationInv, InsightIsRegistered
      <3>5. insights[i].tenant = HomeTenant
        BY <3>1
      <3>6. CASE \E j \in DOMAIN insights : <<i, j>> \in lookups
        BY <3>2, <3>6, <1>3
      <3>7. CASE \E j \in DOMAIN insights \ {i} : insights[j].id = insights[i].id /\ <<j, j>> \in lookups
        BY <3>1, <3>2, <3>7, <1>3
      <3>8. CASE \E u \in Threads : ToRegister(u, i)
        BY <3>3, <3>8
      <3>9. QED
        BY <3>1, <3>4, <3>5, <3>6, <3>7, <3>8 DEF InsightIsBacked
    <2>3. i = n + 1 \/ i \in 1 .. n
      BY <1>1, <1>2
    <2>4. QED
      BY <2>1, <2>2, <2>3
  <1>5. \A u \in Threads : firstNew'[u] <= Len(insights')
    BY <1>1, <1>2, <1>3, ThreadFacts DEF RegistrationInv, ThreadTypeOK
  <1>6. \A i \in DOMAIN insights' : insights'[i] \in Events /\ insights'[i].sale
    BY <1>1, <1>2 DEF RegistrationInv
  <1>7. RecordsAreOwn' /\ lookups' \subseteq (DOMAIN insights') \X (DOMAIN insights')
    <2>1. DOMAIN insights = 1 .. n
      BY <1>1
    <2>2. lookups' = lookups /\ lookups \subseteq (1 .. n) \X (1 .. n)
      BY <1>3, <2>1 DEF RegistrationInv
    <2>3. 1 .. n \subseteq DOMAIN insights'
      BY <1>1, <1>2
    <2>4. \A i \in 1 .. n : Sold(i)' = Sold(i) /\ insights'[i].id = insights[i].id
      BY <1>2 DEF Sold
    <2>5. RecordsAreOwn
      BY DEF RegistrationInv, InsightIsRegistered
    <2>6. ASSUME NEW i, NEW j, <<i, j>> \in lookups
          PROVE  /\ i \in 1 .. n /\ j \in 1 .. n
                 /\ <<j, j>> \in lookups /\ Sold(i) = Sold(j) /\ Recorded(insights[i].id) = {j}
      BY <2>1, <2>2, <2>5, <2>6 DEF RecordsAreOwn
    <2>7. ASSUME NEW i, NEW j, <<i, j>> \in lookups
          PROVE  <<j, j>> \in lookups /\ Sold(i)' = Sold(j)' /\ Recorded(insights[i].id)' = {j}
      <3>1. /\ i \in 1 .. n /\ j \in 1 .. n
            /\ <<j, j>> \in lookups /\ Sold(i) = Sold(j) /\ Recorded(insights[i].id) = {j}
        BY <2>6, <2>7
      <3>2. (insights[i].id)' = insights[i].id
        BY <2>4, <3>1
      <3>3. Recorded(insights[i].id)' = Recorded(insights[i].id)
        <4>1. \A k : k \in DOMAIN insights' /\ <<k, k>> \in lookups' <=> k \in 1 .. n /\ <<k, k>> \in lookups
          BY <1>2, <2>2, <2>3
        <4>2. QED BY <2>1, <2>2, <2>4, <3>2, <4>1 DEF Recorded
      <3>4. QED BY <2>4, <3>1, <3>3
    <2>8. QED
      BY <2>2, <2>3, <2>7 DEF RecordsAreOwn
  <1>8. QED
    BY <1>4, <1>5, <1>6, <1>7 DEF RegistrationInv, InsightIsRegistered

\* What a registration may add: a record under an id that has none, and pairs of
\* insights of one id and one quantity.
Registration(S) ==
  \A p \in S :
    /\ p[1] \in DOMAIN insights /\ p[2] \in DOMAIN insights
    /\ insights[p[1]].id = insights[p[2]].id /\ Sold(p[1]) = Sold(p[2])
    /\ Recorded(insights[p[2]].id) \in {{}, {p[2]}}
    /\ <<p[2], p[2]>> \in lookups \union S
    /\ \A q \in S : insights[q[2]].id = insights[p[2]].id => q[2] = p[2]

LEMMA RecordsStayOwn ==
  ASSUME RecordsAreOwn, lookups \subseteq (DOMAIN insights) \X (DOMAIN insights),
         NEW S \in SUBSET ((DOMAIN insights) \X (DOMAIN insights)), Registration(S),
         insights' = insights, lookups' = lookups \union S
  PROVE  RecordsAreOwn' /\ lookups' \subseteq (DOMAIN insights') \X (DOMAIN insights')
  <1>1. \A i \in DOMAIN insights : Sold(i)' = Sold(i)
    BY DEF Sold
  <1>2. ASSUME NEW i \in DOMAIN insights, NEW j \in DOMAIN insights, <<i, j>> \in lookups \union S
        PROVE  /\ <<j, j>> \in lookups \union S /\ Sold(i) = Sold(j)
               /\ insights[i].id = insights[j].id
               /\ Recorded(insights[i].id)' = {j}
    <2>1. /\ <<j, j>> \in lookups \union S /\ Sold(i) = Sold(j) /\ insights[i].id = insights[j].id
          /\ Recorded(insights[i].id) \in {{}, {j}}
      <3>1. CASE <<i, j>> \in S
        BY <3>1 DEF Registration
      <3>2. CASE <<i, j>> \in lookups
        <4>1. Recorded(insights[i].id) = {j} /\ <<j, j>> \in lookups /\ Sold(i) = Sold(j)
          BY <3>2 DEF RecordsAreOwn
        <4>2. insights[j].id = insights[i].id
          BY <4>1 DEF Recorded
        <4>3. QED BY <4>1, <4>2
      <3>3. QED BY <1>2, <3>1, <3>2
    <2>2. j \in Recorded(insights[i].id)'
      BY <2>1 DEF Recorded
    <2>3. ASSUME NEW k \in Recorded(insights[i].id)' PROVE k = j
      <3>1. k \in DOMAIN insights /\ insights[k].id = insights[i].id /\ <<k, k>> \in lookups \union S
        BY DEF Recorded
      <3>2. CASE <<k, k>> \in lookups
        BY <3>1, <3>2, <2>1 DEF Recorded
      <3>3. CASE <<k, k>> \in S
        <4>1. Recorded(insights[k].id) \in {{}, {k}}
          BY <3>3 DEF Registration
        <4>2. CASE <<j, j>> \in lookups
          BY <4>1, <4>2, <3>1, <2>1 DEF Recorded
        <4>3. CASE <<j, j>> \in S
          BY <4>3, <3>1, <3>3, <2>1 DEF Registration
        <4>4. QED BY <4>2, <4>3, <2>1
      <3>4. QED BY <3>1, <3>2, <3>3
    <2>4. QED BY <2>1, <2>2, <2>3
  <1>3. QED BY <1>1, <1>2 DEF RecordsAreOwn

LEMMA RegisterRegistration ==
  ASSUME TypeInv, RegistrationInv, NEW t \in Threads, Register(t)
  PROVE  RegistrationInv'
  <1> DEFINE e     == event[t]
             taken == Recorded(e.id)
             first == {i \in OwnNew(t) : \A j \in OwnNew(t) : i <= j}
             may   == e.sale /\ e.tenant = HomeTenant
  <1>1. /\ insights \in Seq(Events) /\ Len(insights) \in Nat
        /\ firstNew \in [Threads -> Nat]
    BY ThreadFacts DEF MemoryTypeOK, ThreadTypeOK
  <1>2. /\ insights' = insights
        /\ firstNew'[t] = 0 /\ pc[t] = "register"
        /\ \A u \in Threads \ {t} :
             pc'[u] = pc[u] /\ event'[u] = event[u] /\ firstNew'[u] = firstNew[u]
    BY ThreadFacts DEF Register, Finish, ThreadTypeOK
  <1>3. /\ RecordsAreOwn /\ InsightIsBacked
        /\ lookups \subseteq (DOMAIN insights) \X (DOMAIN insights)
    BY DEF RegistrationInv, InsightIsRegistered
  <1>4. OwnNew(t) \subseteq DOMAIN insights /\ \A i \in OwnNew(t) : insights[i].id = e.id
    BY <1>1 DEF OwnNew
  <1>5. /\ \E S \in SUBSET ((DOMAIN insights) \X (DOMAIN insights)) :
             lookups' = lookups \union S /\ Registration(S)
        /\ may /\ OwnNew(t) # {} => \E j \in DOMAIN insights : insights[j].id = e.id /\ <<j, j>> \in lookups'
    <2>1. CASE UNCHANGED lookups /\ (~may \/ OwnNew(t) = {})
      <3>1. {} \in SUBSET ((DOMAIN insights) \X (DOMAIN insights)) /\ Registration({})
        BY DEF Registration
      <3>2. lookups' = lookups \union {}
        BY <2>1
      <3>3. QED BY <2>1, <3>1, <3>2
    <2>2. CASE \E j \in IF taken = {} THEN first ELSE taken :
               \E sameTick \in SUBSET {i \in OwnNew(t) : Sold(i) = Sold(j)} :
                 lookups' = lookups \union {<<i, j>> : i \in sameTick}
                                    \union (IF taken = {} THEN {<<j, j>>} ELSE {})
      <3>1. PICK j \in IF taken = {} THEN first ELSE taken :
                 \E sameTick \in SUBSET {i \in OwnNew(t) : Sold(i) = Sold(j)} :
                   lookups' = lookups \union {<<i, j>> : i \in sameTick}
                                      \union (IF taken = {} THEN {<<j, j>>} ELSE {})
        BY <2>2
      <3>2. PICK sameTick \in SUBSET {i \in OwnNew(t) : Sold(i) = Sold(j)} :
                 lookups' = lookups \union {<<i, j>> : i \in sameTick}
                                    \union (IF taken = {} THEN {<<j, j>>} ELSE {})
        BY <3>1
      <3> DEFINE S == {<<i, j>> : i \in sameTick} \union (IF taken = {} THEN {<<j, j>>} ELSE {})
      <3>3. lookups' = lookups \union S
        BY <3>2
      <3>4. /\ j \in DOMAIN insights /\ insights[j].id = e.id
            /\ taken # {} => <<j, j>> \in lookups /\ taken = {j}
        <4>1. CASE taken = {}
          BY <4>1, <3>1, <1>4
        <4>2. CASE taken # {}
          <5>1. j \in DOMAIN insights /\ insights[j].id = e.id /\ <<j, j>> \in lookups
            BY <4>2, <3>1 DEF Recorded
          <5>2. taken = {j}
            BY <5>1, <1>3 DEF RecordsAreOwn
          <5>3. QED BY <5>1, <5>2
        <4>3. QED BY <4>1, <4>2
      <3>5. \A p \in S : /\ p[2] = j /\ p[1] \in DOMAIN insights /\ insights[p[1]].id = e.id
                         /\ Sold(p[1]) = Sold(j) /\ p \in (DOMAIN insights) \X (DOMAIN insights)
        BY <3>2, <3>4, <1>4
      <3>6. <<j, j>> \in lookups \union S
        BY <3>4
      <3>7. Recorded(insights[j].id) \in {{}, {j}}
        BY <3>4
      <3>8. Registration(S)
        BY <3>4, <3>5, <3>6, <3>7 DEF Registration
      <3>9. S \in SUBSET ((DOMAIN insights) \X (DOMAIN insights))
        BY <3>5
      <3>10. QED BY <3>3, <3>4, <3>6, <3>8, <3>9
    <2>3. QED BY <2>1, <2>2 DEF Register
  <1>6. RecordsAreOwn' /\ lookups' \subseteq (DOMAIN insights') \X (DOMAIN insights')
    BY <1>2, <1>3, <1>5, RecordsStayOwn
  <1>7. InsightIsBacked'
    <2> SUFFICES ASSUME NEW i \in DOMAIN insights, insights[i].tenant = HomeTenant
                 PROVE  \/ \E j \in DOMAIN insights : <<i, j>> \in lookups'
                        \/ \E j \in DOMAIN insights \ {i} :
                             insights[j].id = insights[i].id /\ <<j, j>> \in lookups'
                        \/ \E u \in Threads : ToRegister(u, i)'
      BY <1>2 DEF InsightIsBacked
    <2>1. CASE ToRegister(t, i)
      <3>1. i \in OwnNew(t) /\ may /\ insights[i].id = e.id
        BY <2>1, <1>1 DEF ToRegister, OwnNew, RegistrationInv
      <3>2. QED BY <3>1, <1>5
    <2>2. CASE ~ToRegister(t, i)
      <3>1. \A u \in Threads : ToRegister(u, i) => ToRegister(u, i)'
        BY <2>2, <1>2 DEF ToRegister
      <3>2. lookups \subseteq lookups'
        BY <1>5
      <3>3. QED BY <3>1, <3>2, <1>3 DEF InsightIsBacked
    <2>3. QED BY <2>1, <2>2
  <1>8. \A u \in Threads : firstNew'[u] <= Len(insights')
    BY <1>1, <1>2 DEF RegistrationInv
  <1>9. QED
    BY <1>2, <1>6, <1>7, <1>8 DEF RegistrationInv, InsightIsRegistered

\* The other statements of a request.
LEMMA StepRegistration ==
  ASSUME TypeInv, RegistrationInv, NEW t \in Threads, Step(t)
  PROVE  RegistrationInv'
  <1>1. CASE \/ Accept(t) \/ CheckFact(t) \/ RecordFact(t)
             \/ SelectRow(t) \/ CheckEffect(t) \/ GetInventory(t)
    BY <1>1, ThreadFacts, KeptRegistration
       DEF Accept, CheckFact, RecordFact, SelectRow, CheckEffect, GetInventory,
           ThreadTypeOK, RegistrationInv, KeepsRegistration
  <1>2. CASE ReadSnapshot(t) \/ SeedSnapshot(t) \/ InsertRow(t) \/ ClearProjections(t)
    <2>1. CASE Finish(t)
      BY <1>2, <2>1, FinishRegistration, KeptRegistration
         DEF ReadSnapshot, SeedSnapshot, InsertRow, ClearProjections
    <2>2. CASE UNCHANGED localVars
      BY <1>2, <2>2, ThreadFacts, KeptRegistration
         DEF ReadSnapshot, SeedSnapshot, InsertRow, ClearProjections, Finish,
             ThreadTypeOK, RegistrationInv, KeepsRegistration
    <2>3. QED
      BY <1>2, <2>1, <2>2 DEF ReadSnapshot, SeedSnapshot, InsertRow, ClearProjections
  <1>3. CASE MarkEffect(t) \/ SumDelta(t) \/ ListEvidence(t) \/ FindProjection(t) \/ ScanSnapshots(t)
    BY <1>3, ThreadFacts, KeptRegistration
       DEF MarkEffect, SumDelta, ListEvidence, FindProjection, ScanSnapshots,
           ThreadTypeOK, RegistrationInv, KeepsRegistration
  <1>4. CASE StoreProjection(t)
    <2>1. CASE Finish(t)
      BY <1>4, <2>1, FinishRegistration, KeptRegistration DEF StoreProjection
    <2>2. CASE ~Finish(t)
      BY <1>4, <2>2, ThreadFacts, KeptRegistration
         DEF StoreProjection, AfterStore, ThreadTypeOK, RegistrationInv, KeepsRegistration
    <2>3. QED
      BY <2>1, <2>2
  <1>5. QED
    BY <1>1, <1>2, <1>3, <1>4, AnnounceRegistration, RegisterRegistration DEF Step

LEMMA NextRegistration == TypeInv /\ RegistrationInv /\ [Next]_vars => RegistrationInv'
  <1> SUFFICES ASSUME TypeInv, RegistrationInv, [Next]_vars PROVE RegistrationInv'
    OBVIOUS
  <1>1. CASE UNCHANGED vars
    BY <1>1, KeptRegistration DEF vars, threadVars, RegistrationInv, KeepsRegistration
  <1>2. ASSUME NEW t \in Threads, GetInventory(t) PROVE RegistrationInv'
    BY <1>2, ThreadFacts, KeptRegistration
       DEF GetInventory, ThreadTypeOK, RegistrationInv, KeepsRegistration
  <1>3. ASSUME NEW t \in Threads, DatabaseFailure(t) \/ LostCommit(t) PROVE RegistrationInv'
    BY <1>3, FinishRegistration, KeptRegistration DEF DatabaseFailure, LostCommit
  <1>4. CASE Restart
    BY <1>4 DEF Restart, RegistrationInv, InsightIsRegistered, InsightIsBacked, RecordsAreOwn
  <1>5. QED
    BY <1>1, <1>2, <1>3, <1>4, ReceiveRegistration, StepRegistration DEF Next

\* An insight of the home tenant shows the C04 record of its own calculation, or
\* another insight under its event id was registered before it, or its request is
\* about to register it: for any number of overlapping requests and reused ids.
THEOREM InsightsAreRegistered == Spec => []InsightIsRegistered
  <1>1. Init => RegistrationInv
    BY DEF Init, RegistrationInv, InsightIsRegistered, InsightIsBacked, RecordsAreOwn
  <1>2. RegistrationInv => InsightIsRegistered
    BY DEF RegistrationInv
  <1>3. QED
    BY <1>1, <1>2, NextRegistration, TypeInvariance, PTL DEF Spec

-----------------------------------------------------------------------------
(***************************************************************************)
(* One request at a time.  With a single thread the unlocked read-then-    *)
(* write pairs cannot overlap: what a request read is still true when it   *)
(* writes.                                                                 *)
(***************************************************************************)
FreshIdentity ==
  /\ \A t \in Threads : pc[t] = "accept" => acceptCount[event[t].ident] = 0
  /\ \A i \in DOMAIN insights :
       ~Keyed(insights[i]) => <<"source", insights[i].ident>> \in effects
  /\ \A t \in Threads : pc[t] = "mark" /\ ~Keyed(event[t]) =>
       <<"source", event[t].ident>> \notin effects
  /\ \A t \in Threads : pc[t] = "announce" /\ ~Keyed(event[t]) =>
       /\ <<"source", event[t].ident>> \in effects
       /\ \A i \in DOMAIN insights :
            ~Keyed(insights[i]) => insights[i].ident # event[t].ident

OnceInv == OncePerIdentity /\ FreshIdentity

\* A step of the only thread that leaves the three registries alone.
LEMMA QuietOnce ==
  ASSUME NEW s, Threads = {s}, OnceInv,
         UNCHANGED <<acceptCount, insights>>, effects' = effects,
         pc'[s] \notin {"accept", "mark", "announce"}
  PROVE  OnceInv'
  BY DEF OnceInv, OncePerIdentity, AcceptedOnce, LegacyEffectOnce, FreshIdentity

LEMMA ReceiveOnce ==
  ASSUME NEW s, Threads = {s}, TypeInv, OnceInv, NEW e \in Events, Receive(s, e)
  PROVE  OnceInv'
  <1>1. /\ event'[s] = e
        /\ pc'[s] = (IF Known(e) THEN AfterInbox(e) ELSE "accept")
        /\ UNCHANGED <<acceptCount, insights, effects>>
        /\ acceptCount \in [Idents -> Nat] /\ e.ident \in Idents
    BY ThreadFacts, EventFacts DEF Receive, ThreadTypeOK, MemoryTypeOK
  <1>2. pc'[s] = "accept" => acceptCount[e.ident] = 0
    BY <1>1 DEF Known, AfterInbox
  <1>3. pc'[s] \notin {"mark", "announce"}
    BY <1>1 DEF AfterInbox
  <1>4. QED
    BY <1>1, <1>2, <1>3 DEF OnceInv, OncePerIdentity, AcceptedOnce, LegacyEffectOnce, FreshIdentity

LEMMA AcceptOnce ==
  ASSUME NEW s, Threads = {s}, TypeInv, OnceInv, Accept(s)
  PROVE  OnceInv'
  <1>1. /\ acceptCount \in [Idents -> Nat] /\ event[s].ident \in Idents
        /\ acceptCount[event[s].ident] = 0
        /\ acceptCount' = [acceptCount EXCEPT ![event[s].ident] = @ + 1]
        /\ UNCHANGED <<insights, effects>>
        /\ pc'[s] \notin {"accept", "mark", "announce"}
    BY ThreadFacts, EventFacts
       DEF Accept, Serves, ThreadTypeOK, MemoryTypeOK, OnceInv, FreshIdentity, AfterInbox
  <1>2. AcceptedOnce'
    BY <1>1 DEF OnceInv, OncePerIdentity, AcceptedOnce
  <1>3. QED
    BY <1>1, <1>2 DEF OnceInv, OncePerIdentity, LegacyEffectOnce, FreshIdentity

LEMMA CheckEffectOnce ==
  ASSUME NEW s, Threads = {s}, TypeInv, OnceInv, CheckEffect(s)
  PROVE  OnceInv'
  <1>1. /\ UNCHANGED <<acceptCount, insights, effects, event>>
        /\ pc'[s] = IF EffectIdentity(event[s]) \in effects
                    THEN AfterEffect(event[s], FALSE) ELSE "mark"
    BY ThreadFacts DEF CheckEffect, ThreadTypeOK
  <1>2. pc'[s] \notin {"accept", "announce"}
    BY <1>1 DEF AfterEffect
  <1>3. pc'[s] = "mark" /\ ~Keyed(event[s]) => <<"source", event[s].ident>> \notin effects
    BY <1>1 DEF AfterEffect, EffectIdentity
  <1>4. QED
    BY <1>1, <1>2, <1>3 DEF OnceInv, OncePerIdentity, AcceptedOnce, LegacyEffectOnce, FreshIdentity

LEMMA MarkEffectOnce ==
  ASSUME NEW s, Threads = {s}, TypeInv, OnceInv, MarkEffect(s)
  PROVE  OnceInv'
  <1>1. /\ UNCHANGED <<acceptCount, insights, event>>
        /\ pc[s] = "mark"
        /\ effects' = effects \union {EffectIdentity(event[s])}
        /\ pc'[s] = AfterEffect(event[s], TRUE)
    BY ThreadFacts DEF MarkEffect, ThreadTypeOK
  <1>2. pc'[s] \notin {"accept", "mark"}
    BY <1>1 DEF AfterEffect
  <1>3. ~Keyed(event[s]) =>
          /\ <<"source", event[s].ident>> \in effects'
          /\ \A i \in DOMAIN insights :
               ~Keyed(insights[i]) => insights[i].ident # event[s].ident
    BY <1>1 DEF OnceInv, FreshIdentity, EffectIdentity
  <1>4. QED
    BY <1>1, <1>2, <1>3 DEF OnceInv, OncePerIdentity, AcceptedOnce, LegacyEffectOnce, FreshIdentity

LEMMA AnnounceOnce ==
  ASSUME NEW s, Threads = {s}, TypeInv, OnceInv, Announce(s)
  PROVE  OnceInv'
  <1> DEFINE n == Len(insights)
             e == event[s]
  <1>1. /\ insights \in Seq(Events) /\ n \in Nat /\ e \in Events
        /\ pc[s] = "announce" /\ pc'[s] = "register"
        /\ UNCHANGED <<acceptCount, effects>>
    BY ThreadFacts DEF Announce, Serves, MemoryTypeOK, ThreadTypeOK
  <1>2. /\ DOMAIN insights' = 1 .. n + 1 /\ DOMAIN insights = 1 .. n
        /\ insights'[n + 1] = e
        /\ \A i \in 1 .. n : insights'[i] = insights[i]
    BY <1>1 DEF Announce
  <1>3. ~Keyed(e) => /\ <<"source", e.ident>> \in effects
                     /\ \A i \in 1 .. n : ~Keyed(insights[i]) => insights[i].ident # e.ident
    BY <1>1, <1>2 DEF OnceInv, FreshIdentity
  <1>4. LegacyEffectOnce'
    <2> SUFFICES ASSUME NEW i \in 1 .. n + 1, NEW j \in 1 .. n + 1, i # j,
                        ~Keyed(insights'[i]), ~Keyed(insights'[j])
                 PROVE  insights'[i].ident # insights'[j].ident
      BY <1>2 DEF LegacyEffectOnce, Keyed
    <2>1. CASE i = n + 1
      <3>1. j \in 1 .. n
        BY <2>1
      <3>2. QED
        BY <2>1, <3>1, <1>2, <1>3
    <2>2. CASE j = n + 1
      <3>1. i \in 1 .. n
        BY <2>2
      <3>2. QED
        BY <2>2, <3>1, <1>2, <1>3
    <2>3. CASE i # n + 1 /\ j # n + 1
      <3>1. i \in 1 .. n /\ j \in 1 .. n
        BY <2>3, <1>1
      <3>2. QED
        BY <3>1, <1>2 DEF OnceInv, OncePerIdentity, LegacyEffectOnce
    <2>4. QED
      BY <2>1, <2>2, <2>3
  <1>5. \A i \in DOMAIN insights' :
          ~Keyed(insights'[i]) => <<"source", insights'[i].ident>> \in effects
    <2> SUFFICES ASSUME NEW i \in 1 .. n + 1, ~Keyed(insights'[i])
                 PROVE  <<"source", insights'[i].ident>> \in effects
      BY <1>2
    <2>1. CASE i = n + 1
      BY <2>1, <1>2, <1>3
    <2>2. CASE i # n + 1
      <3>1. i \in 1 .. n
        BY <2>2, <1>1
      <3>2. QED
        BY <3>1, <1>2 DEF OnceInv, FreshIdentity
    <2>3. QED
      BY <2>1, <2>2
  <1>6. QED
    BY <1>1, <1>4, <1>5 DEF OnceInv, OncePerIdentity, AcceptedOnce, FreshIdentity, Keyed

LEMMA NextOnce ==
  ASSUME NEW s, Threads = {s}
  PROVE  TypeInv /\ OnceInv /\ [Next]_vars => OnceInv'
  <1> SUFFICES ASSUME TypeInv, OnceInv, [Next]_vars PROVE OnceInv'
    OBVIOUS
  <1>1. CASE UNCHANGED vars
    BY <1>1 DEF vars, threadVars, OnceInv, OncePerIdentity, AcceptedOnce, LegacyEffectOnce,
         FreshIdentity
  <1>2. CASE CheckFact(s) \/ RecordFact(s) \/ SelectRow(s) \/ InsertRow(s)
             \/ ReadSnapshot(s) \/ SeedSnapshot(s)
    BY <1>2, ThreadFacts, QuietOnce
       DEF CheckFact, RecordFact, SelectRow, InsertRow, ReadSnapshot, SeedSnapshot, Classify,
           Finish, ThreadTypeOK
  <1>3. CASE SumDelta(s) \/ ListEvidence(s) \/ FindProjection(s) \/ Register(s)
             \/ ScanSnapshots(s) \/ ClearProjections(s) \/ GetInventory(s)
             \/ DatabaseFailure(s) \/ LostCommit(s)
    BY <1>3, ThreadFacts, QuietOnce
       DEF SumDelta, ListEvidence, FindProjection, Register, ScanSnapshots, ClearProjections,
           GetInventory, DatabaseFailure, LostCommit, Finish, ThreadTypeOK
  <1>4. CASE StoreProjection(s)
    <2>1. UNCHANGED <<acceptCount, insights, effects, event>> \/ Finish(s)
      BY <1>4 DEF StoreProjection, AfterStore
    <2>2. pc'[s] # "announce" \/ Keyed(event'[s])
      BY <1>4, ThreadFacts DEF StoreProjection, AfterStore, Finish, ThreadTypeOK, Serves
    <2>3. pc'[s] \notin {"accept", "mark"}
      BY <1>4, ThreadFacts DEF StoreProjection, AfterStore, Finish, ThreadTypeOK
    <2>4. UNCHANGED <<acceptCount, insights, effects>>
      BY <1>4 DEF StoreProjection
    <2>5. QED
      BY <2>2, <2>3, <2>4 DEF OnceInv, OncePerIdentity, AcceptedOnce, LegacyEffectOnce,
           FreshIdentity
  <1>5. CASE Restart
    BY <1>5 DEF Restart, OnceInv, OncePerIdentity, AcceptedOnce, LegacyEffectOnce, FreshIdentity
  <1>6. QED
    BY <1>1, <1>2, <1>3, <1>4, <1>5, ReceiveOnce, AcceptOnce, CheckEffectOnce, MarkEffectOnce,
       AnnounceOnce DEF Next, Step

\* A single thread issues the receipt ACCEPTED once per inbox identity, and a
\* legacy sale has its effect once, whatever fails or restarts in between.
THEOREM OnceOneAtATime ==
  ASSUME NEW CONSTANT s, Threads = {s}
  PROVE  Spec => []OncePerIdentity
  <1>1. Init => OnceInv
    BY DEF Init, OnceInv, OncePerIdentity, AcceptedOnce, LegacyEffectOnce, FreshIdentity
  <1>2. TypeInv /\ OnceInv /\ [Next]_vars => OnceInv'
    BY NextOnce
  <1>3. OnceInv => OncePerIdentity
    BY DEF OnceInv
  <1>4. QED
    BY <1>1, <1>2, <1>3, TypeInvariance, PTL DEF Spec

-----------------------------------------------------------------------------
(***************************************************************************)
(* Without faults a single thread also keeps the projections true: a sale  *)
(* committed is followed by the refresh of its item before the request can *)
(* end, and no rebuild ever finds a snapshot that has no projection.       *)
(***************************************************************************)
Serving(s)    == event[s] # NoEvent /\ Keyed(event[s])
Refreshing(s) == Serving(s) /\ pc[s] \in {"effect", "mark", "sum", "list", "find", "store"}
Posting(s)    == Serving(s) /\ pc[s] \in {"select", "insert"}

Current(p)          == p.summed = Counted(p.item) /\ p.evidence = Counted(p.item)
HasProjection(item) == \E i \in DOMAIN projections : projections[i].item = item
ItemOf(row)         == <<row.key[1], row.fact.sku>>

OneProjectionPerItem ==
  \A i, j \in DOMAIN projections : projections[i].item = projections[j].item => i = j

StaleIsRefreshed(s) ==
  \A i \in DOMAIN projections :
    \/ Current(projections[i])
    \/ Refreshing(s) /\ projections[i].item = Item(event[s])

SnapshotIsProjected(s) ==
  \A item \in snapshots :
    \/ HasProjection(item)
    \/ (Posting(s) \/ Refreshing(s)) /\ item = Item(event[s])

RowIsProjected(s) ==
  \A row \in ledger :
    \/ HasProjection(ItemOf(row))
    \/ Refreshing(s) /\ ItemOf(row) = Item(event[s])

DraftIsCurrent(s) ==
  /\ pc[s] = "list" => draft[s].summed = Counted(draft[s].item)
  /\ pc[s] \in {"find", "store"} => Current(draft[s])
  /\ pc[s] \in {"list", "find", "store"} => draft[s].item = Item(event[s])
  /\ pc[s] = "store" =>
       \/ slot[s] = 0 /\ ~HasProjection(draft[s].item)
       \/ slot[s] \in DOMAIN projections /\ projections[slot[s]].item = draft[s].item

FactsMatchRows(s) ==
  /\ \A row \in ledger : businessFacts[row.key] = row.fact
  /\ pc[s] = "record" => businessFacts[BusinessKey(event[s])] \in {NoFact, event[s].fact}
  /\ pc[s] \in {"snapshot", "seed", "seedBrand", "select", "insert"} =>
       businessFacts[BusinessKey(event[s])] = event[s].fact

RebuildIsEmpty(s) ==
  /\ event[s] = NoEvent => pc[s] \in {"idle", "scan", "clear"}
  /\ pc[s] \in {"scan", "clear"} => projections = <<>> /\ snapshots = {} /\ ledger = {}
  /\ pc[s] = "clear" => todo[s] = {}

SequentialInv(s) ==
  /\ OneProjectionPerItem
  /\ StaleIsRefreshed(s)
  /\ SnapshotIsProjected(s)
  /\ RowIsProjected(s)
  /\ DraftIsCurrent(s)
  /\ FactsMatchRows(s)
  /\ RebuildIsEmpty(s)

\* A step that moves on with the same rows and projections.
LEMMA QuietSequential ==
  ASSUME NEW s, SequentialInv(s), UNCHANGED <<snapshots, ledger, projections>>,
         Refreshing(s) => Refreshing(s)' /\ event'[s] = event[s],
         Posting(s) => (Posting(s)' \/ Refreshing(s)') /\ event'[s] = event[s],
         DraftIsCurrent(s)', FactsMatchRows(s)', RebuildIsEmpty(s)'
  PROVE  SequentialInv(s)'
  <1>1. OneProjectionPerItem' /\ StaleIsRefreshed(s)'
    BY DEF SequentialInv, OneProjectionPerItem, StaleIsRefreshed, Current, Counted, Item
  <1>2. SnapshotIsProjected(s)'
    BY DEF SequentialInv, SnapshotIsProjected, HasProjection, Item
  <1>3. RowIsProjected(s)'
    BY DEF SequentialInv, RowIsProjected, HasProjection, Item, ItemOf
  <1>4. QED
    BY <1>1, <1>2, <1>3 DEF SequentialInv

\* The steps before the database is asked, and those after the projection is stored.
LEMMA EdgeSequential ==
  ASSUME NEW s \in Threads, TypeInv, SequentialInv(s),
         \/ \E e \in Events : Receive(s, e)
         \/ Accept(s) \/ CheckFact(s) \/ Announce(s) \/ Register(s)
  PROVE  SequentialInv(s)'
  <1>1. /\ UNCHANGED <<snapshots, ledger, projections, businessFacts>>
        /\ pc[s] \in {"idle", "accept", "check", "announce", "register"}
    BY DEF Receive, Accept, CheckFact, Announce, Register
  <1>2. pc'[s] \in {"idle", "accept", "check", "record", "effect", "register"}
    BY ThreadFacts DEF Receive, Accept, CheckFact, Announce, Register, Finish, AfterInbox, ThreadTypeOK
  <1>3. pc'[s] = "record" => businessFacts[BusinessKey(event'[s])] \in {NoFact, event'[s].fact}
    BY ThreadFacts DEF Receive, Accept, CheckFact, Announce, Register, Finish, AfterInbox, ThreadTypeOK
  <1>4. event'[s] = NoEvent => pc'[s] = "idle"
    BY ThreadFacts, EventFacts
       DEF Receive, Accept, CheckFact, Announce, Register, Finish, Serves, ThreadTypeOK
  <1>5. DraftIsCurrent(s)' /\ FactsMatchRows(s)' /\ RebuildIsEmpty(s)'
    BY <1>1, <1>2, <1>3, <1>4 DEF SequentialInv, DraftIsCurrent, FactsMatchRows, RebuildIsEmpty
  <1>6. ~Refreshing(s) /\ ~Posting(s)
    BY <1>1 DEF Refreshing, Posting
  <1>7. QED
    BY <1>1, <1>5, <1>6, QuietSequential

LEMMA RecordFactSequential ==
  ASSUME NEW s \in Threads, TypeInv, SequentialInv(s), RecordFact(s)
  PROVE  SequentialInv(s)'
  <1> DEFINE e == event[s]
             k == BusinessKey(e)
  <1>1. /\ e \in Events /\ Keyed(e) /\ k \in Tenants \X Keys /\ e.fact \in Facts
        /\ e # NoEvent /\ pc[s] = "record"
    BY ThreadFacts, EventFacts DEF RecordFact, Serves
  <1>2. /\ pc'[s] = "snapshot"
        /\ businessFacts \in [Tenants \X Keys -> Facts \union {NoFact}]
        /\ businessFacts' = [businessFacts EXCEPT ![k] = e.fact]
        /\ UNCHANGED <<snapshots, ledger, projections, event>>
        /\ ledger \subseteq Rows
    BY ThreadFacts DEF RecordFact, ThreadTypeOK, MemoryTypeOK, DatabaseTypeOK
  <1>3. \A row \in ledger : businessFacts'[row.key] = row.fact
    <2> SUFFICES ASSUME NEW row \in ledger PROVE businessFacts'[row.key] = row.fact
      OBVIOUS
    <2>1. businessFacts[row.key] = row.fact /\ row.key \in Tenants \X Keys /\ row.fact \in Facts
      BY <1>1, <1>2 DEF SequentialInv, FactsMatchRows, Rows
    <2>2. NoFact \notin Facts
      BY DEF NoFact, Facts
    <2>3. CASE row.key = k
      BY <1>1, <1>2, <2>1, <2>2, <2>3 DEF SequentialInv, FactsMatchRows
    <2>4. CASE row.key # k
      BY <1>1, <1>2, <2>1, <2>4
    <2>5. QED
      BY <2>3, <2>4
  <1>4. FactsMatchRows(s)'
    BY <1>1, <1>2, <1>3 DEF FactsMatchRows, BusinessKey
  <1>5. DraftIsCurrent(s)' /\ RebuildIsEmpty(s)'
    BY <1>1, <1>2, EventFacts DEF DraftIsCurrent, RebuildIsEmpty
  <1>6. ~Refreshing(s) /\ ~Posting(s)
    BY <1>1, <1>2 DEF Refreshing, Posting
  <1>7. QED
    BY <1>1, <1>2, <1>4, <1>5, <1>6, QuietSequential

\* A request that ends before it posts or refreshes anything.
LEMMA FinishSequential ==
  ASSUME NEW s \in Threads, TypeInv, SequentialInv(s), Finish(s),
         UNCHANGED <<snapshots, ledger, projections, businessFacts>>,
         ~Refreshing(s),
         Posting(s) => HasProjection(Item(event[s]))
  PROVE  SequentialInv(s)'
  <1>1. pc'[s] = "idle" /\ event'[s] = NoEvent
    BY ThreadFacts DEF Finish, ThreadTypeOK
  <1>2. DraftIsCurrent(s)' /\ FactsMatchRows(s)' /\ RebuildIsEmpty(s)'
    BY <1>1 DEF SequentialInv, DraftIsCurrent, FactsMatchRows, RebuildIsEmpty
  <1>3. OneProjectionPerItem' /\ StaleIsRefreshed(s)'
    BY DEF SequentialInv, OneProjectionPerItem, StaleIsRefreshed, Current, Counted, Item
  <1>4. SnapshotIsProjected(s)' /\ RowIsProjected(s)'
    BY DEF SequentialInv, SnapshotIsProjected, RowIsProjected, HasProjection, Item, ItemOf
  <1>5. QED
    BY <1>2, <1>3, <1>4 DEF SequentialInv

LEMMA SnapshotSequential ==
  ASSUME NEW s \in Threads, TypeInv, SequentialInv(s), ReadSnapshot(s) \/ SeedSnapshot(s)
  PROVE  SequentialInv(s)'
  <1>1. /\ event[s] \in Events /\ Keyed(event[s]) /\ event[s] # NoEvent
        /\ pc[s] \in {"snapshot", "seed", "seedBrand"}
        /\ UNCHANGED <<ledger, projections, businessFacts>>
        /\ ~Refreshing(s) /\ ~Posting(s)
    BY ThreadFacts, EventFacts
       DEF ReadSnapshot, SeedSnapshot, Serves, Refreshing, Posting
  <1>2. CASE Finish(s)
    <2>1. UNCHANGED snapshots
      BY <1>2, ThreadFacts DEF ReadSnapshot, SeedSnapshot, Finish, ThreadTypeOK
    <2>2. QED
      BY <1>1, <1>2, <2>1, FinishSequential
  <1>3. CASE ~Finish(s)
    <2>1. /\ event' = event
          /\ pc'[s] \in {"select", "seed", "seedBrand"}
          /\ snapshots' \subseteq snapshots \union {Item(event[s])}
          /\ snapshots' = snapshots \/ pc'[s] = "select"
      BY <1>3, ThreadFacts DEF ReadSnapshot, SeedSnapshot, ThreadTypeOK
    <2>2. DraftIsCurrent(s)' /\ FactsMatchRows(s)' /\ RebuildIsEmpty(s)'
      BY <1>1, <2>1 DEF SequentialInv, DraftIsCurrent, FactsMatchRows, RebuildIsEmpty
    <2>3. OneProjectionPerItem' /\ StaleIsRefreshed(s)'
      BY <1>1 DEF SequentialInv, OneProjectionPerItem, StaleIsRefreshed, Current, Counted, Item
    <2>4. RowIsProjected(s)'
      BY <1>1 DEF SequentialInv, RowIsProjected, HasProjection, ItemOf
    <2>5. SnapshotIsProjected(s)'
      BY <1>1, <2>1 DEF SequentialInv, SnapshotIsProjected, HasProjection, Posting, Serving, Item, Keyed
    <2>6. QED
      BY <2>2, <2>3, <2>4, <2>5 DEF SequentialInv
  <1>4. QED
    BY <1>2, <1>3

\* With the fact remembered before the database is asked, a row that already
\* holds the key always has the same fact.
LEMMA RepeatIsReplay ==
  ASSUME NEW s \in Threads, SequentialInv(s), pc[s] \in {"select", "insert"}
  PROVE  Classify(s) = "sum"
  BY DEF Classify, RowsOf, SequentialInv, FactsMatchRows

LEMMA SelectRowSequential ==
  ASSUME NEW s \in Threads, TypeInv, SequentialInv(s), SelectRow(s)
  PROVE  SequentialInv(s)'
  <1>1. /\ pc[s] = "select" /\ pc'[s] \in {"insert", "sum"}
        /\ UNCHANGED <<snapshots, ledger, projections, businessFacts, event>>
        /\ event[s] # NoEvent /\ Keyed(event[s])
    BY ThreadFacts, EventFacts, RepeatIsReplay DEF SelectRow, ThreadTypeOK, Serves
  <1>2. DraftIsCurrent(s)' /\ FactsMatchRows(s)' /\ RebuildIsEmpty(s)'
    BY <1>1 DEF SequentialInv, DraftIsCurrent, FactsMatchRows, RebuildIsEmpty
  <1>3. ~Refreshing(s) /\ (Posting(s)' \/ Refreshing(s)')
    BY <1>1 DEF Refreshing, Posting, Serving, Keyed
  <1>4. QED
    BY <1>1, <1>2, <1>3, QuietSequential

LEMMA InsertRowSequential ==
  ASSUME NEW s \in Threads, TypeInv, SequentialInv(s), InsertRow(s)
  PROVE  SequentialInv(s)'
  <1> DEFINE e == event[s]
  <1>1. /\ pc[s] = "insert" /\ e \in Events /\ e # NoEvent /\ Keyed(e)
        /\ UNCHANGED <<snapshots, projections, businessFacts>>
        /\ ~Refreshing(s) /\ Posting(s)
        /\ businessFacts[BusinessKey(e)] = e.fact
    BY ThreadFacts, EventFacts
       DEF InsertRow, Serves, Refreshing, Posting, Serving, SequentialInv, FactsMatchRows
  <1>2. CASE RowsOf(BusinessKey(e)) # {}
    <2>1. /\ pc'[s] = "sum" /\ UNCHANGED <<ledger, event>>
      BY <1>1, <1>2, ThreadFacts, RepeatIsReplay DEF InsertRow, ThreadTypeOK
    <2>2. DraftIsCurrent(s)' /\ FactsMatchRows(s)' /\ RebuildIsEmpty(s)'
      BY <1>1, <2>1 DEF SequentialInv, DraftIsCurrent, FactsMatchRows, RebuildIsEmpty
    <2>3. Refreshing(s)'
      BY <1>1, <2>1 DEF Refreshing, Serving, Keyed
    <2>4. QED
      BY <1>1, <2>1, <2>2, <2>3, QuietSequential
  <1>3. CASE RowsOf(BusinessKey(e)) = {} /\ SourceTaken(e)
    <2>1. Finish(s) /\ UNCHANGED ledger
      BY <1>3 DEF InsertRow
    <2>2. PICK row \in ledger : ItemOf(row) = Item(e)
      BY <1>3 DEF SourceTaken, ItemOf, Item
    <2>3. HasProjection(Item(e))
      BY <1>1, <2>2 DEF SequentialInv, RowIsProjected
    <2>4. QED
      BY <1>1, <2>1, <2>3, FinishSequential
  <1>4. CASE RowsOf(BusinessKey(e)) = {} /\ ~SourceTaken(e)
    <2>1. /\ ledger' = ledger \union {Row(e)} /\ event' = event
          /\ pc'[s] = "effect"
          /\ Row(e).key = BusinessKey(e) /\ Row(e).fact = e.fact
          /\ ItemOf(Row(e)) = Item(e)
      BY <1>1, <1>4, ThreadFacts, EventFacts
         DEF InsertRow, ThreadTypeOK, ItemOf, Item, BusinessKey, Row
    <2>2. Refreshing(s)'
      BY <1>1, <2>1 DEF Refreshing, Serving, Keyed
    <2>3. DraftIsCurrent(s)' /\ RebuildIsEmpty(s)'
      BY <1>1, <2>1 DEF DraftIsCurrent, RebuildIsEmpty
    <2>4. FactsMatchRows(s)'
      BY <1>1, <2>1 DEF SequentialInv, FactsMatchRows
    <2>5. ASSUME NEW item \in Items, item # Item(e) PROVE Counted(item)' = Counted(item)
      BY <2>1, <2>5 DEF Counted, ItemOf, Item, Items
    <2>6. StaleIsRefreshed(s)'
      <3> SUFFICES ASSUME NEW i \in DOMAIN projections, projections[i].item # Item(e)
                   PROVE  Current(projections[i])'
        BY <1>1, <2>1, <2>2 DEF StaleIsRefreshed
      <3>1. Current(projections[i])
        BY <1>1 DEF SequentialInv, StaleIsRefreshed
      <3>2. PICK item \in Items : item = projections[i].item
        <4>1. projections \in Seq(Projection)
          BY ThreadFacts DEF MemoryTypeOK
        <4>2. projections[i] \in Projection
          BY <4>1
        <4>3. QED
          BY <4>2 DEF Projection
      <3>3. Counted(item)' = Counted(item) /\ projections'[i] = projections[i]
        BY <1>1, <2>5, <3>2
      <3>4. QED
        BY <3>1, <3>2, <3>3 DEF Current, Counted
    <2>7. OneProjectionPerItem'
      BY <1>1 DEF SequentialInv, OneProjectionPerItem
    <2>8. SnapshotIsProjected(s)' /\ RowIsProjected(s)'
      BY <1>1, <2>1, <2>2 DEF SequentialInv, SnapshotIsProjected, RowIsProjected, HasProjection
    <2>9. QED
      BY <2>3, <2>4, <2>6, <2>7, <2>8 DEF SequentialInv
  <1>5. QED
    BY <1>2, <1>3, <1>4

LEMMA EffectSequential ==
  ASSUME NEW s \in Threads, TypeInv, SequentialInv(s), CheckEffect(s) \/ MarkEffect(s)
  PROVE  SequentialInv(s)'
  <1>1. /\ event[s] \in Events /\ event[s] # NoEvent
        /\ pc[s] \in {"effect", "mark"}
        /\ UNCHANGED <<snapshots, ledger, projections, businessFacts, event>>
        /\ pc'[s] \in {"mark", "sum", "announce", "register"}
        /\ Keyed(event[s]) => pc'[s] \in {"mark", "sum"}
        /\ ~Posting(s)
    BY ThreadFacts, EventFacts
       DEF CheckEffect, MarkEffect, AfterEffect, Serves, ThreadTypeOK, Posting
  <1>2. DraftIsCurrent(s)' /\ FactsMatchRows(s)' /\ RebuildIsEmpty(s)'
    BY <1>1 DEF SequentialInv, DraftIsCurrent, FactsMatchRows, RebuildIsEmpty
  <1>3. Refreshing(s) => Refreshing(s)'
    BY <1>1 DEF Refreshing, Serving, Keyed
  <1>4. QED
    BY <1>1, <1>2, <1>3, QuietSequential

LEMMA QuerySequential ==
  ASSUME NEW s \in Threads, TypeInv, SequentialInv(s), SumDelta(s) \/ ListEvidence(s)
  PROVE  SequentialInv(s)'
  <1>1. /\ event[s] \in Events /\ event[s] # NoEvent /\ Keyed(event[s])
        /\ pc[s] \in {"sum", "list"} /\ pc'[s] \in {"list", "find"}
        /\ UNCHANGED <<snapshots, ledger, projections, businessFacts, event>>
        /\ ~Posting(s)
    BY ThreadFacts
       DEF SumDelta, ListEvidence, Serves, ThreadTypeOK, Posting, SequentialInv, RebuildIsEmpty
  <1>2. Refreshing(s)'
    BY <1>1 DEF Refreshing, Serving, Keyed
  <1>3. FactsMatchRows(s)' /\ RebuildIsEmpty(s)'
    BY <1>1 DEF SequentialInv, FactsMatchRows, RebuildIsEmpty
  <1>4. CASE SumDelta(s)
    <2>1. /\ pc'[s] = "list"
          /\ draft'[s] = [item |-> Item(event[s]), summed |-> Counted(Item(event[s])), evidence |-> {}]
      BY <1>1, <1>4, ThreadFacts DEF SumDelta, Targets, ThreadTypeOK
    <2>2. DraftIsCurrent(s)'
      BY <1>1, <2>1 DEF DraftIsCurrent, Counted, Item
    <2>3. QED
      BY <1>1, <1>2, <1>3, <2>2, QuietSequential
  <1>5. CASE ListEvidence(s)
    <2>1. /\ pc[s] = "list" /\ pc'[s] = "find" /\ draft[s] \in Projection
          /\ draft'[s] = [draft[s] EXCEPT !.evidence = Counted(draft[s].item)]
      BY <1>5, ThreadFacts DEF ListEvidence, ThreadTypeOK, Serves
    <2>2. /\ draft'[s].item = Item(event[s]) /\ draft'[s].summed = Counted(draft'[s].item)
          /\ draft'[s].evidence = Counted(draft'[s].item)
      BY <2>1 DEF SequentialInv, DraftIsCurrent, Projection
    <2>3. DraftIsCurrent(s)'
      BY <1>1, <2>1, <2>2 DEF DraftIsCurrent, Current, Counted, Item
    <2>4. QED
      BY <1>1, <1>2, <1>3, <2>3, QuietSequential
  <1>6. QED
    BY <1>4, <1>5

LEMMA FindProjectionSequential ==
  ASSUME NEW s \in Threads, TypeInv, SequentialInv(s), FindProjection(s)
  PROVE  SequentialInv(s)'
  <1>1. /\ event[s] \in Events /\ event[s] # NoEvent /\ Keyed(event[s])
        /\ pc[s] = "find" /\ pc'[s] = "store"
        /\ UNCHANGED <<snapshots, ledger, projections, businessFacts, event, draft>>
        /\ ~Posting(s)
    BY ThreadFacts
       DEF FindProjection, Serves, ThreadTypeOK, Posting, SequentialInv, RebuildIsEmpty
  <1>2. Refreshing(s)'
    BY <1>1 DEF Refreshing, Serving, Keyed
  <1>3. FactsMatchRows(s)' /\ RebuildIsEmpty(s)'
    BY <1>1 DEF SequentialInv, FactsMatchRows, RebuildIsEmpty
  <1>4. \/ slot'[s] = 0 /\ ~HasProjection(draft[s].item)
        \/ slot'[s] \in DOMAIN projections /\ projections[slot'[s]].item = draft[s].item
    BY ThreadFacts DEF FindProjection, IsFirst, HasProjection, ThreadTypeOK
  <1>5. DraftIsCurrent(s)'
    BY <1>1, <1>4 DEF SequentialInv, DraftIsCurrent, Current, Counted, HasProjection, Item
  <1>6. QED
    BY <1>1, <1>2, <1>3, <1>5, QuietSequential

LEMMA StoreProjectionSequential ==
  ASSUME NEW s \in Threads, TypeInv, SequentialInv(s), StoreProjection(s)
  PROVE  SequentialInv(s)'
  <1> DEFINE d == draft[s]
             n == Len(projections)
  <1>1. /\ event[s] \in Events /\ event[s] # NoEvent /\ Keyed(event[s])
        /\ pc[s] = "store"
        /\ projections \in Seq(Projection) /\ n \in Nat /\ DOMAIN projections = 1 .. n
        /\ d \in Projection /\ d.item = Item(event[s]) /\ Current(d)
        /\ UNCHANGED <<snapshots, ledger, businessFacts>>
    BY ThreadFacts
       DEF StoreProjection, Serves, ThreadTypeOK, MemoryTypeOK, SequentialInv, RebuildIsEmpty,
           DraftIsCurrent
  <1>2. \/ slot[s] = 0 /\ ~HasProjection(d.item)
        \/ slot[s] \in 1 .. n /\ projections[slot[s]].item = d.item
    BY <1>1 DEF SequentialInv, DraftIsCurrent
  <1>3. ~(slot[s] > n)
    BY <1>1, <1>2
  <1>4. /\ projections' = IF slot[s] = 0 THEN Append(projections, d)
                          ELSE [projections EXCEPT ![slot[s]] = d]
        /\ event' = event
        /\ pc'[s] \in {"announce", "register"}
    BY <1>1, <1>3, ThreadFacts DEF StoreProjection, AfterStore, ThreadTypeOK
  <1>5. PICK m \in 1 .. n + 1 :
          /\ DOMAIN projections' = DOMAIN projections \union {m}
          /\ projections'[m] = d
          /\ m \in DOMAIN projections => projections[m].item = d.item
          /\ \A i \in DOMAIN projections \ {m} :
               projections'[i] = projections[i] /\ projections[i].item # d.item
    <2>1. CASE slot[s] = 0
      <3>1. ~HasProjection(d.item)
        BY <1>1, <1>2, <2>1
      <3>2. /\ DOMAIN projections' = 1 .. n + 1 /\ projections'[n + 1] = d
            /\ \A i \in 1 .. n : projections'[i] = projections[i]
        BY <1>1, <1>4, <2>1
      <3>3. 1 .. n + 1 = (1 .. n) \union {n + 1}
        BY <1>1
      <3>4. WITNESS n + 1 \in 1 .. n + 1
      <3>5. QED
        BY <1>1, <3>1, <3>2, <3>3 DEF HasProjection
    <2>2. CASE slot[s] # 0
      <3>1. slot[s] \in 1 .. n /\ projections[slot[s]].item = d.item
        BY <1>2, <2>2
      <3>2. \A i \in 1 .. n \ {slot[s]} : projections[i].item # d.item
        BY <1>1, <3>1 DEF SequentialInv, OneProjectionPerItem
      <3>3. slot[s] \in 1 .. n + 1
        BY <1>1, <3>1
      <3>4. QED
        BY <1>1, <1>4, <2>2, <3>1, <3>2, <3>3
    <2>3. QED
      BY <2>1, <2>2
  <1>6. OneProjectionPerItem'
    BY <1>5 DEF SequentialInv, OneProjectionPerItem
  <1>7. StaleIsRefreshed(s)'
    BY <1>1, <1>5 DEF SequentialInv, StaleIsRefreshed, Current, Counted
  <1>8. \A item : HasProjection(item) \/ item = d.item => HasProjection(item)'
    BY <1>5 DEF HasProjection
  <1>9. SnapshotIsProjected(s)' /\ RowIsProjected(s)'
    BY <1>1, <1>8 DEF SequentialInv, SnapshotIsProjected, RowIsProjected
  <1>10. DraftIsCurrent(s)' /\ FactsMatchRows(s)' /\ RebuildIsEmpty(s)'
    BY <1>1, <1>4 DEF SequentialInv, DraftIsCurrent, FactsMatchRows, RebuildIsEmpty
  <1>11. QED
    BY <1>6, <1>7, <1>9, <1>10 DEF SequentialInv

LEMMA RebuildSequential ==
  ASSUME NEW s \in Threads, TypeInv, SequentialInv(s),
         GetInventory(s) \/ ScanSnapshots(s) \/ ClearProjections(s)
  PROVE  SequentialInv(s)'
  <1>1. /\ pc[s] \in {"idle", "scan", "clear"} /\ event[s] = NoEvent
        /\ UNCHANGED <<snapshots, ledger, businessFacts>>
    BY ThreadFacts DEF GetInventory, ScanSnapshots, ClearProjections, Serves
  <1>2. projections = <<>> /\ snapshots = {} /\ ledger = {}
    <2>1. CASE GetInventory(s)
      BY <1>1, <2>1
         DEF GetInventory, SequentialInv, SnapshotIsProjected, RowIsProjected, HasProjection,
             Posting, Refreshing, Serving
    <2>2. CASE ScanSnapshots(s) \/ ClearProjections(s)
      BY <2>2 DEF ScanSnapshots, ClearProjections, SequentialInv, RebuildIsEmpty
    <2>3. QED
      BY <2>1, <2>2
  <1>3. /\ projections' = <<>> /\ event'[s] = NoEvent
        /\ pc'[s] \in {"idle", "scan", "clear"}
        /\ pc'[s] = "clear" => todo'[s] = {}
    BY <1>1, <1>2, ThreadFacts
       DEF GetInventory, ScanSnapshots, ClearProjections, SequentialInv, RebuildIsEmpty, Finish,
           ThreadTypeOK
  <1>4. QED
    BY <1>1, <1>2, <1>3
       DEF SequentialInv, OneProjectionPerItem, StaleIsRefreshed, SnapshotIsProjected,
           RowIsProjected, DraftIsCurrent, FactsMatchRows, RebuildIsEmpty

LEMMA NextSequential ==
  ASSUME NEW s, Threads = {s}, MaxFaults = 0
  PROVE  TypeInv /\ SequentialInv(s) /\ [Next]_vars => SequentialInv(s)'
  <1> SUFFICES ASSUME TypeInv, SequentialInv(s), [Next]_vars PROVE SequentialInv(s)'
    OBVIOUS
  <1>1. CASE UNCHANGED vars
    BY <1>1 DEF vars, threadVars, SequentialInv, OneProjectionPerItem, StaleIsRefreshed,
         SnapshotIsProjected, RowIsProjected, DraftIsCurrent, FactsMatchRows, RebuildIsEmpty,
         Current, Counted, HasProjection, Posting, Refreshing, Serving, Item, Keyed
  <1>2. ~(faults < MaxFaults)
    BY DEF TypeInv, TypeOK
  <1>3. CASE Step(s)
    BY <1>3, EdgeSequential, RecordFactSequential, SnapshotSequential, SelectRowSequential,
       InsertRowSequential, EffectSequential, QuerySequential, FindProjectionSequential,
       StoreProjectionSequential, RebuildSequential DEF Step
  <1>4. QED
    BY <1>1, <1>2, <1>3, EdgeSequential, RebuildSequential
       DEF Next, DatabaseFailure, LostCommit, Restart

LEMMA SequentialInvariance ==
  ASSUME NEW CONSTANT s, Threads = {s}, MaxFaults = 0
  PROVE  Spec => []SequentialInv(s)
  <1>1. Init => SequentialInv(s)
    BY DEF Init, SequentialInv, OneProjectionPerItem, StaleIsRefreshed, SnapshotIsProjected,
           RowIsProjected, DraftIsCurrent, FactsMatchRows, RebuildIsEmpty
  <1>2. TypeInv /\ SequentialInv(s) /\ [Next]_vars => SequentialInv(s)'
    BY NextSequential
  <1>3. QED
    BY <1>1, <1>2, TypeInvariance, PTL DEF Spec

\* A single thread over a database that does not fail leaves only current
\* projections behind whenever it is idle: overlapping threads and faults are
\* the only ways to a stale one.
THEOREM CurrentOneAtATime ==
  ASSUME NEW CONSTANT s, Threads = {s}, MaxFaults = 0
  PROVE  Spec => []ProjectionsCurrentWhenIdle
  <1>1. SequentialInv(s) => ProjectionsCurrentWhenIdle
    BY DEF SequentialInv, StaleIsRefreshed, Current, Refreshing, Idle, ProjectionsCurrentWhenIdle
  <1>2. QED
    BY <1>1, SequentialInvariance, PTL

\* Under the same conditions every snapshot has its projection whenever the
\* thread is idle, so that the answer to GET /inventory is never partial.
THEOREM CompleteOneAtATime ==
  ASSUME NEW CONSTANT s, Threads = {s}, MaxFaults = 0
  PROVE  Spec => []HomeInventoryComplete
  <1>1. SequentialInv(s) => HomeInventoryComplete
    BY DEF SequentialInv, SnapshotIsProjected, HasProjection, Posting, Refreshing, Idle,
           HomeInventoryComplete
  <1>2. QED
    BY <1>1, SequentialInvariance, PTL

-----------------------------------------------------------------------------
(* The pipeline implements SaleEffects: every step of it maps to a step of    *)
(* the abstract specification or to a stutter.                               *)

Refined == [Effects!Next]_(Effects!vars)

\* The rows two holders are on their way to report differ by their keys.
LEMMA HolderFacts ==
  ASSUME TypeInv, EffectInv, NEW t \in Threads, Holds(t)
  PROVE  /\ event[t] \in Events /\ Keyed(event[t])
         /\ Row(event[t]) \in SaleRows
         /\ Row(event[t]).key = BusinessKey(event[t])
         /\ Row(event[t]) \in HeldRows
         /\ \A u \in Threads \ {t} : Holds(u) => Row(event[u]) # Row(event[t])
         /\ Row(event[t]) \notin ReportedRows
  <1>1. event[t] \in Events /\ Keyed(event[t])
    BY ThreadFacts DEF Holds
  <1>2. ASSUME NEW u \in Threads, u # t, Holds(u)
        PROVE  Row(event[u]) # Row(event[t])
    <2>1. event[u] \in Events /\ Keyed(event[u])
      BY <1>2, ThreadFacts DEF Holds
    <2>2. BusinessKey(event[u]) # BusinessKey(event[t])
      BY <1>2 DEF EffectInv, HolderIsAlone
    <2>3. QED
      BY <1>1, <2>1, <2>2, EventFacts
  <1>3. Row(event[t]) \notin ReportedRows
    <2> SUFFICES ASSUME NEW i \in DOMAIN insights, Keyed(insights[i]),
                        Row(insights[i]) = Row(event[t])
                 PROVE  FALSE
      BY DEF ReportedRows
    <2>1. insights[i] \in Events
      BY ThreadFacts DEF MemoryTypeOK
    <2>2. BusinessKey(insights[i]) # BusinessKey(event[t])
      BY DEF EffectInv, HolderIsAlone
    <2>3. QED
      BY <1>1, <2>1, <2>2, EventFacts
  <1>4. QED
    BY <1>1, <1>2, <1>3, EventFacts DEF SaleRows, HeldRows

\* A step at which a thread at most gives up its hold is a stutter or Abandon.
LEMMA ReleaseStep ==
  ASSUME TypeInv, EffectInv, NEW t \in Threads,
         UNCHANGED <<ledger, insights>>,
         \A u \in Threads : Holds(u)' => Holds(u) /\ event'[u] = event[u],
         \A u \in Threads \ {t} : Holds(u) => Holds(u)'
  PROVE  Refined
  <1>1. ReportedRows' = ReportedRows
    BY DEF ReportedRows
  <1>2. CASE Holds(t) => Holds(t)'
    <2>1. HeldRows' = HeldRows
      BY <1>2 DEF HeldRows
    <2>2. QED
      BY <1>1, <2>1 DEF Refined, Effects!vars
  <1>3. CASE Holds(t) /\ ~Holds(t)'
    <2>1. HeldRows' = HeldRows \ {Row(event[t])}
      BY <1>3, HolderFacts DEF HeldRows
    <2>2. Effects!Abandon(Row(event[t]))
      BY <1>1, <1>3, <2>1, HolderFacts DEF Effects!Abandon
    <2>3. QED
      BY <1>3, <2>2, HolderFacts DEF Refined, Effects!Next
  <1>4. QED
    BY <1>2, <1>3

LEMMA AcceptRefines ==
  ASSUME TypeInv, EffectInv, NEW t \in Threads, Accept(t)
  PROVE  Refined
  <1>1. \A u \in Threads : Holds(u)' => Holds(u) /\ event'[u] = event[u]
    BY ThreadFacts DEF Accept, Holds, Serves, ThreadTypeOK, AfterInbox
  <1>2. \A u \in Threads \ {t} : Holds(u) => Holds(u)'
    BY ThreadFacts DEF Accept, Holds, ThreadTypeOK, AfterInbox
  <1>3. UNCHANGED <<ledger, insights>>
    BY DEF Accept
  <1>4. QED
    BY <1>1, <1>2, <1>3, ReleaseStep

LEMMA CheckFactRefines ==
  ASSUME TypeInv, EffectInv, NEW t \in Threads, CheckFact(t)
  PROVE  Refined
  <1>1. \A u \in Threads : Holds(u)' => Holds(u) /\ event'[u] = event[u]
    BY ThreadFacts DEF CheckFact, Holds, Serves, ThreadTypeOK
  <1>2. \A u \in Threads \ {t} : Holds(u) => Holds(u)'
    BY ThreadFacts DEF CheckFact, Holds, ThreadTypeOK
  <1>3. UNCHANGED <<ledger, insights>>
    BY DEF CheckFact
  <1>4. QED
    BY <1>1, <1>2, <1>3, ReleaseStep

LEMMA RecordFactRefines ==
  ASSUME TypeInv, EffectInv, NEW t \in Threads, RecordFact(t)
  PROVE  Refined
  <1>1. \A u \in Threads : Holds(u)' => Holds(u) /\ event'[u] = event[u]
    BY ThreadFacts DEF RecordFact, Holds, Serves, ThreadTypeOK
  <1>2. \A u \in Threads \ {t} : Holds(u) => Holds(u)'
    BY ThreadFacts DEF RecordFact, Holds, ThreadTypeOK
  <1>3. UNCHANGED <<ledger, insights>>
    BY DEF RecordFact
  <1>4. QED
    BY <1>1, <1>2, <1>3, ReleaseStep

LEMMA ReadSnapshotRefines ==
  ASSUME TypeInv, EffectInv, NEW t \in Threads, ReadSnapshot(t)
  PROVE  Refined
  <1>1. \A u \in Threads : Holds(u)' => Holds(u) /\ event'[u] = event[u]
    BY ThreadFacts DEF ReadSnapshot, Holds, Serves, ThreadTypeOK, Finish
  <1>2. \A u \in Threads \ {t} : Holds(u) => Holds(u)'
    BY ThreadFacts DEF ReadSnapshot, Holds, ThreadTypeOK, Finish
  <1>3. UNCHANGED <<ledger, insights>>
    BY DEF ReadSnapshot
  <1>4. QED
    BY <1>1, <1>2, <1>3, ReleaseStep

LEMMA SeedSnapshotRefines ==
  ASSUME TypeInv, EffectInv, NEW t \in Threads, SeedSnapshot(t)
  PROVE  Refined
  <1>1. \A u \in Threads : Holds(u)' => Holds(u) /\ event'[u] = event[u]
    BY ThreadFacts DEF SeedSnapshot, Holds, Serves, ThreadTypeOK, Finish
  <1>2. \A u \in Threads \ {t} : Holds(u) => Holds(u)'
    BY ThreadFacts DEF SeedSnapshot, Holds, ThreadTypeOK, Finish
  <1>3. UNCHANGED <<ledger, insights>>
    BY DEF SeedSnapshot
  <1>4. QED
    BY <1>1, <1>2, <1>3, ReleaseStep

LEMMA CheckEffectRefines ==
  ASSUME TypeInv, EffectInv, NEW t \in Threads, CheckEffect(t)
  PROVE  Refined
  <1>1. \A u \in Threads : Holds(u)' => Holds(u) /\ event'[u] = event[u]
    BY ThreadFacts DEF CheckEffect, Holds, Serves, ThreadTypeOK, AfterEffect
  <1>2. \A u \in Threads \ {t} : Holds(u) => Holds(u)'
    BY ThreadFacts DEF CheckEffect, Holds, ThreadTypeOK, AfterEffect
  <1>3. UNCHANGED <<ledger, insights>>
    BY DEF CheckEffect
  <1>4. QED
    BY <1>1, <1>2, <1>3, ReleaseStep

LEMMA MarkEffectRefines ==
  ASSUME TypeInv, EffectInv, NEW t \in Threads, MarkEffect(t)
  PROVE  Refined
  <1>1. \A u \in Threads : Holds(u)' => Holds(u) /\ event'[u] = event[u]
    BY ThreadFacts DEF MarkEffect, Holds, Serves, ThreadTypeOK, AfterEffect
  <1>2. \A u \in Threads \ {t} : Holds(u) => Holds(u)'
    BY ThreadFacts DEF MarkEffect, Holds, ThreadTypeOK, AfterEffect
  <1>3. UNCHANGED <<ledger, insights>>
    BY DEF MarkEffect
  <1>4. QED
    BY <1>1, <1>2, <1>3, ReleaseStep

LEMMA SumDeltaRefines ==
  ASSUME TypeInv, EffectInv, NEW t \in Threads, SumDelta(t)
  PROVE  Refined
  <1>1. \A u \in Threads : Holds(u)' => Holds(u) /\ event'[u] = event[u]
    BY ThreadFacts DEF SumDelta, Holds, Serves, ThreadTypeOK
  <1>2. \A u \in Threads \ {t} : Holds(u) => Holds(u)'
    BY ThreadFacts DEF SumDelta, Holds, ThreadTypeOK
  <1>3. UNCHANGED <<ledger, insights>>
    BY DEF SumDelta
  <1>4. QED
    BY <1>1, <1>2, <1>3, ReleaseStep

LEMMA ListEvidenceRefines ==
  ASSUME TypeInv, EffectInv, NEW t \in Threads, ListEvidence(t)
  PROVE  Refined
  <1>1. \A u \in Threads : Holds(u)' => Holds(u) /\ event'[u] = event[u]
    BY ThreadFacts DEF ListEvidence, Holds, Serves, ThreadTypeOK
  <1>2. \A u \in Threads \ {t} : Holds(u) => Holds(u)'
    BY ThreadFacts DEF ListEvidence, Holds, ThreadTypeOK
  <1>3. UNCHANGED <<ledger, insights>>
    BY DEF ListEvidence
  <1>4. QED
    BY <1>1, <1>2, <1>3, ReleaseStep

LEMMA FindProjectionRefines ==
  ASSUME TypeInv, EffectInv, NEW t \in Threads, FindProjection(t)
  PROVE  Refined
  <1>1. \A u \in Threads : Holds(u)' => Holds(u) /\ event'[u] = event[u]
    BY ThreadFacts DEF FindProjection, Holds, Serves, ThreadTypeOK
  <1>2. \A u \in Threads \ {t} : Holds(u) => Holds(u)'
    BY ThreadFacts DEF FindProjection, Holds, ThreadTypeOK
  <1>3. UNCHANGED <<ledger, insights>>
    BY DEF FindProjection
  <1>4. QED
    BY <1>1, <1>2, <1>3, ReleaseStep

LEMMA StoreProjectionRefines ==
  ASSUME TypeInv, EffectInv, NEW t \in Threads, StoreProjection(t)
  PROVE  Refined
  <1>1. \A u \in Threads : Holds(u)' => Holds(u) /\ event'[u] = event[u]
    BY ThreadFacts DEF StoreProjection, Holds, Serves, ThreadTypeOK, Finish, AfterStore
  <1>2. \A u \in Threads \ {t} : Holds(u) => Holds(u)'
    BY ThreadFacts DEF StoreProjection, Holds, ThreadTypeOK, Finish, AfterStore
  <1>3. UNCHANGED <<ledger, insights>>
    BY DEF StoreProjection
  <1>4. QED
    BY <1>1, <1>2, <1>3, ReleaseStep

LEMMA RegisterRefines ==
  ASSUME TypeInv, EffectInv, NEW t \in Threads, Register(t)
  PROVE  Refined
  <1>1. \A u \in Threads : Holds(u)' => Holds(u) /\ event'[u] = event[u]
    BY ThreadFacts DEF Register, Holds, Serves, ThreadTypeOK, Finish
  <1>2. \A u \in Threads \ {t} : Holds(u) => Holds(u)'
    BY ThreadFacts DEF Register, Holds, ThreadTypeOK, Finish
  <1>3. UNCHANGED <<ledger, insights>>
    BY DEF Register
  <1>4. QED
    BY <1>1, <1>2, <1>3, ReleaseStep

LEMMA GetInventoryRefines ==
  ASSUME TypeInv, EffectInv, NEW t \in Threads, GetInventory(t)
  PROVE  Refined
  <1>1. \A u \in Threads : Holds(u)' => Holds(u) /\ event'[u] = event[u]
    BY ThreadFacts DEF GetInventory, Holds, Serves, ThreadTypeOK
  <1>2. \A u \in Threads \ {t} : Holds(u) => Holds(u)'
    BY ThreadFacts DEF GetInventory, Holds, ThreadTypeOK
  <1>3. UNCHANGED <<ledger, insights>>
    BY DEF GetInventory
  <1>4. QED
    BY <1>1, <1>2, <1>3, ReleaseStep

LEMMA ScanSnapshotsRefines ==
  ASSUME TypeInv, EffectInv, NEW t \in Threads, ScanSnapshots(t)
  PROVE  Refined
  <1>1. \A u \in Threads : Holds(u)' => Holds(u) /\ event'[u] = event[u]
    BY ThreadFacts DEF ScanSnapshots, Holds, Serves, ThreadTypeOK
  <1>2. \A u \in Threads \ {t} : Holds(u) => Holds(u)'
    BY ThreadFacts DEF ScanSnapshots, Holds, ThreadTypeOK
  <1>3. UNCHANGED <<ledger, insights>>
    BY DEF ScanSnapshots
  <1>4. QED
    BY <1>1, <1>2, <1>3, ReleaseStep

LEMMA ClearProjectionsRefines ==
  ASSUME TypeInv, EffectInv, NEW t \in Threads, ClearProjections(t)
  PROVE  Refined
  <1>1. \A u \in Threads : Holds(u)' => Holds(u) /\ event'[u] = event[u]
    BY ThreadFacts DEF ClearProjections, Holds, Serves, ThreadTypeOK, Finish
  <1>2. \A u \in Threads \ {t} : Holds(u) => Holds(u)'
    BY ThreadFacts DEF ClearProjections, Holds, ThreadTypeOK, Finish
  <1>3. UNCHANGED <<ledger, insights>>
    BY DEF ClearProjections
  <1>4. QED
    BY <1>1, <1>2, <1>3, ReleaseStep

LEMMA DatabaseFailureRefines ==
  ASSUME TypeInv, EffectInv, NEW t \in Threads, DatabaseFailure(t)
  PROVE  Refined
  <1>1. \A u \in Threads : Holds(u)' => Holds(u) /\ event'[u] = event[u]
    BY ThreadFacts DEF DatabaseFailure, Holds, Serves, ThreadTypeOK, Finish
  <1>2. \A u \in Threads \ {t} : Holds(u) => Holds(u)'
    BY ThreadFacts DEF DatabaseFailure, Holds, ThreadTypeOK, Finish
  <1>3. UNCHANGED <<ledger, insights>>
    BY DEF DatabaseFailure
  <1>4. QED
    BY <1>1, <1>2, <1>3, ReleaseStep

LEMMA SelectRowRefines ==
  ASSUME TypeInv, EffectInv, NEW t \in Threads, SelectRow(t)
  PROVE  Refined
  <1>1. \A u \in Threads : Holds(u)' => Holds(u) /\ event'[u] = event[u]
    BY ThreadFacts DEF SelectRow, Holds, Serves, ThreadTypeOK, Classify
  <1>2. \A u \in Threads \ {t} : Holds(u) => Holds(u)'
    BY ThreadFacts DEF SelectRow, Holds, ThreadTypeOK, Classify
  <1>3. UNCHANGED <<ledger, insights>>
    BY DEF SelectRow
  <1>4. QED
    BY <1>1, <1>2, <1>3, ReleaseStep

LEMMA ReceiveRefines ==
  ASSUME TypeInv, EffectInv, NEW t \in Threads, NEW e \in Events, Receive(t, e)
  PROVE  Refined
  <1>1. \A u \in Threads : Holds(u)' => Holds(u) /\ event'[u] = event[u]
    BY ThreadFacts DEF Receive, Holds, Serves, ThreadTypeOK, AfterInbox
  <1>2. \A u \in Threads \ {t} : Holds(u) => Holds(u)'
    BY ThreadFacts DEF Receive, Holds, ThreadTypeOK
  <1>3. UNCHANGED <<ledger, insights>>
    BY DEF Receive
  <1>4. QED
    BY <1>1, <1>2, <1>3, ReleaseStep

\* A row that is inserted because its key had none is an abstract Post.
LEMMA PostStep ==
  ASSUME TypeInv, NEW e \in Events, Keyed(e), RowsOf(BusinessKey(e)) = {},
         ledger' = ledger \union {Row(e)}, insights' = insights,
         HeldRows' \in {HeldRows, HeldRows \union {Row(e)}}
  PROVE  Refined
  <1>1. \A other \in ledger : other.key # Row(e).key
    BY EventFacts DEF RowsOf
  <1>2. Row(e) \in SaleRows
    BY DEF SaleRows
  <1>3. ReportedRows' = ReportedRows
    BY DEF ReportedRows
  <1>4. QED
    BY <1>1, <1>2, <1>3 DEF Refined, Effects!Next, Effects!Post

LEMMA InsertRowRefines ==
  ASSUME TypeInv, EffectInv, NEW t \in Threads, InsertRow(t)
  PROVE  Refined
  <1>1. event[t] \in Events /\ Keyed(event[t]) /\ pc[t] = "insert" /\ ~Holds(t)
    BY ThreadFacts DEF InsertRow, Serves, Holds
  <1>2. CASE ledger' = ledger
    <2>1. ~Holds(t)'
      BY <1>2, <1>1, ThreadFacts, EventFacts
         DEF InsertRow, Finish, Classify, Holds, Serves, ThreadTypeOK, RowsOf
    <2>2. \A u \in Threads \ {t} : Holds(u)' = Holds(u) /\ event'[u] = event[u]
      BY ThreadFacts DEF InsertRow, Finish, Holds, ThreadTypeOK
    <2>3. insights' = insights
      BY DEF InsertRow
    <2>4. QED
      BY <1>2, <2>1, <2>2, <2>3, ReleaseStep
  <1>3. CASE ledger' # ledger
    <2>1. /\ RowsOf(BusinessKey(event[t])) = {}
          /\ ledger' = ledger \union {Row(event[t])}
          /\ pc' = [pc EXCEPT ![t] = "effect"]
          /\ UNCHANGED localVars /\ insights' = insights
      BY <1>3 DEF InsertRow
    <2>2. Holds(t)' /\ \A u \in Threads \ {t} : Holds(u)' = Holds(u)
      BY <1>1, <2>1, ThreadFacts, EventFacts DEF Holds, ThreadTypeOK
    <2>3. HeldRows' = HeldRows \union {Row(event[t])}
      BY <1>1, <2>1, <2>2 DEF HeldRows
    <2>4. QED
      BY <1>1, <2>1, <2>3, PostStep
  <1>4. QED
    BY <1>2, <1>3

LEMMA LostCommitRefines ==
  ASSUME TypeInv, EffectInv, NEW t \in Threads, LostCommit(t)
  PROVE  Refined
  <1>1. /\ \A u \in Threads : Holds(u)' = Holds(u)
        /\ \A u \in Threads : Holds(u) => event'[u] = event[u]
    BY ThreadFacts DEF LostCommit, Finish, Holds, Serves, ThreadTypeOK
  <1>2. HeldRows' = HeldRows /\ insights' = insights
    BY <1>1 DEF HeldRows, LostCommit
  <1>3. CASE ledger' = ledger
    BY <1>1, <1>2, <1>3, ReleaseStep
  <1>4. CASE ledger' # ledger
    <2>1. /\ event[t] \in Events /\ Keyed(event[t])
          /\ RowsOf(BusinessKey(event[t])) = {}
          /\ ledger' = ledger \union {Row(event[t])}
      BY <1>4, ThreadFacts DEF LostCommit, Serves
    <2>2. QED
      BY <1>2, <2>1, PostStep
  <1>5. QED
    BY <1>3, <1>4

LEMMA AnnounceRefines ==
  ASSUME TypeInv, EffectInv, NEW t \in Threads, Announce(t)
  PROVE  Refined
  <1> DEFINE e == event[t]
  <1>1. e \in Events /\ insights \in Seq(Events)
    BY ThreadFacts DEF Announce, Serves, MemoryTypeOK
  <1>2. /\ pc' = [pc EXCEPT ![t] = "register"]
        /\ UNCHANGED <<ledger, localVars>>
        /\ insights' = Append(insights, e)
    BY DEF Announce
  <1>3. ~Holds(t)' /\ \A u \in Threads \ {t} : Holds(u)' = Holds(u)
    BY <1>2, ThreadFacts DEF Holds, ThreadTypeOK
  <1>4. /\ DOMAIN insights' = DOMAIN insights \union {Len(insights) + 1}
        /\ \A i \in DOMAIN insights : insights'[i] = insights[i]
        /\ insights'[Len(insights) + 1] = e
    BY <1>1, <1>2
  <1>5. CASE ~Keyed(e)
    <2>1. ~Holds(t)
      BY <1>5 DEF Holds
    <2>2. HeldRows' = HeldRows
      BY <1>2, <1>3, <2>1 DEF HeldRows
    <2>3. ReportedRows' = ReportedRows
      BY <1>4, <1>5 DEF ReportedRows
    <2>4. QED
      BY <1>2, <2>2, <2>3 DEF Refined, Effects!vars
  <1>6. CASE Keyed(e)
    <2>1. Holds(t)
      BY <1>1, <1>6, ThreadFacts, EventFacts DEF Announce, Serves, Holds
    <2>2. HeldRows' = HeldRows \ {Row(e)}
      BY <1>2, <1>3, <2>1, HolderFacts DEF HeldRows
    <2>3. ReportedRows' = ReportedRows \union {Row(e)}
      BY <1>4, <1>6 DEF ReportedRows
    <2>4. Effects!Report(Row(e))
      BY <1>2, <2>1, <2>2, <2>3, HolderFacts DEF Effects!Report
    <2>5. QED
      BY <2>1, <2>4, HolderFacts DEF Refined, Effects!Next
  <1>7. QED
    BY <1>5, <1>6

LEMMA RestartRefines ==
  ASSUME Restart PROVE Refined
  <1>1. HeldRows' = {} /\ ReportedRows' = {} /\ ledger' = ledger
    BY DEF Restart, HeldRows, Holds, ReportedRows
  <1>2. QED
    BY <1>1 DEF Refined, Effects!Next, Effects!Restart

LEMMA NextRefines == TypeInv /\ EffectInv /\ [Next]_vars => Refined
  <1> SUFFICES ASSUME TypeInv, EffectInv, [Next]_vars PROVE Refined
    OBVIOUS
  <1>1. CASE UNCHANGED vars
    BY <1>1 DEF vars, threadVars, HeldRows, Holds, ReportedRows, Refined, Effects!vars
  <1>2. ASSUME NEW t \in Threads, Step(t) PROVE Refined
    BY <1>2, AcceptRefines, CheckFactRefines, RecordFactRefines, ReadSnapshotRefines,
       SeedSnapshotRefines, SelectRowRefines, InsertRowRefines, CheckEffectRefines,
       MarkEffectRefines, SumDeltaRefines, ListEvidenceRefines, FindProjectionRefines,
       StoreProjectionRefines, AnnounceRefines, RegisterRefines, ScanSnapshotsRefines,
       ClearProjectionsRefines DEF Step
  <1>3. QED
    BY <1>1, <1>2, ReceiveRefines, GetInventoryRefines, DatabaseFailureRefines,
       LostCommitRefines, RestartRefines DEF Next

\* Every behaviour of the pipeline is one that SaleEffects allows: a business key
\* is posted once, and a posted sale is reported at most once across restarts,
\* by the request that posted it.
THEOREM ImplementsSaleEffects == Spec => RefinesSaleEffects
  <1>1. Init => Effects!Init
    BY DEF Init, Effects!Init, HeldRows, Holds, ReportedRows
  <1>2. TypeInv /\ EffectInv /\ [Next]_vars => [Effects!Next]_(Effects!vars)
    BY NextRefines DEF Refined
  <1>3. QED
    BY <1>1, <1>2, TypeInvariance, EffectInvariance, PTL
       DEF Spec, RefinesSaleEffects, Effects!Spec
=============================================================================
