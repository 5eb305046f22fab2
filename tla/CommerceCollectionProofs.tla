---------------------- MODULE CommerceCollectionProofs ----------------------
(***************************************************************************)
(* Proofs about CommerceCollection, for any range of pages, any orders and *)
(* any number of runs and crashes: types, that progress files and the      *)
(* order-item index are backed by the store, that a completed order-item   *)
(* run has the items of all its orders, and that a clean collection passes *)
(* the integrity report.  The last two parts are about CatalogCollection,  *)
(* of which a completed run closes a whole catalog, and about              *)
(* CommunityCollection: attachments and comments that are reported are in  *)
(* the store.                                                              *)
(***************************************************************************)
EXTENDS CommerceCollection, CommunityCollection, TLAPS, FiniteSetTheorems, SequenceTheorems, WellFoundedInduction

-----------------------------------------------------------------------------
(* The inductive invariant                                                 *)

Writing(r) == r.pc \in {"fill", "manifest", "fillManifest"}

\* A batch that is being written belongs to the run that writes it.
Holds(i, of, at) ==
  /\ i \in DOMAIN batches
  /\ batches[i].of = of /\ batches[i].at = at /\ batches[i].stage # "complete"

Places(res) == Pages(res) \union {End(res)}

\* Progress files and batches name positions of their range.
PlacedInv ==
  /\ \A i \in DOMAIN progress : progress[i].next \in Places(progress[i].of)
  /\ \A i \in DOMAIN batches : batches[i].of \in Resources => batches[i].at \in Pages(batches[i].of)

\* A page run has stored everything between its start and its position.
PageRunOK(c) ==
  LET r == run[c] IN
  r.pc # "idle" =>
    /\ r.id \in DOMAIN progress /\ progress[r.id].of = r.of
    /\ r.at \in Places(r.of)
    /\ Writing(r) => r.at \in Pages(r.of) /\ Holds(r.batch, r.of, r.at)
    /\ \A x \in Pages(r.of) : (~Before(x, progress[r.id].from) /\ Before(x, r.at)) => Stored(x, r.of)

\* An order-item run: what its copy of the index lists is settled, and so are
\* the orders it is through with, unless one failed.
ItemRunOK(t) ==
  LET r == itemRun[t] IN
  r.pc # "idle" =>
    /\ Writing(r) => Holds(r.batch, "order_items", Current(r))
    /\ \A o \in Orders : r.cache[o] # "none" => Settled(o)
    /\ r.failed = 0 => \A o \in r.ids \ r.left : Settled(o)
    /\ r.pc \in {"tmp", "replace", "tmpGone", "replaceGone"} =>
         \A o \in Orders : o = Current(r) => Settled(o)

\* No two runs write the same batch.
PagesApart ==
  \A c, d \in Collectors : Writing(run[c]) /\ Writing(run[d]) /\ c # d => run[c].batch # run[d].batch
ItemsApart ==
  \A t, u \in ItemCollectors :
    Writing(itemRun[t]) /\ Writing(itemRun[u]) /\ t # u => itemRun[t].batch # itemRun[u].batch

HandlesTyped == openAs \in [ItemCollectors -> FileNames \union {"none", "gone"}] /\ unreadable \subseteq FileNames
TmpIsBacked == tmp # NoFile => \A o \in Orders : tmp[o] # "none" => Settled(o)

PageInv == /\ PlacedInv /\ PagesApart /\ ProgressIsBacked
           /\ \A c \in Collectors : PageRunOK(c)
ItemInv == /\ ItemsApart /\ IndexIsBacked /\ TmpIsBacked /\ CompletedRunIsWhole
           /\ \A t \in ItemCollectors : ItemRunOK(t)

CommerceInv == CommerceTypeOK /\ PageInv /\ ItemInv

-----------------------------------------------------------------------------
(* Positions                                                               *)

LEMMA PagesOf ==
  ASSUME NEW res \in Resources
  PROVE  /\ Windows[res] \in Nat \ {0}
         /\ \A v \in 1 .. Windows[res] : PagesIn[res][v] \in Nat \ {0}
         /\ \A x : x \in Pages(res) <=> \E v \in 1 .. Windows[res] :
              \E q \in 1 .. PagesIn[res][v] : x = [w |-> v, p |-> q]
         /\ Places(res) \subseteq Positions /\ First \in Pages(res)
<1>1. Windows[res] \in Nat \ {0} /\ \A v \in 1 .. Windows[res] : PagesIn[res][v] \in Nat \ {0}
  BY CollectionAssumption
<1>2. \A x : x \in Pages(res) <=> \E v \in 1 .. Windows[res] :
         \E q \in 1 .. PagesIn[res][v] : x = [w |-> v, p |-> q]
  BY DEF Pages
<1>3. Places(res) \subseteq Positions
  BY <1>1, <1>2 DEF Places, Positions, End
<1>4. First \in Pages(res)
  BY <1>1, <1>2 DEF First
<1> QED BY <1>1, <1>2, <1>3, <1>4

\* The position after a page is one of the range.
LEMMA FollowingPlaced ==
  ASSUME NEW res \in Resources, NEW x \in Pages(res)
  PROVE  Following(res, x) \in Places(res)
<1>1. PICK v \in 1 .. Windows[res] : \E q \in 1 .. PagesIn[res][v] : x = [w |-> v, p |-> q]
  BY PagesOf
<1>q. PICK q \in 1 .. PagesIn[res][v] : x = [w |-> v, p |-> q]
  BY <1>1
<1>2. Windows[res] \in Nat /\ v \in Nat /\ q \in Nat /\ PagesIn[res][v] \in Nat
  BY PagesOf
<1>3. CASE q < PagesIn[res][v]
  <2>1. Following(res, x) = [w |-> v, p |-> q + 1] /\ q + 1 \in 1 .. PagesIn[res][v]
    BY <1>q, <1>2, <1>3 DEF Following
  <2> QED BY <2>1, PagesOf DEF Places
<1>4. CASE ~(q < PagesIn[res][v])
  <2>1. Following(res, x) = [w |-> v + 1, p |-> 1]
    BY <1>q, <1>4 DEF Following
  <2>2. CASE v + 1 \in 1 .. Windows[res]
    <3>1. 1 \in 1 .. PagesIn[res][v + 1]
      BY <2>2, PagesOf
    <3> QED BY <2>1, <2>2, <3>1, PagesOf DEF Places
  <2>3. CASE v + 1 \notin 1 .. Windows[res]
    <3>1. v = Windows[res]
      BY <1>q, <1>2, <2>3
    <3> QED BY <2>1, <3>1 DEF Places, End
  <2> QED BY <2>2, <2>3
<1> QED BY <1>3, <1>4

\* No page lies between a page and the one after it.
LEMMA NothingBetween ==
  ASSUME NEW res \in Resources, NEW x \in Pages(res), NEW y \in Pages(res),
         Before(y, Following(res, x))
  PROVE  Before(y, x) \/ y = x
<1>1. PICK v \in 1 .. Windows[res] : \E q \in 1 .. PagesIn[res][v] : x = [w |-> v, p |-> q]
  BY PagesOf
<1>q. PICK q \in 1 .. PagesIn[res][v] : x = [w |-> v, p |-> q]
  BY <1>1
<1>2. PICK a \in 1 .. Windows[res] : \E b \in 1 .. PagesIn[res][a] : y = [w |-> a, p |-> b]
  BY PagesOf
<1>b. PICK b \in 1 .. PagesIn[res][a] : y = [w |-> a, p |-> b]
  BY <1>2
<1>3. /\ Windows[res] \in Nat /\ v \in Nat /\ q \in Nat /\ a \in Nat /\ b \in Nat
      /\ PagesIn[res][v] \in Nat /\ PagesIn[res][a] \in Nat /\ b >= 1
  BY PagesOf
<1>4. CASE q < PagesIn[res][v]
  <2>1. Following(res, x) = [w |-> v, p |-> q + 1]
    BY <1>q, <1>4 DEF Following
  <2>2. a < v \/ (a = v /\ b < q + 1)
    BY <1>b, <2>1 DEF Before
  <2>3. a < v \/ (a = v /\ (b < q \/ b = q))
    BY <1>3, <2>2
  <2> QED BY <1>q, <1>b, <2>3 DEF Before
<1>5. CASE ~(q < PagesIn[res][v])
  <2>1. Following(res, x) = [w |-> v + 1, p |-> 1]
    BY <1>q, <1>5 DEF Following
  <2>2. a < v + 1 \/ (a = v + 1 /\ b < 1)
    BY <1>b, <2>1 DEF Before
  <2>3. a < v \/ (a = v /\ b <= PagesIn[res][v])
    BY <1>b, <1>3, <2>2
  <2>4. a < v \/ (a = v /\ (b < q \/ b = q))
    BY <1>3, <1>5, <2>3
  <2> QED BY <1>q, <1>b, <2>4 DEF Before
<1> QED BY <1>4, <1>5

\* The number of records of a page.
LEMMA RecordsOfPage ==
  ASSUME NEW res \in Resources, NEW x \in Pages(res)
  PROVE  RecordsOn[res][x.w][x.p] \subseteq Orders /\ Cardinality(RecordsOn[res][x.w][x.p]) \in Nat
<1>1. PICK v \in 1 .. Windows[res] : \E q \in 1 .. PagesIn[res][v] : x = [w |-> v, p |-> q]
  BY PagesOf
<1>q. PICK q \in 1 .. PagesIn[res][v] : x = [w |-> v, p |-> q]
  BY <1>1
<1>2. RecordsOn[res][x.w][x.p] \in SUBSET Orders
  BY <1>q, CollectionAssumption
<1> QED BY <1>2, FS_Subset, FS_CardinalityType, CollectionAssumption

\* Numbers have a first one.
LEMMA FirstOf ==
  ASSUME NEW S, S \subseteq Nat, S # {}
  PROVE  \E x \in S : \A y \in S : x <= y
<1> DEFINE R == {ss \in Nat \X Nat : ss[1] < ss[2]}
<1>1. \A x, y \in Nat : <<x, y>> \in R <=> x < y
  OBVIOUS
<1>2. IsWellFoundedOn(R, Nat)
  BY NatLessThanWellFounded, Zenon DEF OpToRel
<1> HIDE DEF R
<1>3. PICK x \in S : \A y \in S : ~(<<y, x>> \in R)
  BY <1>2, WFMin
<1>4. \A y \in S : ~(y < x)
  BY <1>1, <1>3, Zenon
<1> QED BY <1>4

\* The first of a run's orders is one of them.
LEMMA CurrentIsLeft ==
  ASSUME NEW r, r.left \subseteq Orders, r.left # {}
  PROVE  Current(r) \in r.left
<1>1. \E x \in r.left : \A y \in r.left : x <= y
  BY FirstOf, CollectionAssumption
<1> QED BY <1>1 DEF Current

-----------------------------------------------------------------------------
(* The store                                                               *)

Batches == PageBatches \union ItemBatches

\* Batches stay what they are, and a complete one stays complete.
Grows ==
  \A i \in DOMAIN batches :
    /\ i \in DOMAIN batches'
    /\ batches'[i].of = batches[i].of /\ batches'[i].at = batches[i].at
    /\ batches[i].stage = "complete" => batches'[i].stage = "complete"

LEMMA StoreTyped ==
  ASSUME CommerceTypeOK
  PROVE  /\ batches \in Seq(Batches) /\ DOMAIN batches = 1 .. Len(batches) /\ Len(batches) \in Nat
         /\ \A i \in DOMAIN batches : batches[i] \in Batches
BY ElementOfSeq DEF CommerceTypeOK, Batches

LEMMA OpenedStore ==
  ASSUME CommerceTypeOK, NEW res, NEW key,
         [of |-> res, at |-> key, stage |-> "sanitizing"] \in Batches,
         batches' = Opened(batches, res, key)
  PROVE  /\ batches' \in Seq(Batches) /\ Grows
         /\ Len(batches) + 1 \notin DOMAIN batches
         /\ DOMAIN batches' = DOMAIN batches \union {Len(batches) + 1}
         /\ \A i \in DOMAIN batches : batches'[i] = batches[i]
         /\ batches'[Len(batches) + 1] = [of |-> res, at |-> key, stage |-> "sanitizing"]
<1> DEFINE b == [of |-> res, at |-> key, stage |-> "sanitizing"]
<1>1. batches' = Append(batches, b) /\ b \in Batches
  BY DEF Opened
<1> HIDE DEF b
<1>2. /\ batches' \in Seq(Batches) /\ Len(batches') = Len(batches) + 1
      /\ \A i \in 1 .. Len(batches) : batches'[i] = batches[i]
      /\ batches'[Len(batches) + 1] = b
  BY <1>1, StoreTyped, AppendProperties
<1>3. DOMAIN batches' = 1 .. Len(batches) + 1
  BY <1>2, LenProperties
<1>4. /\ Len(batches) + 1 \notin DOMAIN batches
      /\ DOMAIN batches' = DOMAIN batches \union {Len(batches) + 1}
  BY <1>3, StoreTyped
<1>5. Grows
  BY <1>2, <1>4, StoreTyped DEF Grows
<1> QED BY <1>2, <1>4, <1>5, StoreTyped DEF b

LEMMA StagedStore ==
  ASSUME CommerceTypeOK, NEW i \in DOMAIN batches, batches[i].stage # "complete",
         NEW s \in Stages, batches' = [batches EXCEPT ![i].stage = s]
  PROVE  /\ batches' \in Seq(Batches) /\ Grows
         /\ DOMAIN batches' = DOMAIN batches
         /\ \A j \in DOMAIN batches : j # i => batches'[j] = batches[j]
         /\ batches'[i].of = batches[i].of /\ batches'[i].at = batches[i].at
         /\ batches'[i].stage = s
<1> DEFINE b == [batches[i] EXCEPT !.stage = s]
<1>1. b \in Batches /\ b.of = batches[i].of /\ b.at = batches[i].at /\ b.stage = s
  BY StoreTyped DEF Batches, PageBatches, ItemBatches
<1>2. batches' = [batches EXCEPT ![i] = b]
  OBVIOUS
<1> HIDE DEF b
<1>3. /\ batches' \in Seq(Batches) /\ DOMAIN batches' = DOMAIN batches
      /\ \A j \in DOMAIN batches : batches'[j] = IF j = i THEN b ELSE batches[j]
  BY <1>1, <1>2, StoreTyped, ExceptSeq
<1> QED BY <1>1, <1>3 DEF Grows

\* What is stored or settled stays so.
LEMMA StoredStays ==
  ASSUME Grows
  PROVE  /\ \A x, res : Stored(x, res) => Stored(x, res)'
         /\ \A o : Settled(o) => Settled(o)'
<1>1. ASSUME NEW x, NEW res, Stored(x, res)
      PROVE  Stored(x, res)'
  BY <1>1 DEF Grows, Stored, Canonical, OfResource, Selected
<1> QED BY <1>1 DEF Settled

\* The batch that completes stores its key.
LEMMA CompleteIsStored ==
  ASSUME NEW i \in DOMAIN batches', batches'[i].stage = "complete"
  PROVE  \A x, res : batches'[i].of = res /\ batches'[i].at = x => Stored(x, res)'
BY DEF Stored, Canonical, OfResource, Selected

\* A run that did not move is as it was when only other batches were touched.
LEMMA PageRunStays ==
  ASSUME Grows, NEW c \in Collectors, PageRunOK(c), run'[c] = run[c],
         \A i \in DOMAIN progress : /\ i \in DOMAIN progress' /\ progress'[i].of = progress[i].of
                                    /\ progress'[i].from = progress[i].from,
         Writing(run[c]) => batches'[run[c].batch] = batches[run[c].batch]
  PROVE  PageRunOK(c)'
<1> DEFINE r == run[c]
<1>1. ASSUME r.pc # "idle"
      PROVE  /\ r.id \in DOMAIN progress /\ progress[r.id].of = r.of /\ r.at \in Places(r.of)
             /\ Writing(r) => r.at \in Pages(r.of) /\ Holds(r.batch, r.of, r.at)
             /\ \A x \in Pages(r.of) : (~Before(x, progress[r.id].from) /\ Before(x, r.at)) => Stored(x, r.of)
  BY <1>1 DEF PageRunOK
<1>2. ASSUME r.pc # "idle", Writing(r)
      PROVE  Holds(run[c].batch, run[c].of, run[c].at)'
  <2>1. Holds(r.batch, r.of, r.at) /\ batches'[r.batch] = batches[r.batch] /\ r.batch \in DOMAIN batches'
    BY <1>1, <1>2 DEF Grows, Holds
  <2> QED BY <2>1 DEF Holds
<1>3. ASSUME r.pc # "idle", NEW x \in Pages(r.of), ~Before(x, progress'[r.id].from), Before(x, r.at)
      PROVE  Stored(x, r.of)'
  <2>1. Stored(x, r.of)
    BY <1>1, <1>3
  <2> QED BY <2>1, StoredStays
<1> SUFFICES ASSUME r.pc # "idle"
             PROVE  /\ r.id \in DOMAIN progress' /\ progress'[r.id].of = r.of /\ r.at \in Places(r.of)
                    /\ Writing(r) => r.at \in Pages(r.of) /\ Holds(run[c].batch, run[c].of, run[c].at)'
                    /\ \A x \in Pages(r.of) :
                         (~Before(x, progress'[r.id].from) /\ Before(x, r.at)) => Stored(x, r.of)'
  BY DEF PageRunOK, Writing, Places, Pages, End, Before
<1> QED BY <1>1, <1>2, <1>3

LEMMA ItemRunStays ==
  ASSUME Grows, NEW t \in ItemCollectors, ItemRunOK(t), itemRun'[t] = itemRun[t],
         Writing(itemRun[t]) => batches'[itemRun[t].batch] = batches[itemRun[t].batch]
  PROVE  ItemRunOK(t)'
<1> DEFINE r == itemRun[t]
<1>1. ASSUME r.pc # "idle"
      PROVE  /\ Writing(r) => Holds(r.batch, "order_items", Current(r))
             /\ \A o \in Orders : r.cache[o] # "none" => Settled(o)
             /\ r.failed = 0 => \A o \in r.ids \ r.left : Settled(o)
             /\ r.pc \in {"tmp", "replace", "tmpGone", "replaceGone"} =>
                  \A o \in Orders : o = Current(r) => Settled(o)
  BY <1>1 DEF ItemRunOK
<1>2. ASSUME r.pc # "idle", Writing(r)
      PROVE  Holds(itemRun[t].batch, "order_items", Current(itemRun[t]))'
  <2>1. /\ Holds(r.batch, "order_items", Current(r)) /\ batches'[r.batch] = batches[r.batch]
        /\ r.batch \in DOMAIN batches'
    BY <1>1, <1>2 DEF Grows, Holds
  <2>2. Current(itemRun[t])' = Current(r)
    BY DEF Current
  <2> QED BY <2>1, <2>2 DEF Holds
<1>3. Current(itemRun[t])' = Current(r)
  BY DEF Current
<1>4. \A o : Settled(o) => Settled(o)'
  BY StoredStays
<1> SUFFICES ASSUME r.pc # "idle"
             PROVE  /\ Writing(r) => Holds(itemRun[t].batch, "order_items", Current(itemRun[t]))'
                    /\ \A o \in Orders : r.cache[o] # "none" => Settled(o)'
                    /\ r.failed = 0 => \A o \in r.ids \ r.left : Settled(o)'
                    /\ r.pc \in {"tmp", "replace", "tmpGone", "replaceGone"} =>
                         \A o \in Orders : o = Current(itemRun[t])' => Settled(o)'
  BY DEF ItemRunOK, Writing
<1> QED BY <1>1, <1>2, <1>3, <1>4

-----------------------------------------------------------------------------
(* Page runs                                                               *)

\* Progress files keep their resource and their start.
ProgressKept ==
  \A i \in DOMAIN progress : /\ i \in DOMAIN progress' /\ progress'[i].of = progress[i].of
                             /\ progress'[i].from = progress[i].from

\* A step of one page run touches no batch but the one it writes, so that it
\* is enough to look at that run and at the files.
LEMMA PageMove ==
  ASSUME CommerceInv, NEW c \in Collectors, UNCHANGED itemVars,
         run' \in [Collectors -> Runs \union {Idle}], \A d \in Collectors : d # c => run'[d] = run[d],
         batches' \in Seq(Batches), progress' \in Seq(ProgressFiles),
         again' \in BOOLEAN, faults' \in 0 .. MaxFaults,
         Grows, ProgressKept,
         \A i \in DOMAIN batches : batches'[i] # batches[i] => Writing(run[c]) /\ i = run[c].batch,
         Writing(run'[c]) => \/ Writing(run[c]) /\ run'[c].batch = run[c].batch
                            \/ run'[c].batch \notin DOMAIN batches,
         PageRunOK(c)', PlacedInv', ProgressIsBacked'
  PROVE  CommerceInv'
<1>0. /\ CommerceTypeOK /\ PagesApart /\ ItemInv /\ \A d \in Collectors : PageRunOK(d)
      /\ run \in [Collectors -> Runs \union {Idle}]
  BY DEF CommerceInv, PageInv, CommerceTypeOK, CollectTypeOK
<1>a. \A d \in Collectors : Writing(run[d]) =>
        /\ run[d].batch \in DOMAIN batches /\ batches[run[d].batch].of = run[d].of /\ run[d].of \in Resources
  <2> SUFFICES ASSUME NEW d \in Collectors, Writing(run[d])
               PROVE  /\ run[d].batch \in DOMAIN batches /\ batches[run[d].batch].of = run[d].of
                      /\ run[d].of \in Resources
    OBVIOUS
  <2>1. run[d].pc # "idle"
    BY DEF Writing
  <2>2. run[d] \in Runs
    BY <1>0, <2>1 DEF Idle
  <2> QED BY <1>0, <2>1, <2>2 DEF PageRunOK, Holds, Runs
<1>1. CommerceTypeOK'
  BY <1>0 DEF CommerceTypeOK, CollectTypeOK, ItemTypeOK, itemVars, Batches
<1>2. PagesApart'
  <2> SUFFICES ASSUME NEW d \in Collectors, NEW e \in Collectors, Writing(run'[d]), Writing(run'[e]), d # e
               PROVE  run'[d].batch # run'[e].batch
    BY DEF PagesApart, Writing
  <2>1. \A x, y \in Collectors : Writing(run[x]) /\ Writing(run[y]) /\ x # y => run[x].batch # run[y].batch
    BY <1>0 DEF PagesApart
  <2> QED BY <1>a, <2>1
<1>3. ASSUME NEW d \in Collectors, d # c
      PROVE  PageRunOK(d)'
  <2>1. run'[d] = run[d] /\ PageRunOK(d)
    BY <1>0, <1>3
  <2>2. Writing(run[d]) => batches'[run[d].batch] = batches[run[d].batch]
    <3>1. Writing(run[d]) /\ Writing(run[c]) => run[d].batch # run[c].batch
      BY <1>0, <1>3 DEF PagesApart
    <3> QED BY <1>a, <3>1
  <2> QED BY <2>1, <2>2, PageRunStays DEF ProgressKept
<1>4. PageInv'
  BY <1>2, <1>3 DEF PageInv
<1>5. /\ ItemsApart /\ IndexIsBacked /\ TmpIsBacked /\ CompletedRunIsWhole
      /\ \A t \in ItemCollectors : ItemRunOK(t)
      /\ index' = index /\ tmp' = tmp /\ itemRun' = itemRun /\ reports' = reports
  BY <1>0 DEF ItemInv, itemVars
<1>6. ASSUME NEW t \in ItemCollectors
      PROVE  ItemRunOK(t)'
  <2>1. Writing(itemRun[t]) => batches'[itemRun[t].batch] = batches[itemRun[t].batch]
    <3> SUFFICES ASSUME Writing(itemRun[t]) PROVE batches'[itemRun[t].batch] = batches[itemRun[t].batch]
      OBVIOUS
    <3>1. Holds(itemRun[t].batch, "order_items", Current(itemRun[t]))
      BY <1>5 DEF ItemRunOK, Writing
    <3>2. itemRun[t].batch \in DOMAIN batches /\ batches[itemRun[t].batch].of \notin Resources
      BY <3>1, CommerceAssumption DEF Holds
    <3> QED BY <1>a, <3>2
  <2>2. ItemRunOK(t) /\ itemRun'[t] = itemRun[t]
    BY <1>5
  <2> QED BY <2>1, <2>2, ItemRunStays
<1>7. ItemsApart' /\ IndexIsBacked' /\ TmpIsBacked' /\ CompletedRunIsWhole'
  <2>1. \A o : Settled(o) => Settled(o)'
    BY StoredStays
  <2>2. ItemsApart'
    BY <1>5 DEF ItemsApart, Writing
  <2>3. IndexIsBacked'
    BY <1>5, <2>1 DEF IndexIsBacked
  <2>4. TmpIsBacked'
    BY <1>5, <2>1 DEF TmpIsBacked
  <2>5. CompletedRunIsWhole'
    BY <1>5, <2>1 DEF CompletedRunIsWhole
  <2> QED BY <2>2, <2>3, <2>4, <2>5
<1>8. ItemInv'
  BY <1>6, <1>7 DEF ItemInv
<1> QED BY <1>1, <1>4, <1>8 DEF CommerceInv

\* Files that stay backed: progress files that keep their next position, or
\* take one up to which their run has stored everything.
LEMMA ProgressStaysBacked ==
  ASSUME CommerceInv, Grows, ProgressKept,
         \A i \in DOMAIN progress' : \A x \in Pages(progress'[i].of) :
           (~Before(x, progress'[i].from) /\ Before(x, progress'[i].next)) =>
             \/ i \in DOMAIN progress /\ progress'[i].next = progress[i].next
             \/ Stored(x, progress'[i].of)
  PROVE  ProgressIsBacked'
<1>1. \A x, res : Stored(x, res) => Stored(x, res)'
  BY StoredStays
<1>2. ASSUME NEW i \in DOMAIN progress', NEW x \in Pages(progress'[i].of),
             ~Before(x, progress'[i].from), Before(x, progress'[i].next)
      PROVE  \E res : res = progress'[i].of /\ Stored(x, res)'
  <2>1. CASE i \in DOMAIN progress /\ progress'[i].next = progress[i].next
    <3>1. progress'[i].of = progress[i].of /\ progress'[i].from = progress[i].from
      BY <2>1 DEF ProgressKept
    <3>2. Stored(x, progress'[i].of)
      BY <1>2, <2>1, <3>1 DEF CommerceInv, PageInv, ProgressIsBacked
    <3> QED BY <1>1, <3>2
  <2> QED BY <1>1, <1>2, <2>1
<1> QED BY <1>2 DEF ProgressIsBacked, Stored, Canonical, OfResource, Pages, Before

LEMMA RunFacts ==
  ASSUME CommerceInv, NEW c \in Collectors, run[c].pc # "idle"
  PROVE  /\ run[c] \in Runs /\ run[c].of \in Resources
         /\ run[c].id \in DOMAIN progress /\ progress[run[c].id].of = run[c].of
         /\ run[c].at \in Places(run[c].of) /\ run[c].at \in Positions
         /\ Writing(run[c]) => /\ run[c].at \in Pages(run[c].of)
                               /\ Holds(run[c].batch, run[c].of, run[c].at)
<1>1. run[c] \in Runs
  BY DEF CommerceInv, CommerceTypeOK, CollectTypeOK, Idle
<1>2. PageRunOK(c)
  BY DEF CommerceInv, PageInv
<1>3. run[c].of \in Resources /\ run[c].at \in Positions
  BY <1>1 DEF Runs
<1> QED BY <1>1, <1>2, <1>3 DEF PageRunOK

LEMMA ProgressTyped ==
  ASSUME CommerceInv
  PROVE  /\ progress \in Seq(ProgressFiles) /\ DOMAIN progress = 1 .. Len(progress) /\ Len(progress) \in Nat
         /\ \A i \in DOMAIN progress : progress[i] \in ProgressFiles
BY ElementOfSeq DEF CommerceInv, CommerceTypeOK, CollectTypeOK

\* A progress file is written again with another status, or another position.
LEMMA StatusSet ==
  ASSUME CommerceInv, NEW i \in DOMAIN progress, NEW s \in Statuses,
         progress' = [progress EXCEPT ![i].status = s]
  PROVE  /\ progress' \in Seq(ProgressFiles) /\ DOMAIN progress' = DOMAIN progress /\ ProgressKept
         /\ \A j \in DOMAIN progress : progress'[j].next = progress[j].next
<1> DEFINE f == [progress[i] EXCEPT !.status = s]
<1>1. /\ f \in ProgressFiles
      /\ f.of = progress[i].of /\ f.from = progress[i].from /\ f.next = progress[i].next
  BY ProgressTyped DEF ProgressFiles
<1>2. progress' = [progress EXCEPT ![i] = f]
  OBVIOUS
<1> HIDE DEF f
<1>3. /\ progress' \in Seq(ProgressFiles) /\ DOMAIN progress' = DOMAIN progress
      /\ \A j \in DOMAIN progress : progress'[j] = IF j = i THEN f ELSE progress[j]
  BY <1>1, <1>2, ProgressTyped, ExceptSeq
<1> QED BY <1>1, <1>3 DEF ProgressKept

LEMMA NextSet ==
  ASSUME CommerceInv, NEW i \in DOMAIN progress, NEW x \in Positions,
         progress' = [progress EXCEPT ![i].next = x]
  PROVE  /\ progress' \in Seq(ProgressFiles) /\ DOMAIN progress' = DOMAIN progress /\ ProgressKept
         /\ progress'[i].next = x
         /\ \A j \in DOMAIN progress : j # i => progress'[j].next = progress[j].next
<1> DEFINE f == [progress[i] EXCEPT !.next = x]
<1>1. f \in ProgressFiles /\ f.of = progress[i].of /\ f.from = progress[i].from /\ f.next = x
  BY ProgressTyped DEF ProgressFiles
<1>2. progress' = [progress EXCEPT ![i] = f]
  OBVIOUS
<1> HIDE DEF f
<1>3. /\ progress' \in Seq(ProgressFiles) /\ DOMAIN progress' = DOMAIN progress
      /\ \A j \in DOMAIN progress : progress'[j] = IF j = i THEN f ELSE progress[j]
  BY <1>1, <1>2, ProgressTyped, ExceptSeq
<1> QED BY <1>1, <1>3 DEF ProgressKept

LEMMA PlacedStays ==
  ASSUME CommerceInv,
         \A i \in DOMAIN progress' :
           \/ i \in DOMAIN progress /\ progress'[i].of = progress[i].of /\ progress'[i].next = progress[i].next
           \/ progress'[i].next \in Places(progress'[i].of),
         \A i \in DOMAIN batches' :
           \/ i \in DOMAIN batches /\ batches'[i].of = batches[i].of /\ batches'[i].at = batches[i].at
           \/ batches'[i].of \in Resources => batches'[i].at \in Pages(batches'[i].of)
  PROVE  PlacedInv'
<1>1. PlacedInv
  BY DEF CommerceInv, PageInv
<1>2. \A i \in DOMAIN progress' : progress'[i].next \in Places(progress'[i].of)
  BY <1>1 DEF PlacedInv
<1>3. \A i \in DOMAIN batches' : batches'[i].of \in Resources => batches'[i].at \in Pages(batches'[i].of)
  BY <1>1 DEF PlacedInv
<1> QED BY <1>2, <1>3 DEF PlacedInv, Places, Pages, End

\* A run that stands at its position, or has gone on to a page it stores.
LEMMA RunStands ==
  ASSUME CommerceInv, NEW c \in Collectors, run[c].pc # "idle", Grows, ProgressKept,
         run'[c].id = run[c].id, run'[c].of = run[c].of, run'[c].at \in Places(run[c].of),
         Writing(run'[c]) => run'[c].at \in Pages(run[c].of) /\ Holds(run[c].batch, run[c].of, run[c].at)',
         \A x \in Pages(run[c].of) : Before(x, run'[c].at) => Before(x, run[c].at) \/ Stored(x, run[c].of)'
  PROVE  PageRunOK(c)'
<1>1. PageRunOK(c)
  BY DEF CommerceInv, PageInv
<1>2. /\ run[c].id \in DOMAIN progress' /\ progress'[run[c].id].of = run[c].of
      /\ progress'[run[c].id].from = progress[run[c].id].from
  BY <1>1 DEF PageRunOK, ProgressKept
<1>3. ASSUME NEW x \in Pages(run[c].of), ~Before(x, progress'[run[c].id].from), Before(x, run'[c].at)
      PROVE  Stored(x, run[c].of)'
  <2>1. CASE Before(x, run[c].at)
    <3>1. Stored(x, run[c].of)
      BY <1>1, <1>2, <1>3, <2>1 DEF PageRunOK
    <3>2. \A res : res = run[c].of => Stored(x, res)'
      BY <3>1, StoredStays
    <3> QED BY <3>2 DEF Stored, Canonical, OfResource
  <2> QED BY <1>3, <2>1
<1> QED BY <1>2, <1>3 DEF PageRunOK, Writing, Holds, Places, Pages, End, Before

\* The steps of a page run, one by one.
LEMMA UntouchedStore ==
  ASSUME CommerceInv, batches' = batches
  PROVE  Grows /\ batches' \in Seq(Batches)
BY DEF Grows, CommerceInv, CommerceTypeOK, Batches

LEMMA StopKeeps ==
  ASSUME CommerceInv, NEW c \in Collectors, run' = [run EXCEPT ![c] = Idle],
         UNCHANGED <<itemVars, batches, again>>, faults' \in 0 .. MaxFaults,
         progress' \in Seq(ProgressFiles), DOMAIN progress' = DOMAIN progress, ProgressKept,
         \A i \in DOMAIN progress : progress'[i].next = progress[i].next
  PROVE  CommerceInv'
<1>1. /\ run' \in [Collectors -> Runs \union {Idle}] /\ run'[c] = Idle
      /\ again' \in BOOLEAN /\ UNCHANGED itemVars
      /\ \A d \in Collectors : d # c => run'[d] = run[d]
  BY DEF CommerceInv, CommerceTypeOK, CollectTypeOK
<1>2. Grows /\ batches' \in Seq(Batches) /\ \A i \in DOMAIN batches : batches'[i] = batches[i]
  BY UntouchedStore
<1>3. PageRunOK(c)' /\ ~Writing(run'[c])
  BY <1>1 DEF PageRunOK, Writing, Idle
<1>4. PlacedInv'
  BY PlacedStays DEF ProgressKept
<1>5. ProgressIsBacked'
  BY <1>2, ProgressStaysBacked
<1> QED BY <1>1, <1>2, <1>3, <1>4, <1>5, PageMove

LEMMA BeginKeeps ==
  ASSUME CommerceInv, NEW c \in Collectors, NEW res \in Resources, NEW from \in Places(res),
         Begin(c, res, from), UNCHANGED itemVars
  PROVE  CommerceInv'
<1> DEFINE f == [of |-> res, from |-> from, next |-> from, status |-> "RUNNING"]
           r == [pc |-> "page", of |-> res, id |-> Len(progress) + 1, at |-> from,
                 count |-> 0, tries |-> 0, batch |-> 0]
<1>1. /\ progress' = Append(progress, f) /\ run' = [run EXCEPT ![c] = r]
      /\ UNCHANGED <<batches, faults>> /\ from \in Positions
      /\ again' = (\/ again
                   \/ \E i \in DOMAIN progress : progress[i].of = res /\ progress[i].from = from
                   \/ \E d \in Collectors : ~At(d, "idle") /\ run[d].of = res)
  BY PagesOf DEF Begin, Update
<1>2. f \in ProgressFiles /\ r \in Runs /\ again' \in BOOLEAN /\ faults' \in 0 .. MaxFaults
  <2>1. Len(progress) + 1 \in Nat /\ 0 \in 0 .. MaxRetries
    BY ProgressTyped, CollectionAssumption
  <2>2. f \in ProgressFiles /\ r \in Runs
    BY <1>1, <2>1 DEF ProgressFiles, Statuses, Runs
  <2>3. again' \in BOOLEAN /\ faults' \in 0 .. MaxFaults
    BY <1>1 DEF CommerceInv, CommerceTypeOK, CollectTypeOK
  <2> QED BY <2>2, <2>3
<1>3. r.pc = "page" /\ r.of = res /\ r.id = Len(progress) + 1 /\ r.at = from
  OBVIOUS
<1>4. f.of = res /\ f.from = from /\ f.next = from
  OBVIOUS
<1> HIDE DEF f, r
<1>5. /\ progress' \in Seq(ProgressFiles) /\ DOMAIN progress' = DOMAIN progress \union {Len(progress) + 1}
      /\ progress'[Len(progress) + 1] = f /\ \A i \in DOMAIN progress : progress'[i] = progress[i]
  <2>1. /\ progress' \in Seq(ProgressFiles) /\ Len(progress') = Len(progress) + 1
        /\ progress'[Len(progress) + 1] = f /\ \A i \in 1 .. Len(progress) : progress'[i] = progress[i]
    BY <1>1, <1>2, ProgressTyped, AppendProperties
  <2>2. DOMAIN progress' = 1 .. Len(progress) + 1
    BY <2>1, LenProperties
  <2> QED BY <2>1, <2>2, ProgressTyped
<1>6. /\ run' \in [Collectors -> Runs \union {Idle}] /\ run'[c] = r
      /\ \A d \in Collectors : d # c => run'[d] = run[d]
  BY <1>1, <1>2 DEF CommerceInv, CommerceTypeOK, CollectTypeOK
<1>7. /\ Grows /\ ProgressKept /\ batches' \in Seq(Batches) /\ \A i \in DOMAIN batches : batches'[i] = batches[i]
  BY <1>1, <1>5, UntouchedStore DEF ProgressKept
<1>8. \A x : ~(~Before(x, from) /\ Before(x, from))
  OBVIOUS
<1>9. PageRunOK(c)' /\ ~Writing(run'[c])
  BY <1>3, <1>4, <1>5, <1>6, <1>8 DEF PageRunOK, Writing, Places, Pages, End, Before
<1>10. PlacedInv'
  <2>1. \A i \in DOMAIN progress' :
          \/ i \in DOMAIN progress /\ progress'[i].of = progress[i].of /\ progress'[i].next = progress[i].next
          \/ progress'[i].next \in Places(progress'[i].of)
    BY <1>4, <1>5
  <2>2. \A i \in DOMAIN batches' :
          i \in DOMAIN batches /\ batches'[i].of = batches[i].of /\ batches'[i].at = batches[i].at
    BY <1>1
  <2> QED BY <2>1, <2>2, PlacedStays
<1>11. ProgressIsBacked'
  <2>1. \A i \in DOMAIN progress' : \A x \in Pages(progress'[i].of) :
          (~Before(x, progress'[i].from) /\ Before(x, progress'[i].next)) =>
            i \in DOMAIN progress /\ progress'[i].next = progress[i].next
    BY <1>4, <1>5, <1>8
  <2> QED BY <1>7, <2>1, ProgressStaysBacked
<1> QED BY <1>2, <1>5, <1>6, <1>7, <1>9, <1>10, <1>11, PageMove

\* A run opens a batch of its page.
LEMMA ReadPageKeeps ==
  ASSUME CommerceInv, NEW c \in Collectors, ReadPage(c), UNCHANGED itemVars
  PROVE  CommerceInv'
<1> DEFINE n == Len(batches) + 1
           m == [run[c] EXCEPT !.pc = "fill"]
           r == [m EXCEPT !.batch = n]
<1>0. run[c].pc = "page" /\ run[c].at # End(run[c].of) /\ CommerceTypeOK /\ n \in Nat
  BY StoreTyped DEF ReadPage, At, AtEnd, CommerceInv
<1>1. /\ run[c] \in Runs /\ run[c].of \in Resources /\ run[c].at \in Pages(run[c].of)
      /\ run[c].at \in Positions /\ ~Writing(run[c])
  BY <1>0, RunFacts DEF Places, Writing
<1>2. /\ batches' = Opened(batches, run[c].of, run[c].at) /\ run' = [run EXCEPT ![c] = r]
      /\ UNCHANGED <<progress, again, faults>>
  BY DEF ReadPage, Update
<1>3. m \in Runs /\ m.of = run[c].of /\ m.at = run[c].at /\ m.id = run[c].id /\ m.pc = "fill"
  BY <1>1 DEF Runs
<1> HIDE DEF m, n
<1>4. /\ r \in Runs /\ r.of = run[c].of /\ r.at = run[c].at /\ r.id = run[c].id
      /\ r.pc = "fill" /\ r.batch = n
  BY <1>0, <1>3 DEF Runs
<1> HIDE DEF r
<1>5. /\ run' \in [Collectors -> Runs \union {Idle}] /\ run'[c] = r
      /\ \A d \in Collectors : d # c => run'[d] = run[d]
  BY <1>0, <1>2, <1>4 DEF CommerceTypeOK, CollectTypeOK
<1>6. /\ batches' \in Seq(Batches) /\ Grows /\ n \notin DOMAIN batches
      /\ DOMAIN batches' = DOMAIN batches \union {n}
      /\ \A i \in DOMAIN batches : batches'[i] = batches[i]
      /\ batches'[n] = [of |-> run[c].of, at |-> run[c].at, stage |-> "sanitizing"]
  <2>1. [of |-> run[c].of, at |-> run[c].at, stage |-> "sanitizing"] \in Batches
    BY <1>1 DEF Batches, PageBatches, Stages
  <2> QED BY <1>0, <1>2, <2>1, OpenedStore DEF n
<1>7. ProgressKept /\ progress' \in Seq(ProgressFiles) /\ again' \in BOOLEAN /\ faults' \in 0 .. MaxFaults
  BY <1>0, <1>2 DEF ProgressKept, CommerceTypeOK, CollectTypeOK
<1>8. PageRunOK(c)'
  <2>1. Holds(run[c].batch, run[c].of, run[c].at)'
    BY <1>4, <1>5, <1>6 DEF Holds
  <2> QED BY <1>0, <1>1, <1>4, <1>5, <1>6, <1>7, <2>1, RunStands DEF Places
<1>9. PlacedInv'
  <2>1. \A i \in DOMAIN batches' :
          \/ i \in DOMAIN batches /\ batches'[i].of = batches[i].of /\ batches'[i].at = batches[i].at
          \/ batches'[i].at \in Pages(batches'[i].of)
    BY <1>1, <1>6
  <2> QED BY <1>2, <2>1, PlacedStays
<1>10. ProgressIsBacked'
  BY <1>2, <1>6, <1>7, ProgressStaysBacked
<1> QED BY <1>4, <1>5, <1>6, <1>7, <1>8, <1>9, <1>10, PageMove

\* A run writes the next part of its batch and goes on.
LEMMA WritePartKeeps ==
  ASSUME CommerceInv, NEW c \in Collectors, UNCHANGED <<itemVars, progress, again, faults>>,
         Writing(run[c]), NEW pc \in {"manifest", "fillManifest"}, NEW stage \in Stages, stage # "complete",
         batches' = [batches EXCEPT ![run[c].batch].stage = stage],
         run' = [run EXCEPT ![c].pc = pc]
  PROVE  CommerceInv'
<1> DEFINE r == [run[c] EXCEPT !.pc = pc]
<1>0. run[c].pc # "idle" /\ CommerceTypeOK
  BY DEF Writing, CommerceInv
<1>1. /\ run[c] \in Runs /\ run[c].of \in Resources /\ run[c].at \in Pages(run[c].of)
      /\ Holds(run[c].batch, run[c].of, run[c].at)
  BY <1>0, RunFacts
<1>2. /\ r \in Runs /\ r.of = run[c].of /\ r.at = run[c].at /\ r.id = run[c].id /\ r.pc = pc
      /\ r.batch = run[c].batch
  BY <1>1 DEF Runs
<1>3. run' = [run EXCEPT ![c] = r]
  OBVIOUS
<1> HIDE DEF r
<1>4. /\ run' \in [Collectors -> Runs \union {Idle}] /\ run'[c] = r
      /\ \A d \in Collectors : d # c => run'[d] = run[d]
  BY <1>0, <1>2, <1>3 DEF CommerceTypeOK, CollectTypeOK
<1>5. /\ batches' \in Seq(Batches) /\ Grows /\ DOMAIN batches' = DOMAIN batches
      /\ \A i \in DOMAIN batches : i # run[c].batch => batches'[i] = batches[i]
      /\ batches'[run[c].batch].of = run[c].of /\ batches'[run[c].batch].at = run[c].at
      /\ batches'[run[c].batch].stage = stage
  <2>1. /\ run[c].batch \in DOMAIN batches /\ batches[run[c].batch].stage # "complete"
        /\ batches[run[c].batch].of = run[c].of /\ batches[run[c].batch].at = run[c].at
    BY <1>1 DEF Holds
  <2> QED BY <1>0, <2>1, StagedStore
<1>6. ProgressKept /\ progress' \in Seq(ProgressFiles) /\ again' \in BOOLEAN /\ faults' \in 0 .. MaxFaults
  BY <1>0 DEF ProgressKept, CommerceTypeOK, CollectTypeOK
<1>7. PageRunOK(c)'
  <2>1. Holds(run[c].batch, run[c].of, run[c].at)'
    BY <1>1, <1>2, <1>4, <1>5 DEF Holds
  <2> QED BY <1>0, <1>1, <1>2, <1>4, <1>5, <1>6, <2>1, RunStands DEF Places
<1>8. PlacedInv'
  BY <1>5, PlacedStays DEF Grows
<1>9. ProgressIsBacked'
  BY <1>5, <1>6, ProgressStaysBacked
<1> QED BY <1>2, <1>4, <1>5, <1>6, <1>7, <1>8, <1>9, PageMove

\* With the manifest the page is stored, and the run goes on to the next one.
LEMMA FillManifestKeeps ==
  ASSUME CommerceInv, NEW c \in Collectors, FillManifest(c), UNCHANGED itemVars
  PROVE  CommerceInv'
<1> DEFINE old == run[c]
           y  == Following(old.of, old.at)
           n  == old.count + Cardinality(RecordsOn[old.of][old.at.w][old.at.p])
           r1 == [old EXCEPT !.pc = "save"]
           r2 == [r1 EXCEPT !.at = y]
           r3 == [r2 EXCEPT !.tries = 0]
           r4 == [r3 EXCEPT !.batch = 0]
           r  == [r4 EXCEPT !.count = n]
<1>0. old.pc = "fillManifest" /\ old.pc # "idle" /\ CommerceTypeOK /\ Writing(old)
  BY DEF FillManifest, At, CommerceInv, Writing
<1>1. /\ old \in Runs /\ old.of \in Resources /\ old.at \in Pages(old.of)
      /\ Holds(old.batch, old.of, old.at)
  BY <1>0, RunFacts
<1>2. y \in Places(old.of) /\ y \in Positions /\ n \in Nat /\ 0 \in 0 .. MaxRetries
  <2>1. y \in Places(old.of) /\ y \in Positions
    BY <1>1, FollowingPlaced, PagesOf
  <2>2. old.count \in Nat /\ Cardinality(RecordsOn[old.of][old.at.w][old.at.p]) \in Nat
    BY <1>1, RecordsOfPage DEF Runs
  <2> QED BY <2>1, <2>2, CollectionAssumption
<1>3. /\ batches' = [batches EXCEPT ![old.batch].stage = "complete"] /\ run' = [run EXCEPT ![c] = r]
      /\ UNCHANGED <<progress, again, faults>>
  BY DEF FillManifest, Update, ManifestFilled
<1>4. r \in Runs /\ r.of = old.of /\ r.id = old.id /\ r.at = y /\ r.pc = "save"
  <2> HIDE DEF old, y, n, r1, r2, r3, r4
  <2>1. r1 \in Runs /\ r1.of = old.of /\ r1.id = old.id /\ r1.pc = "save"
    BY <1>1 DEF Runs, r1
  <2>2. r2 \in Runs /\ r2.of = old.of /\ r2.id = old.id /\ r2.pc = "save" /\ r2.at = y
    BY <1>2, <2>1 DEF Runs, r2
  <2>3. r3 \in Runs /\ r3.of = old.of /\ r3.id = old.id /\ r3.pc = "save" /\ r3.at = y
    BY <1>2, <2>2 DEF Runs, r3
  <2>4. r4 \in Runs /\ r4.of = old.of /\ r4.id = old.id /\ r4.pc = "save" /\ r4.at = y
    BY <2>3 DEF Runs, r4
  <2> QED BY <1>2, <2>4 DEF Runs
<1> HIDE DEF r, y, n
<1>5. /\ run' \in [Collectors -> Runs \union {Idle}] /\ run'[c] = r
      /\ \A d \in Collectors : d # c => run'[d] = run[d]
  BY <1>0, <1>3, <1>4 DEF CommerceTypeOK, CollectTypeOK
<1>6. /\ batches' \in Seq(Batches) /\ Grows /\ DOMAIN batches' = DOMAIN batches
      /\ \A i \in DOMAIN batches : i # old.batch => batches'[i] = batches[i]
      /\ batches'[old.batch].of = old.of /\ batches'[old.batch].at = old.at
      /\ old.batch \in DOMAIN batches' /\ batches'[old.batch].stage = "complete"
  <2>1. /\ old.batch \in DOMAIN batches /\ batches[old.batch].stage # "complete"
        /\ batches[old.batch].of = old.of /\ batches[old.batch].at = old.at
    BY <1>1 DEF Holds
  <2> QED BY <1>0, <1>3, <2>1, StagedStore DEF Stages
<1>7. ProgressKept /\ progress' \in Seq(ProgressFiles) /\ again' \in BOOLEAN /\ faults' \in 0 .. MaxFaults
  BY <1>0, <1>3 DEF ProgressKept, CommerceTypeOK, CollectTypeOK
<1>8. PageRunOK(c)' /\ ~Writing(run'[c])
  <2>1. \A x \in Pages(old.of) : Before(x, y) => Before(x, old.at) \/ x = old.at
    BY <1>1, NothingBetween DEF y
  <2>2. \A x, res : res = old.of /\ x = old.at => Stored(x, res)'
    BY <1>6, CompleteIsStored
  <2>3. \A x : x = old.at => Stored(x, run[c].of)'
    BY <1>4, <1>5, <2>2 DEF Stored, Canonical, OfResource
  <2>4. ~Writing(run'[c])
    BY <1>4, <1>5 DEF Writing
  <2> QED BY <1>0, <1>2, <1>4, <1>5, <1>6, <1>7, <2>1, <2>3, <2>4, RunStands
<1>9. PlacedInv'
  BY <1>3, <1>6, PlacedStays DEF Grows
<1>10. ProgressIsBacked'
  BY <1>3, <1>6, <1>7, ProgressStaysBacked
<1> QED BY <1>0, <1>5, <1>6, <1>7, <1>8, <1>9, <1>10, PageMove

\* The progress file takes the position up to which everything is stored.
LEMMA SaveKeeps ==
  ASSUME CommerceInv, NEW c \in Collectors, SaveProgress(c), UNCHANGED itemVars
  PROVE  CommerceInv'
<1> DEFINE old == run[c]
           r == [old EXCEPT !.pc = "page"]
<1>0. old.pc = "save" /\ old.pc # "idle" /\ CommerceTypeOK
  BY DEF SaveProgress, At, CommerceInv
<1>1. /\ old \in Runs /\ old.of \in Resources /\ old.at \in Places(old.of) /\ old.at \in Positions
      /\ old.id \in DOMAIN progress /\ progress[old.id].of = old.of
  BY <1>0, RunFacts
<1>2. /\ UNCHANGED <<batches, again, faults>> /\ run' = [run EXCEPT ![c] = r]
      /\ progress' = [progress EXCEPT ![old.id].next = old.at]
  BY DEF SaveProgress, Goto
<1>3. r \in Runs /\ r.of = old.of /\ r.id = old.id /\ r.at = old.at /\ r.pc = "page"
  BY <1>1 DEF Runs
<1> HIDE DEF r
<1>4. /\ run' \in [Collectors -> Runs \union {Idle}] /\ run'[c] = r
      /\ \A d \in Collectors : d # c => run'[d] = run[d]
  BY <1>0, <1>2, <1>3 DEF CommerceTypeOK, CollectTypeOK
<1>5. /\ progress' \in Seq(ProgressFiles) /\ DOMAIN progress' = DOMAIN progress /\ ProgressKept
      /\ progress'[old.id].next = old.at
      /\ \A j \in DOMAIN progress : j # old.id => progress'[j].next = progress[j].next
  BY <1>1, <1>2, NextSet
<1>6. /\ Grows /\ batches' \in Seq(Batches) /\ again' \in BOOLEAN /\ faults' \in 0 .. MaxFaults
      /\ \A i \in DOMAIN batches : batches'[i] = batches[i]
  BY <1>0, <1>2, UntouchedStore DEF CommerceTypeOK, CollectTypeOK
<1>7. PageRunOK(c)' /\ ~Writing(run'[c])
  <2>1. ~Writing(run'[c])
    BY <1>3, <1>4 DEF Writing
  <2> QED BY <1>0, <1>1, <1>3, <1>4, <1>5, <1>6, <2>1, RunStands
<1>8. PlacedInv'
  <2>1. \A i \in DOMAIN progress' :
          \/ i \in DOMAIN progress /\ progress'[i].of = progress[i].of /\ progress'[i].next = progress[i].next
          \/ progress'[i].next \in Places(progress'[i].of)
    BY <1>1, <1>5 DEF ProgressKept
  <2>2. \A i \in DOMAIN batches' :
          i \in DOMAIN batches /\ batches'[i].of = batches[i].of /\ batches'[i].at = batches[i].at
    BY <1>2
  <2> QED BY <2>1, <2>2, PlacedStays
<1>9. ProgressIsBacked'
  <2>1. \A x \in Pages(old.of) :
          (~Before(x, progress[old.id].from) /\ Before(x, old.at)) => Stored(x, old.of)
    BY <1>0 DEF CommerceInv, PageInv, PageRunOK
  <2>2. progress'[old.id].of = old.of /\ progress'[old.id].from = progress[old.id].from
    BY <1>1, <1>5 DEF ProgressKept
  <2>3. \A i \in DOMAIN progress' : \A x \in Pages(progress'[i].of) :
          (~Before(x, progress'[i].from) /\ Before(x, progress'[i].next)) =>
            \/ i \in DOMAIN progress /\ progress'[i].next = progress[i].next
            \/ Stored(x, progress'[i].of)
    BY <1>5, <2>1, <2>2
  <2> QED BY <1>5, <1>6, <2>3, ProgressStaysBacked
<1> QED BY <1>4, <1>5, <1>6, <1>7, <1>8, <1>9, PageMove

\* A rate limit is waited for.
LEMMA RetryKeeps ==
  ASSUME CommerceInv, NEW c \in Collectors, run[c].pc = "page", run[c].tries < MaxRetries,
         run' = [run EXCEPT ![c] = [run[c] EXCEPT !.tries = @ + 1]],
         UNCHANGED <<itemVars, progress, batches, again, faults>>
  PROVE  CommerceInv'
<1> DEFINE old == run[c]
           n == old.tries + 1
           r == [old EXCEPT !.tries = n]
<1>1. old \in Runs /\ old.at \in Places(old.of) /\ CommerceTypeOK
  BY RunFacts DEF CommerceInv
<1>2. n \in 0 .. MaxRetries
  BY <1>1, CollectionAssumption DEF Runs
<1>3. r \in Runs /\ r.of = old.of /\ r.id = old.id /\ r.at = old.at /\ r.pc = "page"
  <2> HIDE DEF n
  <2> QED BY <1>1, <1>2 DEF Runs
<1>4. run' = [run EXCEPT ![c] = r]
  OBVIOUS
<1> HIDE DEF r
<1>5. /\ run' \in [Collectors -> Runs \union {Idle}] /\ run'[c] = r
      /\ \A d \in Collectors : d # c => run'[d] = run[d]
  BY <1>1, <1>3, <1>4 DEF CommerceTypeOK, CollectTypeOK
<1>6. /\ Grows /\ batches' \in Seq(Batches) /\ again' \in BOOLEAN /\ faults' \in 0 .. MaxFaults
      /\ ProgressKept /\ progress' \in Seq(ProgressFiles)
      /\ \A i \in DOMAIN batches : batches'[i] = batches[i]
  BY <1>1, UntouchedStore DEF CommerceTypeOK, CollectTypeOK, ProgressKept
<1>7. ~Writing(run'[c])
  BY <1>3, <1>5 DEF Writing
<1>8. PageRunOK(c)'
  BY <1>1, <1>3, <1>5, <1>6, <1>7, RunStands
<1>9. PlacedInv' /\ ProgressIsBacked'
  BY <1>6, PlacedStays, ProgressStaysBacked
<1> QED BY <1>5, <1>6, <1>7, <1>8, <1>9, PageMove

LEMMA CollectStepKeeps ==
  ASSUME CommerceInv, NEW c \in Collectors, CollectStep(c), UNCHANGED itemVars
  PROVE  CommerceInv'
<1>1. CASE BeginOrders(c) \/ BeginRefunds(c)
  <2>1. \A res \in Resources : First \in Places(res) /\ ResumePoints(res) \subseteq Places(res)
    BY PagesOf DEF Places, ResumePoints, CommerceInv, PageInv, PlacedInv
  <2>2. PICK res \in Resources : \E from \in Places(res) : Begin(c, res, from)
    BY <1>1, <2>1, CommerceAssumption DEF BeginOrders, BeginRefunds
  <2> QED BY <2>2, BeginKeeps
<1>2. CASE ReadPage(c)
  BY <1>2, ReadPageKeeps
<1>3. CASE RateLimited(c)
  <2>1. run[c].pc = "page" /\ run[c].id \in DOMAIN progress
    BY <1>3, RunFacts DEF RateLimited, At
  <2>2. CASE MayRetry(c)
    BY <1>3, <2>1, <2>2, RetryKeeps DEF RateLimited, MayRetry, Update
  <2>3. CASE ~MayRetry(c)
    <3>1. /\ progress' = [progress EXCEPT ![run[c].id].status = "FAILED_RATE_LIMIT"]
          /\ run' = [run EXCEPT ![c] = Idle] /\ UNCHANGED <<batches, again, faults>>
      BY <1>3, <2>3 DEF RateLimited, Update
    <3>2. faults' \in 0 .. MaxFaults
      BY <3>1 DEF CommerceInv, CommerceTypeOK, CollectTypeOK
    <3> QED BY <2>1, <3>1, <3>2, StatusSet, StopKeeps DEF Statuses
  <2> QED BY <2>2, <2>3
<1>4. CASE FillPage(c)
  BY <1>4, WritePartKeeps DEF FillPage, Filled, Goto, At, Writing, Stages
<1>5. CASE OpenManifest(c)
  BY <1>5, WritePartKeeps DEF OpenManifest, ManifestOpened, Goto, At, Writing, Stages
<1>6. CASE FillManifest(c)
  BY <1>6, FillManifestKeeps
<1>7. CASE SaveProgress(c)
  BY <1>7, SaveKeeps
<1>8. CASE Finish(c, AtEnd(c))
  <2>1. run[c].id \in DOMAIN progress
    BY <1>8, RunFacts DEF Finish, At
  <2>2. PICK s \in {"COMPLETED", "LIMIT_REACHED"} : progress' = [progress EXCEPT ![run[c].id].status = s]
    BY <1>8 DEF Finish
  <2>3. run' = [run EXCEPT ![c] = Idle] /\ UNCHANGED <<batches, again, faults>>
    BY <1>8 DEF Finish, Update
  <2>4. faults' \in 0 .. MaxFaults
    BY <2>3 DEF CommerceInv, CommerceTypeOK, CollectTypeOK
  <2> QED BY <2>1, <2>2, <2>3, <2>4, StatusSet, StopKeeps DEF Statuses
<1>9. CASE Fail(c)
  <2>1. run' = [run EXCEPT ![c] = Idle] /\ UNCHANGED <<batches, progress, again>>
    BY <1>9 DEF Fail, Update
  <2>2. faults' \in 0 .. MaxFaults /\ ProgressKept /\ progress' \in Seq(ProgressFiles)
    <3>1. faults \in 0 .. MaxFaults /\ progress \in Seq(ProgressFiles)
      BY DEF CommerceInv, CommerceTypeOK, CollectTypeOK
    <3> QED BY <1>9, <2>1, <3>1, CollectionAssumption DEF Fail, ProgressKept
  <2> QED BY <2>1, <2>2, StopKeeps
<1> QED BY <1>1, <1>2, <1>3, <1>4, <1>5, <1>6, <1>7, <1>8, <1>9 DEF CollectStep, PageStep

-----------------------------------------------------------------------------
(* Order-item runs                                                         *)

\* A step of one order-item run touches no batch but the one it writes.
LEMMA ItemMove ==
  ASSUME CommerceInv, NEW t \in ItemCollectors, UNCHANGED collectVars,
         itemRun' \in [ItemCollectors -> ItemRuns \union {Idle}],
         \A u \in ItemCollectors : u # t => itemRun'[u] = itemRun[u],
         batches' \in Seq(Batches), faults' \in 0 .. MaxFaults,
         index' \in Indexes, tmp' \in Indexes \union {NoFile}, HandlesTyped', reports' \in SUBSET Reports,
         itemRuns' \in 0 .. MaxItemRuns, overlapped' \in BOOLEAN,
         Grows,
         \A i \in DOMAIN batches : batches'[i] # batches[i] => Writing(itemRun[t]) /\ i = itemRun[t].batch,
         \A i \in DOMAIN batches' : batches'[i].of \in Resources => i \in DOMAIN batches,
         Writing(itemRun'[t]) => \/ Writing(itemRun[t]) /\ itemRun'[t].batch = itemRun[t].batch
                                \/ itemRun'[t].batch \notin DOMAIN batches,
         ItemRunOK(t)', IndexIsBacked', TmpIsBacked', CompletedRunIsWhole'
  PROVE  CommerceInv'
<1>0. /\ CommerceTypeOK /\ ItemsApart /\ PagesApart /\ \A u \in ItemCollectors : ItemRunOK(u)
      /\ progress' = progress /\ run' = run /\ again' = again
      /\ itemRun \in [ItemCollectors -> ItemRuns \union {Idle}]
  BY DEF CommerceInv, PageInv, ItemInv, CommerceTypeOK, ItemTypeOK, collectVars
<1>a. \A u \in ItemCollectors : Writing(itemRun[u]) =>
        /\ itemRun[u].batch \in DOMAIN batches /\ batches[itemRun[u].batch].of = "order_items"
  BY <1>0 DEF ItemRunOK, Holds, Writing
<1>1. CommerceTypeOK'
  BY <1>0 DEF CommerceTypeOK, CollectTypeOK, ItemTypeOK, HandlesTyped, Batches
<1>2. ItemsApart'
  <2> SUFFICES ASSUME NEW u \in ItemCollectors, NEW v \in ItemCollectors,
                      Writing(itemRun'[u]), Writing(itemRun'[v]), u # v
               PROVE  itemRun'[u].batch # itemRun'[v].batch
    BY DEF ItemsApart, Writing
  <2>1. \A x, y \in ItemCollectors :
          Writing(itemRun[x]) /\ Writing(itemRun[y]) /\ x # y => itemRun[x].batch # itemRun[y].batch
    BY <1>0 DEF ItemsApart
  <2> QED BY <1>a, <2>1
<1>3. ASSUME NEW u \in ItemCollectors, u # t
      PROVE  ItemRunOK(u)'
  <2>1. Writing(itemRun[u]) /\ Writing(itemRun[t]) => itemRun[u].batch # itemRun[t].batch
    BY <1>0, <1>3 DEF ItemsApart
  <2>2. Writing(itemRun[u]) => batches'[itemRun[u].batch] = batches[itemRun[u].batch]
    BY <1>a, <2>1
  <2> QED BY <1>0, <1>3, <2>2, ItemRunStays
<1>4. ItemInv'
  BY <1>2, <1>3 DEF ItemInv
<1>5. ProgressKept /\ DOMAIN progress' = DOMAIN progress
  BY <1>0 DEF ProgressKept
<1>6. ASSUME NEW c \in Collectors
      PROVE  PageRunOK(c)'
  <2>1. Writing(run[c]) => batches'[run[c].batch] = batches[run[c].batch]
    <3> SUFFICES ASSUME Writing(run[c]) PROVE batches'[run[c].batch] = batches[run[c].batch]
      OBVIOUS
    <3>1. run[c].pc # "idle"
      BY DEF Writing
    <3>2. run[c].of \in Resources /\ Holds(run[c].batch, run[c].of, run[c].at)
      BY <3>1, RunFacts
    <3>3. run[c].batch \in DOMAIN batches /\ batches[run[c].batch].of \in Resources
      BY <3>2 DEF Holds
    <3> QED BY <1>a, <3>3, CommerceAssumption
  <2>2. PageRunOK(c) /\ run'[c] = run[c]
    BY <1>0 DEF CommerceInv, PageInv
  <2> QED BY <1>5, <2>1, <2>2, PageRunStays DEF ProgressKept
<1>7. PlacedInv'
  <2>1. \A i \in DOMAIN batches' :
          \/ i \in DOMAIN batches /\ batches'[i].of = batches[i].of /\ batches'[i].at = batches[i].at
          \/ batches'[i].of \in Resources => batches'[i].at \in Pages(batches'[i].of)
    BY DEF Grows
  <2> QED BY <1>0, <2>1, PlacedStays
<1>8. PagesApart'
  BY <1>0 DEF PagesApart, Writing
<1>9. ProgressIsBacked'
  BY <1>0, <1>5, ProgressStaysBacked
<1>10. PageInv'
  BY <1>6, <1>7, <1>8, <1>9 DEF PageInv
<1> QED BY <1>1, <1>4, <1>10 DEF CommerceInv

LEMMA ItemFacts ==
  ASSUME CommerceInv, NEW t \in ItemCollectors, itemRun[t].pc # "idle"
  PROVE  /\ itemRun[t] \in ItemRuns /\ itemRun[t].left \subseteq Orders /\ itemRun[t].ids \subseteq Orders
         /\ itemRun[t].cache \in Indexes
         /\ Writing(itemRun[t]) => Holds(itemRun[t].batch, "order_items", Current(itemRun[t]))
         /\ \A o \in Orders : itemRun[t].cache[o] # "none" => Settled(o)
         /\ itemRun[t].failed = 0 => \A o \in itemRun[t].ids \ itemRun[t].left : Settled(o)
         /\ itemRun[t].pc \in {"tmp", "replace", "tmpGone", "replaceGone"} =>
              \A o \in Orders : o = Current(itemRun[t]) => Settled(o)
<1>1. itemRun[t] \in ItemRuns
  BY DEF CommerceInv, CommerceTypeOK, ItemTypeOK, Idle
<1>2. ItemRunOK(t)
  BY DEF CommerceInv, ItemInv
<1>3. itemRun[t].left \subseteq Orders /\ itemRun[t].ids \subseteq Orders /\ itemRun[t].cache \in Indexes
  BY <1>1 DEF ItemRuns
<1> QED BY <1>1, <1>2, <1>3 DEF ItemRunOK

LEMMA HandlesStayTyped ==
  ASSUME CommerceInv, UNCHANGED <<openAs, unreadable>>
  PROVE  HandlesTyped'
BY DEF CommerceInv, CommerceTypeOK, ItemTypeOK, HandlesTyped

LEMMA FilesStayBacked ==
  ASSUME CommerceInv, Grows
  PROVE  /\ index' = index => IndexIsBacked'
         /\ tmp' = tmp => TmpIsBacked'
         /\ reports' = reports => CompletedRunIsWhole'
<1>1. \A o : Settled(o) => Settled(o)'
  BY StoredStays
<1>2. IndexIsBacked /\ TmpIsBacked /\ CompletedRunIsWhole
  BY DEF CommerceInv, ItemInv
<1>3. index' = index => IndexIsBacked'
  BY <1>1, <1>2 DEF IndexIsBacked
<1>4. tmp' = tmp => TmpIsBacked'
  BY <1>1, <1>2 DEF TmpIsBacked
<1>5. reports' = reports => CompletedRunIsWhole'
  BY <1>1, <1>2 DEF CompletedRunIsWhole
<1> QED BY <1>3, <1>4, <1>5

\* What the steps of a run do to its record.
LEMMA PassedRun ==
  ASSUME NEW r \in ItemRuns, NEW failed \in BOOLEAN
  PROVE  LET q == Passed(r, failed) IN
         /\ q \in ItemRuns /\ q.pc = "next" /\ q.ids = r.ids /\ q.left = r.left \ {Current(r)}
         /\ q.cache = r.cache /\ q.failed = IF failed THEN r.failed + 1 ELSE r.failed
<1> DEFINE o  == Current(r)
           f  == IF failed THEN r.failed + 1 ELSE r.failed
           p  == r.processed + 1
           q1 == [r EXCEPT !.pc = "next"]
           q2 == [q1 EXCEPT !.left = r.left \ {o}]
           q3 == [q2 EXCEPT !.processed = p]
           q4 == [q3 EXCEPT !.tries = 0]
           q5 == [q4 EXCEPT !.batch = 0]
           q6 == [q5 EXCEPT !.failed = f]
<1>1. f \in Nat /\ p \in Nat /\ r.left \in SUBSET Orders
  BY DEF ItemRuns
<1>2. Passed(r, failed) = q6
  BY DEF Passed, ItemRuns
<1> HIDE DEF o, f, p, q1, q2, q3, q4, q5
<1>3. q1 \in ItemRuns /\ q1.pc = "next" /\ q1.ids = r.ids /\ q1.cache = r.cache
  BY DEF ItemRuns, q1
<1>4. q2 \in ItemRuns /\ q2.pc = "next" /\ q2.ids = r.ids /\ q2.cache = r.cache /\ q2.left = r.left \ {o}
  BY <1>1, <1>3 DEF ItemRuns, q2
<1>5. q3 \in ItemRuns /\ q3.pc = "next" /\ q3.ids = r.ids /\ q3.cache = r.cache /\ q3.left = r.left \ {o}
  BY <1>1, <1>4 DEF ItemRuns, q3
<1>6. q4 \in ItemRuns /\ q4.pc = "next" /\ q4.ids = r.ids /\ q4.cache = r.cache /\ q4.left = r.left \ {o}
  BY <1>5 DEF ItemRuns, q4
<1>7. q5 \in ItemRuns /\ q5.pc = "next" /\ q5.ids = r.ids /\ q5.cache = r.cache /\ q5.left = r.left \ {o}
  BY <1>6 DEF ItemRuns, q5
<1>8. /\ q6 \in ItemRuns /\ q6.pc = "next" /\ q6.ids = r.ids /\ q6.cache = r.cache /\ q6.left = r.left \ {o}
      /\ q6.failed = f
  BY <1>1, <1>7 DEF ItemRuns
<1> HIDE DEF q6
<1> QED BY <1>2, <1>8 DEF o, f

LEMMA IndexedRun ==
  ASSUME NEW r \in ItemRuns
  PROVE  LET q == Indexed(r) IN
         /\ q \in ItemRuns /\ q.pc = "next" /\ q.ids = r.ids /\ q.left = r.left \ {Current(r)}
         /\ q.cache = r.cache /\ q.failed = r.failed
<1> DEFINE o  == Current(r)
           q1 == [r EXCEPT !.pc = "next"]
           q2 == [q1 EXCEPT !.left = r.left \ {o}]
           q3 == [q2 EXCEPT !.tries = 0]
           q4 == [q3 EXCEPT !.batch = 0]
<1>1. r.left \in SUBSET Orders
  BY DEF ItemRuns
<1>2. Indexed(r) = q4
  BY DEF Indexed, ItemRuns
<1> HIDE DEF o, q1, q2, q3
<1>3. q1 \in ItemRuns /\ q1.pc = "next" /\ q1.ids = r.ids /\ q1.cache = r.cache /\ q1.failed = r.failed
  BY DEF ItemRuns, q1
<1>4. /\ q2 \in ItemRuns /\ q2.pc = "next" /\ q2.ids = r.ids /\ q2.cache = r.cache /\ q2.failed = r.failed
      /\ q2.left = r.left \ {o}
  BY <1>1, <1>3 DEF ItemRuns, q2
<1>5. /\ q3 \in ItemRuns /\ q3.pc = "next" /\ q3.ids = r.ids /\ q3.cache = r.cache /\ q3.failed = r.failed
      /\ q3.left = r.left \ {o}
  BY <1>4 DEF ItemRuns, q3
<1>6. /\ q4 \in ItemRuns /\ q4.pc = "next" /\ q4.ids = r.ids /\ q4.cache = r.cache /\ q4.failed = r.failed
      /\ q4.left = r.left \ {o}
  BY <1>5 DEF ItemRuns
<1> HIDE DEF q4
<1> QED BY <1>2, <1>6 DEF o

\* A run that has done with its order has settled it, or counts it as failed.
LEMMA DoneWithOrder ==
  ASSUME CommerceInv, NEW t \in ItemCollectors, itemRun[t].pc # "idle", Grows,
         itemRun'[t].pc = "next", itemRun'[t].ids = itemRun[t].ids, itemRun'[t].cache = itemRun[t].cache,
         itemRun'[t].left = itemRun[t].left \ {Current(itemRun[t])},
         itemRun'[t].failed = 0 =>
           itemRun[t].failed = 0 /\ \A o \in Orders : o = Current(itemRun[t]) => Settled(o)
  PROVE  ItemRunOK(t)'
<1>1. \A o : Settled(o) => Settled(o)'
  BY StoredStays
<1>2. \A o \in Orders : itemRun'[t].cache[o] # "none" => Settled(o)'
  BY <1>1, ItemFacts
<1>3. ASSUME itemRun'[t].failed = 0, NEW o \in itemRun'[t].ids \ itemRun'[t].left
      PROVE  Settled(o)'
  <2>1. o \in Orders /\ (o \in itemRun[t].ids \ itemRun[t].left \/ o = Current(itemRun[t]))
    BY <1>3, ItemFacts
  <2>2. Settled(o)
    BY <1>3, <2>1, ItemFacts
  <2> QED BY <1>1, <2>2
<1> QED BY <1>2, <1>3 DEF ItemRunOK, Writing

LEMMA OrderPassedKeeps ==
  ASSUME CommerceInv, NEW t \in ItemCollectors, itemRun[t].pc # "idle", NEW failed \in BOOLEAN,
         itemRun' = [itemRun EXCEPT ![t] = Passed(itemRun[t], failed)],
         ~failed => \A o \in Orders : o = Current(itemRun[t]) => Settled(o),
         UNCHANGED <<collectVars, batches, index, tmp, reports, itemRuns, overlapped>>, HandlesTyped',
         faults' \in 0 .. MaxFaults
  PROVE  CommerceInv'
<1> DEFINE q == Passed(itemRun[t], failed)
<1>1. itemRun[t] \in ItemRuns /\ CommerceTypeOK
  BY ItemFacts DEF CommerceInv
<1>2. /\ q \in ItemRuns /\ q.pc = "next" /\ q.ids = itemRun[t].ids /\ q.cache = itemRun[t].cache
      /\ q.left = itemRun[t].left \ {Current(itemRun[t])}
      /\ q.failed = IF failed THEN itemRun[t].failed + 1 ELSE itemRun[t].failed
  BY <1>1, PassedRun
<1>3. itemRun' = [itemRun EXCEPT ![t] = q]
  OBVIOUS
<1> HIDE DEF q
<1>4. /\ itemRun' \in [ItemCollectors -> ItemRuns \union {Idle}] /\ itemRun'[t] = q
      /\ \A u \in ItemCollectors : u # t => itemRun'[u] = itemRun[u]
  BY <1>1, <1>2, <1>3 DEF CommerceTypeOK, ItemTypeOK
<1>5. /\ Grows /\ batches' \in Seq(Batches) /\ DOMAIN batches' = DOMAIN batches
      /\ \A i \in DOMAIN batches : batches'[i] = batches[i]
  BY UntouchedStore
<1>6. q.failed = 0 => ~failed /\ itemRun[t].failed = 0
  <2>1. itemRun[t].failed \in Nat
    BY <1>1 DEF ItemRuns
  <2> QED BY <1>2, <2>1
<1>7. ItemRunOK(t)' /\ ~Writing(itemRun'[t])
  BY <1>2, <1>4, <1>5, <1>6, DoneWithOrder DEF Writing
<1>8. /\ index' \in Indexes /\ tmp' \in Indexes \union {NoFile} /\ HandlesTyped' /\ reports' \in SUBSET Reports
      /\ itemRuns' \in 0 .. MaxItemRuns /\ overlapped' \in BOOLEAN
  BY <1>1 DEF CommerceTypeOK, ItemTypeOK, HandlesTyped
<1>9. IndexIsBacked' /\ TmpIsBacked' /\ CompletedRunIsWhole'
  BY <1>5, FilesStayBacked
<1> QED BY <1>4, <1>5, <1>7, <1>8, <1>9, ItemMove

\* A run ends, with or without a report.
LEMMA ItemStopKeeps ==
  ASSUME CommerceInv, NEW t \in ItemCollectors, itemRun' = [itemRun EXCEPT ![t] = Idle],
         UNCHANGED <<collectVars, batches, index, tmp, itemRuns, overlapped>>, HandlesTyped', faults' \in 0 .. MaxFaults,
         reports' \in SUBSET Reports,
         \A r \in reports' : r \in reports \/ (Completed(r) => \A o \in r.ids : Settled(o))
  PROVE  CommerceInv'
<1>1. /\ itemRun' \in [ItemCollectors -> ItemRuns \union {Idle}] /\ itemRun'[t] = Idle
      /\ \A u \in ItemCollectors : u # t => itemRun'[u] = itemRun[u]
  BY DEF CommerceInv, CommerceTypeOK, ItemTypeOK
<1>2. /\ Grows /\ batches' \in Seq(Batches) /\ DOMAIN batches' = DOMAIN batches
      /\ \A i \in DOMAIN batches : batches'[i] = batches[i]
  BY UntouchedStore
<1>3. ItemRunOK(t)' /\ ~Writing(itemRun'[t])
  BY <1>1 DEF ItemRunOK, Writing, Idle
<1>4. /\ index' \in Indexes /\ tmp' \in Indexes \union {NoFile} /\ HandlesTyped'
      /\ itemRuns' \in 0 .. MaxItemRuns /\ overlapped' \in BOOLEAN
  BY DEF CommerceInv, CommerceTypeOK, ItemTypeOK, HandlesTyped
<1>5. IndexIsBacked' /\ TmpIsBacked'
  BY <1>2, FilesStayBacked
<1>6. CompletedRunIsWhole'
  <2>1. \A o : Settled(o) => Settled(o)'
    BY <1>2, StoredStays
  <2>2. CompletedRunIsWhole
    BY DEF CommerceInv, ItemInv
  <2> QED BY <2>1, <2>2 DEF CompletedRunIsWhole
<1> QED BY <1>1, <1>2, <1>3, <1>4, <1>5, <1>6, ItemMove

LEMMA BeginItemsKeeps ==
  ASSUME CommerceInv, NEW t \in ItemCollectors, BeginItems(t), UNCHANGED collectVars
  PROVE  CommerceInv'
<1> DEFINE r == [pc |-> "next", ids |-> OrderIds, left |-> OrderIds, cache |-> index,
                 processed |-> 0, failed |-> 0, tries |-> 0, batch |-> 0]
<1>0. CommerceTypeOK /\ IndexIsBacked /\ PlacedInv
  BY DEF CommerceInv, ItemInv, PageInv
<1>1. OrderIds \in SUBSET Orders
  <2>1. ASSUME NEW i \in Canonical(batches, "orders") PROVE Records(batches[i]) \subseteq Orders
    <3>1. batches[i].of = "orders" /\ batches[i].at \in Pages("orders")
      BY <1>0, <2>1, CommerceAssumption DEF Canonical, OfResource, PlacedInv
    <3> QED BY <3>1, RecordsOfPage, CommerceAssumption DEF Records
  <2> QED BY <2>1 DEF OrderIds
<1>2. /\ itemRun' = [itemRun EXCEPT ![t] = r] /\ itemRuns' = itemRuns + 1 /\ itemRuns < MaxItemRuns
      /\ overlapped' \in BOOLEAN /\ UNCHANGED <<batches, index, tmp, openAs, unreadable, reports, faults>>
  BY <1>0 DEF BeginItems, ItemsUpdate, IndexFilesUnchanged, CommerceTypeOK, ItemTypeOK
<1>3. r \in ItemRuns
  BY <1>0, <1>1 DEF ItemRuns, CommerceTypeOK, ItemTypeOK
<1>4. r.pc = "next" /\ r.ids = r.left /\ r.cache = index
  OBVIOUS
<1> HIDE DEF r
<1>5. /\ itemRun' \in [ItemCollectors -> ItemRuns \union {Idle}] /\ itemRun'[t] = r
      /\ \A u \in ItemCollectors : u # t => itemRun'[u] = itemRun[u]
  BY <1>0, <1>2, <1>3 DEF CommerceTypeOK, ItemTypeOK
<1>6. /\ Grows /\ batches' \in Seq(Batches) /\ DOMAIN batches' = DOMAIN batches
      /\ \A i \in DOMAIN batches : batches'[i] = batches[i]
  BY <1>2, UntouchedStore
<1>7. ItemRunOK(t)' /\ ~Writing(itemRun'[t])
  <2>1. \A o \in Orders : itemRun'[t].cache[o] # "none" => Settled(o)'
    BY <1>0, <1>4, <1>5, <1>6, StoredStays DEF IndexIsBacked
  <2> QED BY <1>4, <1>5, <2>1 DEF ItemRunOK, Writing
<1>8. /\ index' \in Indexes /\ tmp' \in Indexes \union {NoFile} /\ HandlesTyped' /\ reports' \in SUBSET Reports
      /\ faults' \in 0 .. MaxFaults /\ itemRuns' \in 0 .. MaxItemRuns
  <2>1. itemRuns \in 0 .. MaxItemRuns /\ MaxItemRuns \in Nat
    BY <1>0, ItemAssumption DEF CommerceTypeOK, ItemTypeOK
  <2> QED BY <1>0, <1>2, <2>1 DEF CommerceTypeOK, ItemTypeOK, HandlesTyped, CollectTypeOK
<1>9. IndexIsBacked' /\ TmpIsBacked' /\ CompletedRunIsWhole'
  BY <1>2, <1>6, FilesStayBacked
<1> QED BY <1>2, <1>5, <1>6, <1>7, <1>8, <1>9, ItemMove

\* A run that stays at its order.
LEMMA StaysAtOrder ==
  ASSUME CommerceInv, NEW t \in ItemCollectors, itemRun[t].pc # "idle", Grows,
         itemRun'[t].ids = itemRun[t].ids, itemRun'[t].left = itemRun[t].left,
         itemRun'[t].failed = itemRun[t].failed,
         \A o \in Orders : itemRun'[t].cache[o] # "none" => itemRun[t].cache[o] # "none" \/ Settled(o)',
         Writing(itemRun'[t]) => Holds(itemRun[t].batch, "order_items", Current(itemRun[t]))',
         itemRun'[t].pc \in {"tmp", "replace", "tmpGone", "replaceGone"} =>
           \A o \in Orders : o = Current(itemRun[t]) => Settled(o)'
  PROVE  ItemRunOK(t)'
<1>1. \A o : Settled(o) => Settled(o)'
  BY StoredStays
<1>2. Current(itemRun[t])' = Current(itemRun[t])
  BY DEF Current
<1>3. \A o \in Orders : itemRun'[t].cache[o] # "none" => Settled(o)'
  BY <1>1, ItemFacts
<1>4. itemRun'[t].failed = 0 => \A o \in itemRun'[t].ids \ itemRun'[t].left : Settled(o)'
  BY <1>1, ItemFacts
<1> QED BY <1>2, <1>3, <1>4 DEF ItemRunOK, Writing

LEMMA ReadItemsKeeps ==
  ASSUME CommerceInv, NEW t \in ItemCollectors, ReadItems(t), UNCHANGED collectVars
  PROVE  CommerceInv'
<1> DEFINE old == itemRun[t]
           n == Len(batches) + 1
           m == [old EXCEPT !.pc = "fill"]
           r == [m EXCEPT !.batch = n]
<1>0. old.pc = "next" /\ old.pc # "idle" /\ old.left # {} /\ CommerceTypeOK /\ n \in Nat
  BY StoreTyped DEF ReadItems, HasOrder, ItemsAt, CommerceInv
<1>1. old \in ItemRuns /\ Current(old) \in Orders /\ ~Writing(old)
  <2>1. old \in ItemRuns /\ old.left \subseteq Orders
    BY <1>0, ItemFacts
  <2> HIDE DEF old
  <2>2. Current(old) \in old.left
    BY <1>0, <2>1, CurrentIsLeft
  <2> QED BY <1>0, <2>1, <2>2 DEF Writing
<1>2. /\ batches' = Opened(batches, "order_items", Current(old)) /\ itemRun' = [itemRun EXCEPT ![t] = r]
      /\ UNCHANGED <<faults, index, tmp, openAs, unreadable, reports, itemRuns, overlapped>>
  BY DEF ReadItems, ItemsUpdate, FilesUnchanged, IndexFilesUnchanged
<1>3. /\ m \in ItemRuns /\ m.ids = old.ids /\ m.left = old.left /\ m.cache = old.cache
      /\ m.failed = old.failed /\ m.pc = "fill"
  BY <1>1 DEF ItemRuns
<1> HIDE DEF m, n
<1>4. /\ r \in ItemRuns /\ r.ids = old.ids /\ r.left = old.left /\ r.cache = old.cache
      /\ r.failed = old.failed /\ r.pc = "fill" /\ r.batch = n
  BY <1>0, <1>3 DEF ItemRuns
<1> HIDE DEF r
<1>5. /\ itemRun' \in [ItemCollectors -> ItemRuns \union {Idle}] /\ itemRun'[t] = r
      /\ \A u \in ItemCollectors : u # t => itemRun'[u] = itemRun[u]
  BY <1>0, <1>2, <1>4 DEF CommerceTypeOK, ItemTypeOK
<1>6. /\ batches' \in Seq(Batches) /\ Grows /\ n \notin DOMAIN batches
      /\ DOMAIN batches' = DOMAIN batches \union {n}
      /\ \A i \in DOMAIN batches : batches'[i] = batches[i]
      /\ batches'[n] = [of |-> "order_items", at |-> Current(old), stage |-> "sanitizing"]
  <2>1. [of |-> "order_items", at |-> Current(old), stage |-> "sanitizing"] \in Batches
    BY <1>1 DEF Batches, ItemBatches, Stages
  <2> QED BY <1>0, <1>2, <2>1, OpenedStore DEF n
<1>7. /\ index' \in Indexes /\ tmp' \in Indexes \union {NoFile} /\ HandlesTyped' /\ reports' \in SUBSET Reports
      /\ faults' \in 0 .. MaxFaults /\ itemRuns' \in 0 .. MaxItemRuns /\ overlapped' \in BOOLEAN
  BY <1>0, <1>2 DEF CommerceTypeOK, ItemTypeOK, HandlesTyped, CollectTypeOK
<1>8. ItemRunOK(t)'
  <2>1. Current(itemRun[t])' = Current(old)
    BY <1>4, <1>5 DEF Current
  <2>2. Holds(itemRun[t].batch, "order_items", Current(itemRun[t]))'
    BY <1>4, <1>5, <1>6, <2>1 DEF Holds
  <2>3. itemRun'[t].pc \notin {"tmp", "replace", "tmpGone", "replaceGone"}
    BY <1>4, <1>5
  <2> QED BY <1>0, <1>4, <1>5, <1>6, <2>2, <2>3, StaysAtOrder
<1>9. IndexIsBacked' /\ TmpIsBacked' /\ CompletedRunIsWhole'
  BY <1>2, <1>6, FilesStayBacked
<1>10. \A i \in DOMAIN batches' : batches'[i].of \in Resources => i \in DOMAIN batches
  BY <1>6, CommerceAssumption
<1> QED BY <1>4, <1>5, <1>6, <1>7, <1>8, <1>9, <1>10, ItemMove

LEMMA WriteItemPartKeeps ==
  ASSUME CommerceInv, NEW t \in ItemCollectors, Writing(itemRun[t]),
         UNCHANGED <<collectVars, faults, index, tmp, openAs, unreadable, reports, itemRuns, overlapped>>,
         NEW pc \in {"manifest", "fillManifest"}, NEW stage \in Stages, stage # "complete",
         batches' = [batches EXCEPT ![itemRun[t].batch].stage = stage],
         itemRun' = [itemRun EXCEPT ![t].pc = pc]
  PROVE  CommerceInv'
<1> DEFINE old == itemRun[t]
           r == [old EXCEPT !.pc = pc]
<1>0. old.pc # "idle" /\ CommerceTypeOK
  BY DEF Writing, CommerceInv
<1>1. old \in ItemRuns /\ Holds(old.batch, "order_items", Current(old))
  BY <1>0, ItemFacts
<1>2. /\ r \in ItemRuns /\ r.ids = old.ids /\ r.left = old.left /\ r.cache = old.cache
      /\ r.failed = old.failed /\ r.pc = pc /\ r.batch = old.batch
  BY <1>1 DEF ItemRuns
<1>3. itemRun' = [itemRun EXCEPT ![t] = r]
  OBVIOUS
<1> HIDE DEF r
<1>4. /\ itemRun' \in [ItemCollectors -> ItemRuns \union {Idle}] /\ itemRun'[t] = r
      /\ \A u \in ItemCollectors : u # t => itemRun'[u] = itemRun[u]
  BY <1>0, <1>2, <1>3 DEF CommerceTypeOK, ItemTypeOK
<1>5. /\ batches' \in Seq(Batches) /\ Grows /\ DOMAIN batches' = DOMAIN batches
      /\ \A i \in DOMAIN batches : i # old.batch => batches'[i] = batches[i]
      /\ batches'[old.batch].of = "order_items" /\ batches'[old.batch].at = Current(old)
      /\ batches'[old.batch].stage = stage
  <2>1. /\ old.batch \in DOMAIN batches /\ batches[old.batch].stage # "complete"
        /\ batches[old.batch].of = "order_items" /\ batches[old.batch].at = Current(old)
    BY <1>1 DEF Holds
  <2> QED BY <1>0, <2>1, StagedStore
<1>6. /\ index' \in Indexes /\ tmp' \in Indexes \union {NoFile} /\ HandlesTyped' /\ reports' \in SUBSET Reports
      /\ faults' \in 0 .. MaxFaults /\ itemRuns' \in 0 .. MaxItemRuns /\ overlapped' \in BOOLEAN
  BY <1>0 DEF CommerceTypeOK, ItemTypeOK, HandlesTyped, CollectTypeOK
<1>7. ItemRunOK(t)'
  <2>1. Current(itemRun[t])' = Current(old)
    BY <1>2, <1>4 DEF Current
  <2>2. Holds(itemRun[t].batch, "order_items", Current(itemRun[t]))'
    BY <1>1, <1>2, <1>4, <1>5, <2>1 DEF Holds
  <2>3. itemRun'[t].pc \notin {"tmp", "replace", "tmpGone", "replaceGone"}
    BY <1>2, <1>4
  <2> QED BY <1>0, <1>2, <1>4, <1>5, <2>2, <2>3, StaysAtOrder
<1>8. IndexIsBacked' /\ TmpIsBacked' /\ CompletedRunIsWhole'
  BY <1>5, FilesStayBacked
<1> QED BY <1>2, <1>4, <1>5, <1>6, <1>7, <1>8, ItemMove

\* An order is entered in the run's index: its batch completed, or the source
\* has no items for it.
LEMMA EnterKeeps ==
  ASSUME CommerceInv, NEW t \in ItemCollectors, itemRun[t].pc # "idle",
         NEW pc \in {"tmp", "tmpGone"}, NEW e \in Entries,
         itemRun' = [itemRun EXCEPT ![t] =
           [itemRun[t] EXCEPT !.pc = pc, !.processed = @ + 1, !.cache[Current(itemRun[t])] = e]],
         UNCHANGED <<collectVars, faults, index, tmp, openAs, unreadable, reports, itemRuns, overlapped>>,
         batches' \in Seq(Batches), Grows, DOMAIN batches' = DOMAIN batches,
         \A i \in DOMAIN batches : batches'[i] # batches[i] => Writing(itemRun[t]) /\ i = itemRun[t].batch,
         \A o \in Orders : o = Current(itemRun[t]) => Settled(o)'
  PROVE  CommerceInv'
<1> DEFINE old == itemRun[t]
           r == [old EXCEPT !.pc = pc, !.processed = @ + 1, !.cache[Current(old)] = e]
<1>1. old \in ItemRuns /\ CommerceTypeOK
  BY ItemFacts DEF CommerceInv
<1>2. itemRun' = [itemRun EXCEPT ![t] = r]
  OBVIOUS
<1>3. /\ r \in ItemRuns /\ r.pc = pc /\ r.ids = old.ids /\ r.left = old.left /\ r.failed = old.failed
      /\ \A x \in Orders : r.cache[x] # "none" => x = Current(old) \/ old.cache[x] # "none"
  <2> DEFINE o  == Current(old)
             p  == old.processed + 1
             k  == [old.cache EXCEPT ![o] = e]
             q1 == [old EXCEPT !.pc = pc]
             q2 == [q1 EXCEPT !.processed = p]
             q3 == [q2 EXCEPT !.cache = k]
  <2>1. p \in Nat /\ old.cache \in Indexes
    BY <1>1 DEF ItemRuns
  <2>2. k \in Indexes /\ \A x \in Orders : k[x] # "none" => x = o \/ old.cache[x] # "none"
    <3> HIDE DEF old, o
    <3> QED BY <2>1 DEF Indexes
  <2>3. r = q3
    <3>1. old.processed = q1.processed /\ q2.cache = old.cache
      BY <1>1 DEF ItemRuns
    <3> QED BY <3>1
  <2> HIDE DEF old, o, p, k, q1, q2, r
  <2>4. q1 \in ItemRuns /\ q1.pc = pc /\ q1.ids = old.ids /\ q1.left = old.left /\ q1.failed = old.failed
    BY <1>1 DEF ItemRuns, q1
  <2>5. q2 \in ItemRuns /\ q2.pc = pc /\ q2.ids = old.ids /\ q2.left = old.left /\ q2.failed = old.failed
    BY <2>1, <2>4 DEF ItemRuns, q2
  <2>6. /\ q3 \in ItemRuns /\ q3.pc = pc /\ q3.ids = old.ids /\ q3.left = old.left /\ q3.failed = old.failed
        /\ q3.cache = k
    BY <2>2, <2>5 DEF ItemRuns
  <2> HIDE DEF q3
  <2> QED BY <2>2, <2>3, <2>6 DEF o
<1> HIDE DEF r
<1>4. /\ itemRun' \in [ItemCollectors -> ItemRuns \union {Idle}] /\ itemRun'[t] = r
      /\ \A u \in ItemCollectors : u # t => itemRun'[u] = itemRun[u]
  BY <1>1, <1>2, <1>3 DEF CommerceTypeOK, ItemTypeOK
<1>5. /\ index' \in Indexes /\ tmp' \in Indexes \union {NoFile} /\ HandlesTyped' /\ reports' \in SUBSET Reports
      /\ faults' \in 0 .. MaxFaults /\ itemRuns' \in 0 .. MaxItemRuns /\ overlapped' \in BOOLEAN
  BY <1>1 DEF CommerceTypeOK, ItemTypeOK, HandlesTyped, CollectTypeOK
<1>6. ItemRunOK(t)' /\ ~Writing(itemRun'[t])
  <2>1. ~Writing(itemRun'[t])
    BY <1>3, <1>4 DEF Writing
  <2>2. \A o \in Orders : itemRun'[t].cache[o] # "none" => itemRun[t].cache[o] # "none" \/ Settled(o)'
    BY <1>3, <1>4
  <2> QED BY <1>3, <1>4, <2>1, <2>2, StaysAtOrder
<1>7. IndexIsBacked' /\ TmpIsBacked' /\ CompletedRunIsWhole'
  BY FilesStayBacked
<1> QED BY <1>4, <1>5, <1>6, <1>7, ItemMove

LEMMA SourceMissingKeeps ==
  ASSUME CommerceInv, NEW t \in ItemCollectors, SourceMissing(t), UNCHANGED collectVars
  PROVE  CommerceInv'
<1>1. /\ itemRun[t].pc = "next" /\ itemRun[t].pc # "idle" /\ Current(itemRun[t]) \in GoneOrders
      /\ itemRun' = [itemRun EXCEPT ![t] = [itemRun[t] EXCEPT !.pc = "tmpGone", !.processed = @ + 1,
                                                       !.cache[Current(itemRun[t])] = "missing"]]
      /\ UNCHANGED <<batches, faults, index, tmp, openAs, unreadable, reports, itemRuns, overlapped>>
  BY DEF SourceMissing, HasOrder, ItemsAt, ItemsUpdate, FilesUnchanged, IndexFilesUnchanged
<1>2. /\ Grows /\ batches' \in Seq(Batches) /\ DOMAIN batches' = DOMAIN batches
      /\ \A i \in DOMAIN batches : batches'[i] = batches[i]
  BY <1>1, UntouchedStore
<1>3. \A o \in Orders : o = Current(itemRun[t]) => Settled(o)'
  BY <1>1 DEF Settled
<1> QED BY <1>1, <1>2, <1>3, EnterKeeps DEF Entries

LEMMA FillItemManifestKeeps ==
  ASSUME CommerceInv, NEW t \in ItemCollectors, FillItemManifest(t), UNCHANGED collectVars
  PROVE  CommerceInv'
<1> DEFINE old == itemRun[t]
<1>1. /\ old.pc = "fillManifest" /\ old.pc # "idle"
      /\ batches' = [batches EXCEPT ![old.batch].stage = "complete"]
      /\ itemRun' = [itemRun EXCEPT ![t] = [itemRun[t] EXCEPT !.pc = "tmp", !.processed = @ + 1,
                                                       !.cache[Current(itemRun[t])] = "stored"]]
      /\ UNCHANGED <<faults, index, tmp, openAs, unreadable, reports, itemRuns, overlapped>>
  BY DEF FillItemManifest, ItemsAt, ItemsUpdate, FilesUnchanged, IndexFilesUnchanged, ManifestFilled
<1>2. Writing(old) /\ Holds(old.batch, "order_items", Current(old)) /\ CommerceTypeOK
  BY <1>1, ItemFacts DEF Writing, CommerceInv
<1>3. /\ batches' \in Seq(Batches) /\ Grows /\ DOMAIN batches' = DOMAIN batches
      /\ \A i \in DOMAIN batches : i # old.batch => batches'[i] = batches[i]
      /\ batches'[old.batch].of = "order_items" /\ batches'[old.batch].at = Current(old)
      /\ old.batch \in DOMAIN batches' /\ batches'[old.batch].stage = "complete"
  <2>1. /\ old.batch \in DOMAIN batches /\ batches[old.batch].stage # "complete"
        /\ batches[old.batch].of = "order_items" /\ batches[old.batch].at = Current(old)
    BY <1>2 DEF Holds
  <2> QED BY <1>1, <1>2, <2>1, StagedStore DEF Stages
<1>4. \A o \in Orders : o = Current(itemRun[t]) => Settled(o)'
  BY <1>3, CompleteIsStored DEF Settled
<1> HIDE DEF old
<1>5. \A i \in DOMAIN batches : batches'[i] # batches[i] => Writing(itemRun[t]) /\ i = itemRun[t].batch
  BY <1>2, <1>3 DEF old
<1>6. itemRun[t].pc # "idle" /\ "tmp" \in {"tmp", "tmpGone"} /\ "stored" \in Entries
  BY <1>1 DEF old, Entries
<1> QED BY <1>1, <1>3, <1>4, <1>5, <1>6, EnterKeeps

\* The temporary file and the index.
LEMMA OpenTmpKeeps ==
  ASSUME CommerceInv, NEW t \in ItemCollectors, OpenTmp(t), UNCHANGED collectVars
  PROVE  CommerceInv'
<1>1. /\ tmp' = EmptyIndex /\ openAs' = [openAs EXCEPT ![t] = "tmp"] /\ unreadable' = unreadable \union {"tmp"}
      /\ UNCHANGED <<batches, index, itemRun, reports, itemRuns, overlapped, faults>>
  BY DEF OpenTmp
<1>2. CommerceTypeOK
  BY DEF CommerceInv
<1>3. /\ itemRun' \in [ItemCollectors -> ItemRuns \union {Idle}]
      /\ \A u \in ItemCollectors : itemRun'[u] = itemRun[u]
  BY <1>1, <1>2 DEF CommerceTypeOK, ItemTypeOK
<1>4. /\ Grows /\ batches' \in Seq(Batches) /\ DOMAIN batches' = DOMAIN batches
      /\ \A i \in DOMAIN batches : batches'[i] = batches[i]
  BY <1>1, UntouchedStore
<1>5. tmp' \in Indexes \union {NoFile} /\ TmpIsBacked'
  BY <1>1 DEF TmpIsBacked, EmptyIndex, Indexes, Entries
<1>6. HandlesTyped'
  BY <1>1, <1>2 DEF HandlesTyped, CommerceTypeOK, ItemTypeOK, FileNames
<1>7. /\ index' \in Indexes /\ reports' \in SUBSET Reports /\ faults' \in 0 .. MaxFaults
      /\ itemRuns' \in 0 .. MaxItemRuns /\ overlapped' \in BOOLEAN
  BY <1>1, <1>2 DEF CommerceTypeOK, ItemTypeOK, CollectTypeOK
<1>8. ItemRunOK(t)'
  <2>1. ItemRunOK(t)
    BY DEF CommerceInv, ItemInv
  <2>2. Writing(itemRun[t]) => batches'[itemRun[t].batch] = batches[itemRun[t].batch]
    BY <1>1
  <2> QED BY <1>3, <1>4, <2>1, <2>2, ItemRunStays
<1>9. Writing(itemRun'[t]) => Writing(itemRun[t]) /\ itemRun'[t].batch = itemRun[t].batch
  BY <1>3
<1>10. IndexIsBacked' /\ CompletedRunIsWhole'
  BY <1>1, <1>4, FilesStayBacked
<1> QED BY <1>3, <1>4, <1>5, <1>6, <1>7, <1>8, <1>9, <1>10, ItemMove

LEMMA FillTmpKeeps ==
  ASSUME CommerceInv, NEW t \in ItemCollectors, FillTmp(t), UNCHANGED collectVars
  PROVE  CommerceInv'
<1> DEFINE old == itemRun[t]
<1>1. /\ old.pc \in {"tmp", "tmpGone"} /\ old.pc # "idle"
      /\ openAs' = [openAs EXCEPT ![t] = "none"]
      /\ UNCHANGED <<batches, reports, itemRuns, overlapped, faults>>
  BY DEF FillTmp
<1>2. old \in ItemRuns /\ CommerceTypeOK /\ old.cache \in Indexes /\ IndexIsBacked /\ TmpIsBacked
  BY <1>1, ItemFacts DEF CommerceInv, ItemInv
<1>3. PICK pc \in {"replace", "replaceGone"} : itemRun' = [itemRun EXCEPT ![t].pc = pc]
  BY DEF FillTmp, ItemsGoto
<1> DEFINE r == [old EXCEPT !.pc = pc]
<1>4. /\ r \in ItemRuns /\ r.ids = old.ids /\ r.left = old.left /\ r.cache = old.cache
      /\ r.failed = old.failed /\ r.pc = pc
  BY <1>2 DEF ItemRuns
<1>5. itemRun' = [itemRun EXCEPT ![t] = r]
  BY <1>3
<1> HIDE DEF r
<1>6. /\ itemRun' \in [ItemCollectors -> ItemRuns \union {Idle}] /\ itemRun'[t] = r
      /\ \A u \in ItemCollectors : u # t => itemRun'[u] = itemRun[u]
  BY <1>2, <1>4, <1>5 DEF CommerceTypeOK, ItemTypeOK
<1>7. /\ Grows /\ batches' \in Seq(Batches) /\ DOMAIN batches' = DOMAIN batches
      /\ \A i \in DOMAIN batches : batches'[i] = batches[i]
  BY <1>1, UntouchedStore
<1>8. PICK content \in {old.cache, EmptyIndex} :
        /\ tmp' \in {tmp, content} /\ index' \in {index, content}
        /\ unreadable' \subseteq unreadable \union FileNames
  BY DEF FillTmp, Filling
<1>9. content \in Indexes /\ \A o \in Orders : content[o] # "none" => Settled(o)
  <2>1. CASE content = EmptyIndex
    BY <2>1 DEF EmptyIndex, Indexes, Entries
  <2>2. CASE content = old.cache
    BY <1>1, <1>2, <2>2, ItemFacts
  <2> QED BY <1>8, <2>1, <2>2
<1>10. /\ index' \in Indexes /\ tmp' \in Indexes \union {NoFile} /\ reports' \in SUBSET Reports
       /\ faults' \in 0 .. MaxFaults /\ itemRuns' \in 0 .. MaxItemRuns /\ overlapped' \in BOOLEAN
  BY <1>1, <1>2, <1>8, <1>9 DEF CommerceTypeOK, ItemTypeOK, CollectTypeOK
<1>11. HandlesTyped'
  BY <1>1, <1>2, <1>8 DEF HandlesTyped, CommerceTypeOK, ItemTypeOK
<1>12. \A o : Settled(o) => Settled(o)'
  BY <1>7, StoredStays
<1>13. ItemRunOK(t)' /\ ~Writing(itemRun'[t])
  <2>1. \A o \in Orders : o = Current(itemRun[t]) => Settled(o)'
    BY <1>1, <1>12, ItemFacts
  <2>2. ~Writing(itemRun'[t])
    BY <1>4, <1>6 DEF Writing
  <2> QED BY <1>1, <1>4, <1>6, <1>7, <2>1, <2>2, StaysAtOrder
<1>14. TmpIsBacked' /\ IndexIsBacked'
  BY <1>2, <1>8, <1>9, <1>12 DEF TmpIsBacked, IndexIsBacked
<1>15. CompletedRunIsWhole'
  BY <1>1, <1>7, FilesStayBacked
<1> QED BY <1>6, <1>7, <1>10, <1>11, <1>13, <1>14, <1>15, ItemMove

LEMMA ReplaceIndexKeeps ==
  ASSUME CommerceInv, NEW t \in ItemCollectors, ReplaceIndex(t), UNCHANGED collectVars
  PROVE  CommerceInv'
<1> DEFINE old == itemRun[t]
           q == Indexed(old)
<1>1. /\ old.pc \in {"replace", "replaceGone"} /\ old.pc # "idle" /\ tmp # NoFile
      /\ index' = tmp /\ tmp' = NoFile /\ itemRun' = [itemRun EXCEPT ![t] = q]
      /\ UNCHANGED <<batches, reports, itemRuns, overlapped, faults>>
  BY DEF ReplaceIndex, ItemsUpdate
<1>2. old \in ItemRuns /\ CommerceTypeOK /\ TmpIsBacked
  BY <1>1, ItemFacts DEF CommerceInv, ItemInv
<1>3. /\ q \in ItemRuns /\ q.pc = "next" /\ q.ids = old.ids /\ q.left = old.left \ {Current(old)}
      /\ q.cache = old.cache /\ q.failed = old.failed
  BY <1>2, IndexedRun
<1> HIDE DEF q
<1>4. /\ itemRun' \in [ItemCollectors -> ItemRuns \union {Idle}] /\ itemRun'[t] = q
      /\ \A u \in ItemCollectors : u # t => itemRun'[u] = itemRun[u]
  BY <1>1, <1>2, <1>3 DEF CommerceTypeOK, ItemTypeOK
<1>5. /\ Grows /\ batches' \in Seq(Batches) /\ DOMAIN batches' = DOMAIN batches
      /\ \A i \in DOMAIN batches : batches'[i] = batches[i]
  BY <1>1, UntouchedStore
<1>6. /\ index' \in Indexes /\ tmp' \in Indexes \union {NoFile} /\ reports' \in SUBSET Reports
      /\ faults' \in 0 .. MaxFaults /\ itemRuns' \in 0 .. MaxItemRuns /\ overlapped' \in BOOLEAN
  BY <1>1, <1>2 DEF CommerceTypeOK, ItemTypeOK, CollectTypeOK
<1>7. \A o : Settled(o) => Settled(o)'
  BY <1>5, StoredStays
<1>8. ItemRunOK(t)' /\ ~Writing(itemRun'[t])
  <2>1. \A o \in Orders : o = Current(itemRun[t]) => Settled(o)
    BY <1>1, ItemFacts
  <2> QED BY <1>1, <1>3, <1>4, <1>5, <2>1, DoneWithOrder DEF Writing
<1>9. IndexIsBacked' /\ TmpIsBacked'
  BY <1>1, <1>2, <1>7 DEF IndexIsBacked, TmpIsBacked
<1>10. CompletedRunIsWhole'
  BY <1>1, <1>5, FilesStayBacked
<1>11. HandlesTyped'
  <2>1. /\ openAs' = [u \in ItemCollectors |-> NameAfter(openAs[u])] /\ unreadable' \in {{"index"}, {}}
        /\ openAs \in [ItemCollectors -> FileNames \union {"none", "gone"}]
    BY <1>2 DEF ReplaceIndex, CommerceTypeOK, ItemTypeOK
  <2>2. \A u \in ItemCollectors : NameAfter(openAs[u]) \in FileNames \union {"none", "gone"}
    BY <2>1 DEF FileNames, NameAfter
  <2> QED BY <2>1, <2>2 DEF HandlesTyped, FileNames
<1> QED BY <1>4, <1>5, <1>6, <1>8, <1>9, <1>10, <1>11, ItemMove

\* An exception passes the order as failed, or ends the run.
LEMMA RaiseKeeps ==
  ASSUME CommerceInv, NEW t \in ItemCollectors, itemRun[t].pc # "idle", ItemsRaise(t),
         UNCHANGED collectVars, faults' \in 0 .. MaxFaults
  PROVE  CommerceInv'
<1>1. /\ UNCHANGED <<batches, index, tmp, reports, itemRuns, overlapped>> /\ HandlesTyped'
  BY DEF ItemsRaise, CommerceInv, CommerceTypeOK, ItemTypeOK, HandlesTyped
<1>2. CASE itemRun' = [itemRun EXCEPT ![t] = Idle]
  <2>1. reports' \in SUBSET Reports
    BY <1>1 DEF CommerceInv, CommerceTypeOK, ItemTypeOK
  <2> QED BY <1>1, <1>2, <2>1, ItemStopKeeps
<1>3. CASE itemRun' = [itemRun EXCEPT ![t] = Passed(itemRun[t], TRUE)]
  BY <1>1, <1>3, OrderPassedKeeps
<1> QED BY <1>2, <1>3 DEF ItemsRaise, ItemsUpdate

LEMMA ItemsRateLimitedKeeps ==
  ASSUME CommerceInv, NEW t \in ItemCollectors, ItemsRateLimited(t), UNCHANGED collectVars
  PROVE  CommerceInv'
<1> DEFINE old == itemRun[t]
           n == old.tries + 1
           r == [old EXCEPT !.tries = n]
<1>1. /\ old.pc = "next" /\ old.pc # "idle"
      /\ UNCHANGED <<batches, faults, index, tmp, openAs, unreadable, reports, itemRuns, overlapped>>
  BY DEF ItemsRateLimited, HasOrder, ItemsAt, FilesUnchanged, IndexFilesUnchanged
<1>2. old \in ItemRuns /\ CommerceTypeOK /\ faults' \in 0 .. MaxFaults
  BY <1>1, ItemFacts DEF CommerceInv, CommerceTypeOK, CollectTypeOK
<1>3. CASE itemRun' = [itemRun EXCEPT ![t] = Passed(old, TRUE)]
  BY <1>1, <1>2, <1>3, HandlesStayTyped, OrderPassedKeeps
<1>4. CASE itemRun' = [itemRun EXCEPT ![t] = r]
  <2>1. n \in Nat
    BY <1>2 DEF ItemRuns
  <2>2. /\ r \in ItemRuns /\ r.ids = old.ids /\ r.left = old.left /\ r.cache = old.cache
        /\ r.failed = old.failed /\ r.pc = "next"
    <3> HIDE DEF n
    <3> QED BY <1>1, <1>2, <2>1 DEF ItemRuns
  <2> HIDE DEF r
  <2>3. /\ itemRun' \in [ItemCollectors -> ItemRuns \union {Idle}] /\ itemRun'[t] = r
        /\ \A u \in ItemCollectors : u # t => itemRun'[u] = itemRun[u]
    BY <1>2, <1>4, <2>2 DEF CommerceTypeOK, ItemTypeOK
  <2>4. /\ Grows /\ batches' \in Seq(Batches) /\ DOMAIN batches' = DOMAIN batches
        /\ \A i \in DOMAIN batches : batches'[i] = batches[i]
    BY <1>1, UntouchedStore
  <2>5. /\ index' \in Indexes /\ tmp' \in Indexes \union {NoFile} /\ HandlesTyped' /\ reports' \in SUBSET Reports
        /\ itemRuns' \in 0 .. MaxItemRuns /\ overlapped' \in BOOLEAN
    BY <1>1, <1>2 DEF CommerceTypeOK, ItemTypeOK, HandlesTyped
  <2>6. ItemRunOK(t)' /\ ~Writing(itemRun'[t])
    <3>1. ~Writing(itemRun'[t]) /\ itemRun'[t].pc = "next"
      BY <2>2, <2>3 DEF Writing
    <3> QED BY <1>1, <2>2, <2>3, <2>4, <3>1, StaysAtOrder
  <2>7. IndexIsBacked' /\ TmpIsBacked' /\ CompletedRunIsWhole'
    BY <1>1, <2>4, FilesStayBacked
  <2> QED BY <1>2, <2>3, <2>4, <2>5, <2>6, <2>7, ItemMove
<1> QED BY <1>3, <1>4 DEF ItemsRateLimited, ItemsUpdate

LEMMA ItemStepKeeps ==
  ASSUME CommerceInv, NEW t \in ItemCollectors, ItemStep(t), UNCHANGED collectVars
  PROVE  CommerceInv'
<1>0. faults \in 0 .. MaxFaults /\ MaxFaults \in Nat /\ CommerceTypeOK
  BY CollectionAssumption DEF CommerceInv, CommerceTypeOK, CollectTypeOK
<1>1. CASE BeginItems(t)
  BY <1>1, BeginItemsKeeps
<1>2. CASE SkipIndexed(t)
  <2>1. /\ itemRun[t].pc = "next" /\ itemRun[t].pc # "idle"
        /\ itemRun' = [itemRun EXCEPT ![t] = Passed(itemRun[t], FALSE)]
        /\ UNCHANGED <<batches, faults, index, tmp, openAs, unreadable, reports, itemRuns, overlapped>>
    BY <1>2 DEF SkipIndexed, HasOrder, ItemsAt, ItemsUpdate, FilesUnchanged, IndexFilesUnchanged
  <2>2. \A o \in Orders : o = Current(itemRun[t]) => Settled(o)
    BY <1>2, <2>1, ItemFacts DEF SkipIndexed, Listed
  <2> QED BY <1>0, <2>1, <2>2, HandlesStayTyped, OrderPassedKeeps
<1>3. CASE ReadItems(t)
  BY <1>3, ReadItemsKeeps
<1>4. CASE SourceMissing(t)
  BY <1>4, SourceMissingKeeps
<1>5. CASE ItemsRateLimited(t)
  BY <1>5, ItemsRateLimitedKeeps
<1>6. CASE FillItems(t)
  BY <1>6, WriteItemPartKeeps DEF FillItems, Filled, ItemsGoto, ItemsAt, FilesUnchanged, IndexFilesUnchanged, Writing, Stages
<1>7. CASE OpenItemManifest(t)
  BY <1>7, WriteItemPartKeeps
     DEF OpenItemManifest, ManifestOpened, ItemsGoto, ItemsAt, FilesUnchanged, IndexFilesUnchanged, Writing, Stages
<1>8. CASE FillItemManifest(t)
  BY <1>8, FillItemManifestKeeps
<1>9. CASE OpenTmp(t) \/ FillTmp(t)
  BY <1>9, OpenTmpKeeps, FillTmpKeeps
<1>10. CASE ReplaceIndex(t)
  BY <1>10, ReplaceIndexKeeps
<1>11. CASE ReplaceFails(t) \/ ItemsFail(t)
  <2>1. itemRun[t].pc # "idle" /\ ItemsRaise(t)
    BY <1>11 DEF ReplaceFails, ItemsFail, ItemsAt, HasOrder
  <2>2. faults' \in 0 .. MaxFaults
    BY <1>0, <1>11 DEF ReplaceFails, ItemsFail
  <2> QED BY <2>1, <2>2, RaiseKeeps
<1>12. CASE FinishItems(t)
  <2> DEFINE r == itemRun[t]
             f == [ids |-> r.ids, processed |-> r.processed, failed |-> r.failed]
  <2>1. /\ r.pc = "next" /\ r.pc # "idle" /\ r.left = {} /\ reports' = reports \union {f}
        /\ itemRun' = [itemRun EXCEPT ![t] = Idle]
        /\ UNCHANGED <<batches, index, tmp, openAs, unreadable, itemRuns, overlapped, faults>>
    BY <1>12 DEF FinishItems, ItemsAt, ItemsUpdate, IndexFilesUnchanged
  <2>2. f \in Reports
    BY <2>1, ItemFacts DEF ItemRuns, Reports
  <2>3. reports' \in SUBSET Reports
    <3>1. reports \in SUBSET Reports
      BY <1>0 DEF CommerceTypeOK, ItemTypeOK
    <3> QED BY <2>1, <2>2, <3>1
  <2>4. Completed(f) => \A o \in f.ids : Settled(o)
    <3>1. r.failed = 0 => \A o \in r.ids : Settled(o)
      BY <2>1, ItemFacts
    <3> QED BY <3>1 DEF Completed
  <2> HIDE DEF f, r
  <2>5. \A q \in reports' : q \in reports \/ (Completed(q) => \A o \in q.ids : Settled(o))
    BY <2>1, <2>4
  <2> QED BY <1>0, <2>1, <2>3, <2>5, HandlesStayTyped, ItemStopKeeps
<1> QED BY <1>1, <1>2, <1>3, <1>4, <1>5, <1>6, <1>7, <1>8, <1>9, <1>10, <1>11, <1>12 DEF ItemStep

-----------------------------------------------------------------------------
(* The collection                                                          *)

\* A crash takes the runs and leaves the files, which need nobody.
LEMMA CrashKeeps ==
  ASSUME CommerceInv, CommerceCrash
  PROVE  CommerceInv'
<1>0. CommerceTypeOK /\ PageInv /\ ItemInv /\ MaxFaults \in Nat
  BY CollectionAssumption DEF CommerceInv
<1>1. /\ UNCHANGED <<batches, progress, again, index, tmp, unreadable, reports, itemRuns, overlapped>>
      /\ run' = [c \in Collectors |-> Idle] /\ itemRun' = [t \in ItemCollectors |-> Idle]
      /\ openAs' = [t \in ItemCollectors |-> "none"]
  BY DEF CommerceCrash
<1>2. \A c \in Collectors : PageRunOK(c)' /\ ~Writing(run'[c])
  BY <1>1 DEF PageRunOK, Writing, Idle
<1>3. \A t \in ItemCollectors : ItemRunOK(t)' /\ ~Writing(itemRun'[t])
  BY <1>1 DEF ItemRunOK, Writing, Idle
<1>4. CommerceTypeOK'
  <2>1. faults' \in 0 .. MaxFaults
    BY <1>0 DEF CommerceCrash, CommerceTypeOK, CollectTypeOK
  <2> QED BY <1>0, <1>1, <2>1 DEF CommerceTypeOK, CollectTypeOK, ItemTypeOK
<1>5. PlacedInv' /\ ProgressIsBacked' /\ IndexIsBacked' /\ TmpIsBacked' /\ CompletedRunIsWhole'
  <2>1. Grows /\ ProgressKept
    BY <1>1, UntouchedStore DEF ProgressKept
  <2>2. PlacedInv' /\ ProgressIsBacked'
    BY <1>1, <2>1, PlacedStays, ProgressStaysBacked
  <2> QED BY <1>1, <2>1, <2>2, FilesStayBacked
<1>6. PagesApart' /\ ItemsApart'
  BY <1>2, <1>3 DEF PagesApart, ItemsApart, Writing
<1> QED BY <1>2, <1>3, <1>4, <1>5, <1>6 DEF CommerceInv, PageInv, ItemInv

LEMMA RestKeeps ==
  ASSUME CommerceInv, UNCHANGED commerceVars
  PROVE  CommerceInv'
<1>1. /\ UNCHANGED <<batches, progress, run, again, index, tmp, openAs, unreadable, itemRun, reports, itemRuns, overlapped, faults>>
      /\ CommerceTypeOK /\ PageInv /\ ItemInv
  BY DEF commerceVars, collectVars, itemVars, CommerceInv
<1>2. Grows /\ ProgressKept
  BY <1>1, UntouchedStore DEF ProgressKept
<1>3. CommerceTypeOK'
  BY <1>1 DEF CommerceTypeOK, CollectTypeOK, ItemTypeOK
<1>4. PlacedInv' /\ ProgressIsBacked' /\ IndexIsBacked' /\ TmpIsBacked' /\ CompletedRunIsWhole'
  <2>1. PlacedInv' /\ ProgressIsBacked'
    BY <1>1, <1>2, PlacedStays, ProgressStaysBacked
  <2> QED BY <1>1, <1>2, <2>1, FilesStayBacked
<1>5. PagesApart' /\ ItemsApart'
  BY <1>1 DEF PageInv, ItemInv, PagesApart, ItemsApart, Writing
<1>6. \A c \in Collectors : PageRunOK(c)'
  BY <1>1, <1>2, PageRunStays DEF PageInv, ProgressKept
<1>7. \A t \in ItemCollectors : ItemRunOK(t)'
  BY <1>1, <1>2, ItemRunStays DEF ItemInv
<1> QED BY <1>3, <1>4, <1>5, <1>6, <1>7 DEF CommerceInv, PageInv, ItemInv

LEMMA CommerceInitially == CommerceInit => CommerceInv
<1> SUFFICES ASSUME CommerceInit PROVE CommerceInv
  OBVIOUS
<1>1. /\ batches = <<>> /\ progress = <<>> /\ index = EmptyIndex /\ tmp = NoFile /\ reports = {}
      /\ openAs = [t \in ItemCollectors |-> "none"] /\ unreadable = {}
      /\ run = [c \in Collectors |-> Idle] /\ itemRun = [t \in ItemCollectors |-> Idle]
      /\ faults = 0 /\ again = FALSE /\ itemRuns = 0 /\ overlapped = FALSE
  BY DEF CommerceInit, CollectInit, ItemInit
<1>2. DOMAIN batches = {} /\ DOMAIN progress = {}
  BY <1>1
<1>3. CommerceTypeOK
  <2>1. faults \in 0 .. MaxFaults /\ itemRuns \in 0 .. MaxItemRuns
    BY <1>1, CollectionAssumption, ItemAssumption
  <2>2. batches \in Seq(PageBatches \union ItemBatches) /\ progress \in Seq(ProgressFiles)
    BY <1>1
  <2>3. index \in Indexes
    BY <1>1 DEF EmptyIndex, Indexes, Entries
  <2> QED BY <1>1, <2>1, <2>2, <2>3 DEF CommerceTypeOK, CollectTypeOK, ItemTypeOK
<1>4. \A c \in Collectors : PageRunOK(c) /\ ~Writing(run[c])
  BY <1>1 DEF PageRunOK, Writing, Idle
<1>5. \A t \in ItemCollectors : ItemRunOK(t) /\ ~Writing(itemRun[t])
  BY <1>1 DEF ItemRunOK, Writing, Idle
<1>6. PlacedInv /\ PagesApart /\ ItemsApart
  BY <1>2, <1>4, <1>5 DEF PlacedInv, PagesApart, ItemsApart
<1>7. ProgressIsBacked
  BY <1>2 DEF ProgressIsBacked
<1>8. IndexIsBacked /\ TmpIsBacked /\ CompletedRunIsWhole
  BY <1>1 DEF IndexIsBacked, TmpIsBacked, CompletedRunIsWhole, EmptyIndex
<1> QED BY <1>3, <1>4, <1>5, <1>6, <1>7, <1>8 DEF CommerceInv, PageInv, ItemInv

LEMMA CommerceStep == CommerceInv /\ [CommerceNext]_commerceVars => CommerceInv'
BY CollectStepKeeps, ItemStepKeeps, CrashKeeps, RestKeeps DEF CommerceNext

\* The inductive invariant of the collection holds in every reachable state.
THEOREM CommerceInvariance == CommerceSpec => []CommerceInv
BY CommerceInitially, CommerceStep, PTL DEF CommerceSpec

\* Batches, progress files, index, runs and reports are typed in every state.
THEOREM CommerceTypeCorrect == CommerceSpec => []CommerceTypeOK
<1>1. CommerceInv => CommerceTypeOK
  BY DEF CommerceInv
<1> QED BY <1>1, CommerceInvariance, PTL

\* What a progress file says is done is in the store, for any range, any number
\* of runs at once and any failures and crashes.
THEOREM ProgressBacked == CommerceSpec => []ProgressIsBacked
<1>1. CommerceInv => ProgressIsBacked
  BY DEF CommerceInv, PageInv
<1> QED BY <1>1, CommerceInvariance, PTL

\* The order-item index lists nothing that is not settled, for any number of
\* runs that replace it with copies of different ages, and a run that reports
\* itself completed has the items of every order it read, those it skipped
\* included.
THEOREM ItemsWhole == CommerceSpec => []ItemsAreWhole
<1>1. CommerceInv => ItemsAreWhole
  BY DEF CommerceInv, ItemInv, ItemsAreWhole
<1> QED BY <1>1, CommerceInvariance, PTL

-----------------------------------------------------------------------------
(* Clean collections: the invariant                                        *)

\* Nothing is left over: a batch that is not complete is being written.
NothingLeftOver ==
  \A i \in DOMAIN batches : batches[i].stage # "complete" =>
    \/ \E c \in Collectors : Writing(run[c]) /\ run[c].batch = i
    \/ \E t \in ItemCollectors : Writing(itemRun[t]) /\ itemRun[t].batch = i

\* One order run at a time, each from where no other began: together they go
\* through the pages once, and the pages before their frontier are stored and
\* no others.  A progress file names the frontier, a position that a later run
\* began from, or is that of the run under way.
OrderFiles  == {i \in DOMAIN progress : progress[i].of = "orders"}
Started(x)  == \E i \in OrderFiles : progress[i].from = x
Ordering(c) == run[c].pc # "idle" /\ run[c].of = "orders"

OneOrderRun == \A c, d \in Collectors : Ordering(c) /\ Ordering(d) => c = d
PagesOnce ==
  \A i, j \in OfResource(batches, "orders") : batches[i].at = batches[j].at => i = j

OrderRunAt(c, x) ==
  Ordering(c) =>
    /\ run[c].at = x
    /\ progress[run[c].id].status = "RUNNING"
    /\ run[c].pc # "save" => progress[run[c].id].next = x

FileLeads(i, x) ==
  \/ Started(progress[i].next)
  \/ progress[i].next = x /\ \A c \in Collectors : ~Ordering(c)
  \/ \E c \in Collectors : Ordering(c) /\ run[c].id = i

Frontier(x) ==
  /\ \A y \in Pages("orders") : Stored(y, "orders") <=> Before(y, x)
  /\ Started(First) \/ (x = First /\ \A c \in Collectors : ~Ordering(c))
  /\ \A c \in Collectors : OrderRunAt(c, x)
  /\ \A i \in OrderFiles : FileLeads(i, x)

OnePass ==
  /\ OneOrderRun
  /\ \E x \in Places("orders") : Frontier(x)
  /\ ~Started(End("orders"))
  /\ \A i \in OrderFiles : progress[i].status = "COMPLETED" => progress[i].next = End("orders")

OrdersInOnePass == PagesOnce /\ OnePass

\* One order-item run at a time: its copy is the index, until it has one more
\* order than it, and every item batch is listed or being written.
OneItemRun ==
  \A t, u \in ItemCollectors : itemRun[t].pc # "idle" /\ itemRun[u].pc # "idle" => t = u
ItemsOnce ==
  \A i, j \in OfResource(batches, "order_items") : batches[i].at = batches[j].at => i = j
ItemIsListed(i) ==
  \/ index[batches[i].at] # "none"
  \/ \E t \in ItemCollectors :
       /\ itemRun[t].pc # "idle"
       /\ \/ itemRun[t].cache[batches[i].at] # "none"
          \/ Writing(itemRun[t]) /\ itemRun[t].batch = i
CopyIsCurrent(t) ==
  /\ openAs[t] = "none" \/ (openAs[t] = "tmp" /\ itemRun[t].pc \in {"tmp", "tmpGone"})
  /\ itemRun[t].pc # "idle" =>
    /\ itemRun[t].left \subseteq OrderIds
    /\ itemRun[t].pc = "next" \/ Writing(itemRun[t]) => itemRun[t].cache = index
    /\ \A o \in Orders : index[o] # "none" => itemRun[t].cache[o] # "none"
    /\ itemRun[t].pc \in {"replace", "replaceGone"} => tmp = itemRun[t].cache

ItemsInOnePass ==
  /\ OneItemRun /\ ItemsOnce
  /\ \A i \in OfResource(batches, "order_items") : batches[i].at \in OrderIds /\ ItemIsListed(i)
  /\ \A t \in ItemCollectors : CopyIsCurrent(t)

CleanInv ==
  /\ faults = 0 => NothingLeftOver
  /\ faults = 0 /\ ~again => OrdersInOnePass
  /\ faults = 0 /\ ~overlapped => ItemsInOnePass

-----------------------------------------------------------------------------
(* What the steps of a page run do                                         *)

PageBegun(c) ==
  /\ run[c].pc = "idle" /\ run'[c].pc = "page" /\ batches' = batches
  /\ Len(progress) + 1 \notin DOMAIN progress
  /\ DOMAIN progress' = DOMAIN progress \union {Len(progress) + 1}
  /\ \A i \in DOMAIN progress : progress'[i] = progress[i]
  /\ \E res \in Resources : \E from \in Places(res) :
       /\ run'[c].of = res /\ run'[c].id = Len(progress) + 1 /\ run'[c].at = from
       /\ progress'[Len(progress) + 1] = [of |-> res, from |-> from, next |-> from, status |-> "RUNNING"]
       /\ from # End(res)
       /\ from = First \/ \E i \in DOMAIN progress : progress[i].of = res /\ progress[i].next = from
       /\ ~again' => /\ \A i \in DOMAIN progress : progress[i].of = res => progress[i].from # from
                     /\ \A d \in Collectors : run[d].pc # "idle" => run[d].of # res

\* The run opens a batch of its page.
PageRead(c) ==
  /\ run[c].pc = "page" /\ run'[c].pc = "fill"
  /\ run'[c].of = run[c].of /\ run'[c].at = run[c].at /\ run'[c].id = run[c].id
  /\ run'[c].batch \notin DOMAIN batches /\ DOMAIN batches' = DOMAIN batches \union {run'[c].batch}
  /\ \A i \in DOMAIN batches : batches'[i] = batches[i]
  /\ batches'[run'[c].batch] = [of |-> run[c].of, at |-> run[c].at, stage |-> "sanitizing"]
  /\ run[c].at \in Pages(run[c].of)
  /\ progress' = progress

\* The run writes its batch, which may complete it.
PageWrote(c) ==
  /\ Writing(run[c]) /\ run'[c].of = run[c].of /\ run'[c].id = run[c].id
  /\ run[c].batch \in DOMAIN batches
  /\ DOMAIN batches' = DOMAIN batches
  /\ \A i \in DOMAIN batches : i # run[c].batch => batches'[i] = batches[i]
  /\ batches[run[c].batch].of = run[c].of /\ batches[run[c].batch].at = run[c].at
  /\ batches[run[c].batch].stage # "complete"
  /\ batches'[run[c].batch].of = run[c].of /\ batches'[run[c].batch].at = run[c].at
  /\ \/ /\ Writing(run'[c]) /\ run'[c].at = run[c].at /\ run'[c].batch = run[c].batch
        /\ batches'[run[c].batch].stage # "complete"
     \/ /\ run'[c].pc = "save" /\ run'[c].at = Following(run[c].of, run[c].at)
        /\ batches'[run[c].batch].stage = "complete"
  /\ progress' = progress

PageSaved(c) ==
  /\ run[c].pc = "save" /\ run'[c].pc = "page"
  /\ run'[c].of = run[c].of /\ run'[c].at = run[c].at /\ run'[c].id = run[c].id
  /\ batches' = batches
  /\ DOMAIN progress' = DOMAIN progress
  /\ \A i \in DOMAIN progress : i # run[c].id => progress'[i] = progress[i]
  /\ progress'[run[c].id].of = progress[run[c].id].of /\ progress'[run[c].id].from = progress[run[c].id].from
  /\ progress'[run[c].id].status = progress[run[c].id].status
  /\ progress'[run[c].id].next = run[c].at

PageWaited(c) ==
  /\ run[c].pc = "page" /\ run'[c].pc = "page"
  /\ run'[c].of = run[c].of /\ run'[c].at = run[c].at /\ run'[c].id = run[c].id
  /\ batches' = batches /\ progress' = progress

PageStopped(c) ==
  /\ run[c].pc = "page" /\ run'[c].pc = "idle" /\ batches' = batches
  /\ DOMAIN progress' = DOMAIN progress
  /\ \A i \in DOMAIN progress : i # run[c].id => progress'[i] = progress[i]
  /\ progress'[run[c].id].of = progress[run[c].id].of /\ progress'[run[c].id].from = progress[run[c].id].from
  /\ progress'[run[c].id].next = progress[run[c].id].next
  /\ progress'[run[c].id].status = "COMPLETED" => run[c].at = End(run[c].of)

PageMoved(c) ==
  \/ PageBegun(c) \/ PageRead(c) \/ PageWrote(c) \/ PageSaved(c) \/ PageWaited(c) \/ PageStopped(c)

\* Without a fault a page run does one of these.
LEMMA PageSteps ==
  ASSUME CommerceInv, NEW c \in Collectors, CollectStep(c), faults' = 0
  PROVE  PageMoved(c) /\ \A d \in Collectors : d # c => run'[d] = run[d]
<1>0. /\ run \in [Collectors -> Runs \union {Idle}] /\ faults \in Nat /\ CommerceTypeOK
      /\ \A i \in DOMAIN progress : progress[i].next \in Places(progress[i].of)
  BY DEF CommerceInv, CommerceTypeOK, CollectTypeOK, PageInv, PlacedInv
<1>1. CASE BeginOrders(c) \/ BeginRefunds(c)
  <2>1. PICK res \in Resources : \E from \in {First} \union ResumePoints(res) : Begin(c, res, from)
    BY <1>1, CommerceAssumption DEF BeginOrders, BeginRefunds
  <2>2. PICK from \in {First} \union ResumePoints(res) : Begin(c, res, from)
    BY <2>1
  <2>3. First # End(res) /\ First \in Places(res)
    BY PagesOf DEF First, End, Places
  <2>4. /\ from # End(res) /\ from \in Places(res)
        /\ from = First \/ \E i \in DOMAIN progress : progress[i].of = res /\ progress[i].next = from
    BY <1>0, <2>3 DEF ResumePoints
  <2> DEFINE f == [of |-> res, from |-> from, next |-> from, status |-> "RUNNING"]
             r == [pc |-> "page", of |-> res, id |-> Len(progress) + 1, at |-> from,
                   count |-> 0, tries |-> 0, batch |-> 0]
  <2>5. /\ progress' = Append(progress, f) /\ run' = [run EXCEPT ![c] = r] /\ batches' = batches
        /\ run[c].pc = "idle"
        /\ again' = (\/ again
                     \/ \E i \in DOMAIN progress : progress[i].of = res /\ progress[i].from = from
                     \/ \E d \in Collectors : ~At(d, "idle") /\ run[d].of = res)
    BY <2>2 DEF Begin, Update, At
  <2>6. r.pc = "page" /\ r.of = res /\ r.id = Len(progress) + 1 /\ r.at = from
    OBVIOUS
  <2>7. f \in ProgressFiles
    BY <2>4, PagesOf DEF ProgressFiles, Statuses
  <2> HIDE DEF f, r
  <2>8. /\ DOMAIN progress' = DOMAIN progress \union {Len(progress) + 1}
        /\ Len(progress) + 1 \notin DOMAIN progress
        /\ progress'[Len(progress) + 1] = f /\ \A i \in DOMAIN progress : progress'[i] = progress[i]
    <3>1. /\ progress' \in Seq(ProgressFiles) /\ Len(progress') = Len(progress) + 1
          /\ progress'[Len(progress) + 1] = f /\ \A i \in 1 .. Len(progress) : progress'[i] = progress[i]
      BY <2>5, <2>7, ProgressTyped, AppendProperties
    <3>2. DOMAIN progress' = 1 .. Len(progress) + 1
      BY <3>1, LenProperties
    <3> QED BY <3>1, <3>2, ProgressTyped
  <2>9. run'[c] = r /\ \A d \in Collectors : d # c => run'[d] = run[d]
    BY <1>0, <2>5
  <2>10. ~again' => /\ \A i \in DOMAIN progress : progress[i].of = res => progress[i].from # from
                    /\ \A d \in Collectors : run[d].pc # "idle" => run[d].of # res
    BY <2>5 DEF At
  <2>11. PageBegun(c)
    BY <2>4, <2>5, <2>6, <2>8, <2>9, <2>10 DEF PageBegun, f
  <2> QED BY <2>9, <2>11 DEF PageMoved
<1>2. CASE ReadPage(c)
  <2>1. run[c].pc = "page" /\ run[c].at # End(run[c].of)
    BY <1>2 DEF ReadPage, At, AtEnd
  <2>2. /\ run[c] \in Runs /\ run[c].of \in Resources /\ run[c].at \in Pages(run[c].of)
        /\ run[c].at \in Positions
    BY <2>1, RunFacts DEF Places
  <2> DEFINE n == Len(batches) + 1
             r == [run[c] EXCEPT !.pc = "fill", !.batch = n]
  <2>3. /\ batches' = Opened(batches, run[c].of, run[c].at) /\ run' = [run EXCEPT ![c] = r]
        /\ progress' = progress
    BY <1>2 DEF ReadPage, Update
  <2>4. r.pc = "fill" /\ r.of = run[c].of /\ r.at = run[c].at /\ r.id = run[c].id /\ r.batch = n
    BY <2>2 DEF Runs
  <2> HIDE DEF n, r
  <2>5. /\ n \notin DOMAIN batches
        /\ DOMAIN batches' = DOMAIN batches \union {n}
        /\ \A i \in DOMAIN batches : batches'[i] = batches[i]
        /\ batches'[n] = [of |-> run[c].of, at |-> run[c].at, stage |-> "sanitizing"]
    <3>1. [of |-> run[c].of, at |-> run[c].at, stage |-> "sanitizing"] \in Batches
      BY <2>2 DEF Batches, PageBatches, Stages
    <3> QED BY <1>0, <2>3, <3>1, OpenedStore DEF n
  <2>6. run'[c] = r /\ \A d \in Collectors : d # c => run'[d] = run[d]
    BY <1>0, <2>3
  <2>7. PageRead(c)
    BY <2>1, <2>2, <2>3, <2>4, <2>5, <2>6 DEF PageRead
  <2> QED BY <2>6, <2>7 DEF PageMoved
<1>3. CASE RateLimited(c)
  <2>1. run[c].pc = "page"
    BY <1>3 DEF RateLimited, At
  <2>2. run[c] \in Runs /\ run[c].id \in DOMAIN progress
    BY <2>1, RunFacts
  <2>3. CASE MayRetry(c)
    <3> DEFINE r == [run[c] EXCEPT !.tries = @ + 1]
    <3>1. run' = [run EXCEPT ![c] = r] /\ progress' = progress /\ batches' = batches
      BY <1>3, <2>3 DEF RateLimited, Update
    <3>2. r.pc = "page" /\ r.of = run[c].of /\ r.at = run[c].at /\ r.id = run[c].id
      BY <2>1, <2>2 DEF Runs
    <3> HIDE DEF r
    <3>3. run'[c] = r /\ \A d \in Collectors : d # c => run'[d] = run[d]
      BY <1>0, <3>1
    <3>4. PageWaited(c)
      BY <2>1, <3>1, <3>2, <3>3 DEF PageWaited
    <3> QED BY <3>3, <3>4 DEF PageMoved
  <2>4. CASE ~MayRetry(c)
    <3>1. /\ progress' = [progress EXCEPT ![run[c].id].status = "FAILED_RATE_LIMIT"]
          /\ run' = [run EXCEPT ![c] = Idle] /\ batches' = batches
      BY <1>3, <2>4 DEF RateLimited, Update
    <3>2. run'[c].pc = "idle" /\ \A d \in Collectors : d # c => run'[d] = run[d]
      BY <1>0, <3>1 DEF Idle
    <3>3. PageStopped(c)
      BY <2>1, <2>2, <3>1, <3>2, ProgressTyped DEF PageStopped, ProgressFiles
    <3> QED BY <3>2, <3>3 DEF PageMoved
  <2> QED BY <2>3, <2>4
<1>4. CASE FillPage(c) \/ OpenManifest(c) \/ FillManifest(c)
  <2>1. Writing(run[c]) /\ run[c].pc # "idle"
    BY <1>4 DEF FillPage, OpenManifest, FillManifest, At, Writing
  <2>2. /\ run[c] \in Runs /\ run[c].batch \in DOMAIN batches /\ batches[run[c].batch].of = run[c].of
        /\ batches[run[c].batch].at = run[c].at /\ batches[run[c].batch].stage # "complete"
    BY <2>1, RunFacts DEF Holds
  <2>3. progress' = progress
    BY <1>4 DEF FillPage, OpenManifest, FillManifest
  <2>4. CASE FillPage(c) \/ OpenManifest(c)
    <3>1. PICK pc \in {"manifest", "fillManifest"} : run' = [run EXCEPT ![c].pc = pc]
      BY <2>4 DEF FillPage, OpenManifest, Goto
    <3>2. PICK stage \in Stages \ {"complete"} : batches' = [batches EXCEPT ![run[c].batch].stage = stage]
      BY <2>4 DEF FillPage, OpenManifest, Filled, ManifestOpened, Stages
    <3>3. /\ \A d \in Collectors : d # c => run'[d] = run[d]
          /\ run'[c].pc = pc /\ run'[c].of = run[c].of /\ run'[c].id = run[c].id /\ run'[c].at = run[c].at
          /\ run'[c].batch = run[c].batch
      BY <1>0, <2>2, <3>1 DEF Runs
    <3>4. /\ DOMAIN batches' = DOMAIN batches
          /\ \A i \in DOMAIN batches : i # run[c].batch => batches'[i] = batches[i]
          /\ batches'[run[c].batch].of = run[c].of /\ batches'[run[c].batch].at = run[c].at
          /\ batches'[run[c].batch].stage = stage
      BY <1>0, <2>2, <3>2, StagedStore
    <3>5. PageWrote(c)
      BY <2>1, <2>2, <2>3, <3>3, <3>4 DEF PageWrote, Writing
    <3> QED BY <3>3, <3>5 DEF PageMoved
  <2>5. CASE FillManifest(c)
    <3> DEFINE y == Following(run[c].of, run[c].at)
               n == run[c].count + Cardinality(RecordsOn[run[c].of][run[c].at.w][run[c].at.p])
               r == [run[c] EXCEPT !.pc = "save", !.at = y, !.tries = 0, !.batch = 0, !.count = n]
    <3>1. run' = [run EXCEPT ![c] = r] /\ batches' = [batches EXCEPT ![run[c].batch].stage = "complete"]
      BY <2>2, <2>5 DEF FillManifest, Update, ManifestFilled
    <3> HIDE DEF y, n
    <3>2. r.pc = "save" /\ r.of = run[c].of /\ r.id = run[c].id /\ r.at = y
      BY <2>2 DEF Runs
    <3> HIDE DEF r
    <3>3. run'[c] = r /\ \A d \in Collectors : d # c => run'[d] = run[d]
      BY <1>0, <3>1
    <3>4. /\ DOMAIN batches' = DOMAIN batches
          /\ \A i \in DOMAIN batches : i # run[c].batch => batches'[i] = batches[i]
          /\ batches'[run[c].batch].of = run[c].of /\ batches'[run[c].batch].at = run[c].at
          /\ batches'[run[c].batch].stage = "complete"
      BY <1>0, <2>2, <3>1, StagedStore DEF Stages
    <3>5. PageWrote(c)
      BY <2>1, <2>2, <2>3, <3>2, <3>3, <3>4 DEF PageWrote, y
    <3> QED BY <3>3, <3>5 DEF PageMoved
  <2> QED BY <1>4, <2>4, <2>5
<1>5. CASE SaveProgress(c)
  <2>1. /\ run[c].pc = "save" /\ progress' = [progress EXCEPT ![run[c].id].next = run[c].at]
        /\ run' = [run EXCEPT ![c].pc = "page"] /\ batches' = batches
    BY <1>5 DEF SaveProgress, At, Goto
  <2>2. run[c] \in Runs /\ run[c].id \in DOMAIN progress
    BY <2>1, RunFacts
  <2>3. /\ \A d \in Collectors : d # c => run'[d] = run[d]
        /\ run'[c].pc = "page" /\ run'[c].of = run[c].of /\ run'[c].id = run[c].id /\ run'[c].at = run[c].at
    BY <1>0, <2>1, <2>2 DEF Runs
  <2>4. PageSaved(c)
    BY <2>1, <2>2, <2>3, ProgressTyped DEF PageSaved, ProgressFiles
  <2> QED BY <2>3, <2>4 DEF PageMoved
<1>6. CASE Finish(c, AtEnd(c))
  <2>1. run[c].pc = "page"
    BY <1>6 DEF Finish, At
  <2>2. run[c] \in Runs /\ run[c].id \in DOMAIN progress
    BY <2>1, RunFacts
  <2>3. PICK s \in Statuses : /\ progress' = [progress EXCEPT ![run[c].id].status = s]
                              /\ s = "COMPLETED" => run[c].at = End(run[c].of)
    BY <1>6 DEF Finish, AtEnd, Statuses
  <2>4. run' = [run EXCEPT ![c] = Idle] /\ batches' = batches
    BY <1>6 DEF Finish, Update
  <2>5. run'[c].pc = "idle" /\ \A d \in Collectors : d # c => run'[d] = run[d]
    BY <1>0, <2>4 DEF Idle
  <2>6. PageStopped(c)
    BY <2>1, <2>2, <2>3, <2>4, <2>5, ProgressTyped DEF PageStopped, ProgressFiles
  <2> QED BY <2>5, <2>6 DEF PageMoved
<1>7. CASE Fail(c)
  BY <1>0, <1>7 DEF Fail
<1> QED BY <1>1, <1>2, <1>3, <1>4, <1>5, <1>6, <1>7 DEF CollectStep, PageStep

-----------------------------------------------------------------------------
(* One pass over the pages                                                 *)

\* The pages before the one that follows x are those before x, and x.
LEMMA FollowingBefore ==
  ASSUME NEW res \in Resources, NEW x \in Pages(res), NEW y \in Pages(res)
  PROVE  /\ Before(y, Following(res, x)) <=> Before(y, x) \/ y = x
         /\ Before(y, End(res)) /\ ~Before(y, y)
<1>1. PICK v \in 1 .. Windows[res] : \E q \in 1 .. PagesIn[res][v] : x = [w |-> v, p |-> q]
  BY PagesOf
<1>q. PICK q \in 1 .. PagesIn[res][v] : x = [w |-> v, p |-> q]
  BY <1>1
<1>2. PICK a \in 1 .. Windows[res] : \E b \in 1 .. PagesIn[res][a] : y = [w |-> a, p |-> b]
  BY PagesOf
<1>b. PICK b \in 1 .. PagesIn[res][a] : y = [w |-> a, p |-> b]
  BY <1>2
<1>3. /\ Windows[res] \in Nat /\ v \in Nat /\ q \in Nat /\ a \in Nat /\ b \in Nat
      /\ PagesIn[res][v] \in Nat /\ PagesIn[res][a] \in Nat
  BY PagesOf
<1>4. Following(res, x) = IF q < PagesIn[res][v] THEN [w |-> v, p |-> q + 1] ELSE [w |-> v + 1, p |-> 1]
  BY <1>q DEF Following
<1>5. Before(y, x) \/ y = x => Before(y, Following(res, x))
  <2>1. Before(y, x) \/ y = x => a < v \/ (a = v /\ (b < q \/ b = q))
    BY <1>q, <1>b DEF Before
  <2>2. CASE q < PagesIn[res][v]
    <3>1. a < v \/ (a = v /\ (b < q \/ b = q)) => a < v \/ (a = v /\ b < q + 1)
      BY <1>3
    <3> QED BY <1>4, <1>b, <2>1, <2>2, <3>1 DEF Before
  <2>3. CASE ~(q < PagesIn[res][v])
    <3>1. a < v \/ (a = v /\ (b < q \/ b = q)) => a < v + 1
      BY <1>3
    <3> QED BY <1>4, <1>b, <2>1, <2>3, <3>1 DEF Before
  <2> QED BY <2>2, <2>3
<1>6. Before(y, End(res)) /\ ~Before(y, y)
  BY <1>b, <1>3 DEF Before, End
<1> QED BY <1>5, <1>6, NothingBetween

\* Nothing about the order runs changes but the batches that are not stored.
OrdersStand ==
  /\ \A y \in Pages("orders") : Stored(y, "orders")' <=> Stored(y, "orders")
  /\ OrderFiles' = OrderFiles
  /\ \A i \in OrderFiles : progress'[i] = progress[i]
  /\ \A d \in Collectors : Ordering(d)' <=> Ordering(d)
  /\ \A d \in Collectors : Ordering(d) =>
       /\ run'[d].id = run[d].id /\ run'[d].at = run[d].at
       /\ run'[d].pc = "save" <=> run[d].pc = "save"

LEMMA OnePassStands ==
  ASSUME CommerceInv, OnePass, OrdersStand
  PROVE  OnePass'
<1>1. PICK x \in Places("orders") : Frontier(x)
  BY DEF OnePass
<1>2. \A y : Started(y)' <=> Started(y)
  BY DEF OrdersStand, Started
<1>3. \A d \in Collectors : Ordering(d) => run[d].id \in OrderFiles
  BY RunFacts DEF Ordering, OrderFiles
<1>4. Frontier(x)'
  <2>1. \A y \in Pages("orders") : Stored(y, "orders")' <=> Before(y, x)
    BY <1>1 DEF Frontier, OrdersStand
  <2>2. Started(First)' \/ (x = First /\ \A c \in Collectors : ~Ordering(c)')
    BY <1>1, <1>2 DEF Frontier, OrdersStand, First
  <2>3. ASSUME NEW c \in Collectors
        PROVE  OrderRunAt(c, x)'
    BY <1>1, <1>3 DEF Frontier, OrdersStand, OrderRunAt
  <2>4. ASSUME NEW i \in OrderFiles
        PROVE  FileLeads(i, x)'
    <3>1. FileLeads(i, x) /\ progress'[i] = progress[i]
      BY <1>1 DEF Frontier, OrdersStand
    <3>2. CASE Started(progress[i].next)
      BY <1>2, <3>1, <3>2 DEF FileLeads, Started, OrderFiles
    <3>3. CASE progress[i].next = x /\ \A c \in Collectors : ~Ordering(c)
      BY <3>1, <3>3 DEF FileLeads, OrdersStand
    <3>4. CASE \E c \in Collectors : Ordering(c) /\ run[c].id = i
      BY <3>1, <3>4 DEF FileLeads, OrdersStand
    <3> QED BY <3>1, <3>2, <3>3, <3>4 DEF FileLeads
  <2>5. \A i \in OrderFiles' : FileLeads(i, x)'
    BY <2>4 DEF OrdersStand
  <2> QED BY <2>1, <2>2, <2>3, <2>5 DEF Frontier, Pages, Before, First
<1>5. OneOrderRun'
  BY DEF OnePass, OneOrderRun, OrdersStand
<1>6. ~Started(End("orders"))'
  BY <1>2 DEF OnePass, End
<1>7. \A i \in OrderFiles' : progress'[i].status = "COMPLETED" => progress'[i].next = End("orders")
  BY DEF OnePass, OrdersStand
<1> QED BY <1>1, <1>4, <1>5, <1>6, <1>7 DEF OnePass, Places, Pages, End

\* The batches of a resource stay what they are, complete or not.
SameBatches(res) ==
  /\ OfResource(batches', res) = OfResource(batches, res)
  /\ \A i \in OfResource(batches, res) :
       /\ batches'[i].of = batches[i].of /\ batches'[i].at = batches[i].at
       /\ batches'[i].stage = "complete" <=> batches[i].stage = "complete"

LEMMA SameStored ==
  ASSUME NEW res, SameBatches(res)
  PROVE  \A y : Stored(y, res)' <=> Stored(y, res)
<1>1. Canonical(batches, res)' = Canonical(batches, res)
  BY DEF SameBatches, Canonical, Selected
<1> QED BY <1>1 DEF Stored, SameBatches, Canonical

LEMMA SamePagesOnce ==
  ASSUME SameBatches("orders"), PagesOnce
  PROVE  PagesOnce'
BY DEF SameBatches, PagesOnce

\* What a page run writes is of its resource.
LEMMA OtherBatches ==
  ASSUME NEW c \in Collectors, PageMoved(c), NEW res, run[c].pc = "idle" \/ run[c].of # res
  PROVE  SameBatches(res)
<1>1. CASE PageRead(c)
  <2>1. OfResource(batches', res) = OfResource(batches, res)
    BY <1>1 DEF PageRead, OfResource
  <2> QED BY <1>1, <2>1 DEF PageRead, SameBatches, OfResource
<1>2. CASE PageWrote(c)
  <2>1. OfResource(batches', res) = OfResource(batches, res) /\ run[c].batch \notin OfResource(batches, res)
    BY <1>2 DEF PageWrote, OfResource, Writing
  <2> QED BY <1>2, <2>1 DEF PageWrote, SameBatches, OfResource
<1>3. CASE batches' = batches
  BY <1>3 DEF SameBatches
<1> QED BY <1>1, <1>2, <1>3 DEF PageMoved, PageBegun, PageSaved, PageWaited, PageStopped

\* Steps of runs of other resources.
LEMMA OthersKeepOnePass ==
  ASSUME CommerceInv, NEW c \in Collectors, PageMoved(c), \A d \in Collectors : d # c => run'[d] = run[d],
         run[c].pc = "idle" => run'[c].of # "orders", run[c].pc # "idle" => run[c].of # "orders",
         OrdersInOnePass
  PROVE  OrdersInOnePass'
<1>1. SameBatches("orders")
  BY OtherBatches
<1>2. ~Ordering(c) /\ ~Ordering(c)'
  BY DEF PageMoved, PageBegun, PageRead, PageWrote, PageSaved, PageWaited, PageStopped, Ordering, Writing
<1>3. OrderFiles' = OrderFiles /\ \A i \in OrderFiles : progress'[i] = progress[i]
  <2>1. CASE PageBegun(c)
    <3>1. run[c].pc = "idle" /\ progress'[Len(progress) + 1].of # "orders"
      BY <2>1 DEF PageBegun
    <3> QED BY <2>1, <3>1 DEF PageBegun, OrderFiles
  <2>2. CASE PageSaved(c) \/ PageStopped(c)
    <3>1. run[c].pc # "idle"
      BY <2>2 DEF PageSaved, PageStopped
    <3>2. run[c].id \in DOMAIN progress /\ progress[run[c].id].of # "orders"
      BY <3>1, RunFacts
    <3> QED BY <2>2, <3>2 DEF PageSaved, PageStopped, OrderFiles
  <2>3. CASE progress' = progress
    BY <2>3 DEF OrderFiles
  <2> QED BY <2>1, <2>2, <2>3 DEF PageMoved, PageRead, PageWrote, PageWaited
<1>4. \A d \in Collectors : (Ordering(d)' <=> Ordering(d)) /\ (Ordering(d) => run'[d] = run[d])
  BY <1>2 DEF Ordering
<1>5. OrdersStand
  BY <1>1, <1>3, <1>4, SameStored DEF OrdersStand
<1> QED BY <1>1, <1>5, SamePagesOnce, OnePassStands DEF OrdersInOnePass

\* An order run begins: at the first page, or at the frontier.
LEMMA OrdersBegun ==
  ASSUME CommerceInv, NEW c \in Collectors, PageBegun(c), \A d \in Collectors : d # c => run'[d] = run[d],
         run'[c].of = "orders", ~again', OrdersInOnePass
  PROVE  OrdersInOnePass'
<1>0. PICK n : n = Len(progress) + 1
  OBVIOUS
<1>1. PICK from \in Places("orders") :
        /\ run'[c].id = n /\ run'[c].at = from
        /\ progress'[n] = [of |-> "orders", from |-> from, next |-> from, status |-> "RUNNING"]
        /\ from # End("orders")
        /\ from = First \/ \E i \in OrderFiles : progress[i].next = from
        /\ \A i \in OrderFiles : progress[i].from # from
        /\ \A d \in Collectors : ~Ordering(d)
  BY <1>0 DEF PageBegun, OrderFiles, Ordering
<1>2. /\ run[c].pc = "idle" /\ run'[c].pc = "page" /\ batches' = batches
      /\ n \notin DOMAIN progress /\ DOMAIN progress' = DOMAIN progress \union {n}
      /\ \A i \in DOMAIN progress : progress'[i] = progress[i]
  BY <1>0 DEF PageBegun
<1>3. OrderFiles' = OrderFiles \union {n} /\ \A i \in OrderFiles : i # n /\ progress'[i] = progress[i]
  BY <1>1, <1>2 DEF OrderFiles
<1>4. \A y : Started(y)' <=> Started(y) \/ y = from
  BY <1>1, <1>3 DEF Started
<1>5. ~Started(from)
  BY <1>1 DEF Started
<1>6. PICK x \in Places("orders") : Frontier(x)
  BY DEF OrdersInOnePass, OnePass
<1>7. x = from
  BY <1>1, <1>5, <1>6 DEF Frontier, FileLeads
<1>8. /\ Ordering(c)' /\ \A d \in Collectors : Ordering(d)' => d = c
  BY <1>1, <1>2 DEF Ordering
<1>9. Frontier(x)'
  <2>1. \A y \in Pages("orders") : Stored(y, "orders")' <=> Before(y, x)
    BY <1>2, <1>6 DEF Frontier, Stored, Canonical, OfResource, Selected
  <2>2. Started(First)'
    BY <1>4, <1>6, <1>7 DEF Frontier, First
  <2>3. \A d \in Collectors : OrderRunAt(d, x)'
    BY <1>1, <1>7, <1>8 DEF OrderRunAt
  <2>4. ASSUME NEW i \in OrderFiles
        PROVE  FileLeads(i, x)'
    <3>1. Started(progress[i].next) \/ progress[i].next = from
      BY <1>1, <1>6, <1>7 DEF Frontier, FileLeads
    <3>2. \A y : y = progress[i].next => Started(y)'
      BY <1>4, <3>1
    <3> QED BY <1>3, <3>2 DEF FileLeads, Started, OrderFiles
  <2>5. FileLeads(n, x)'
    BY <1>1, <1>8 DEF FileLeads
  <2> QED BY <1>3, <2>1, <2>2, <2>3, <2>4, <2>5 DEF Frontier, Pages, Before, First
<1>10. OneOrderRun'
  BY <1>8 DEF OneOrderRun
<1>11. ~Started(End("orders"))'
  BY <1>1, <1>4 DEF OrdersInOnePass, OnePass, End
<1>12. \A i \in OrderFiles' : progress'[i].status = "COMPLETED" => progress'[i].next = End("orders")
  BY <1>1, <1>3 DEF OrdersInOnePass, OnePass
<1>13. PagesOnce'
  BY <1>2 DEF OrdersInOnePass, PagesOnce
<1> QED BY <1>6, <1>9, <1>10, <1>11, <1>12, <1>13 DEF OrdersInOnePass, OnePass, Places, Pages, End

\* Steps of the order run itself.  It reads the page at the frontier, which no
\* batch is about yet.
LEMMA OrdersRead ==
  ASSUME CommerceInv, NEW c \in Collectors, PageRead(c), \A d \in Collectors : d # c => run'[d] = run[d],
         run[c].of = "orders", NothingLeftOver, OrdersInOnePass
  PROVE  OrdersInOnePass'
<1>0. PICK n : n = run'[c].batch
  OBVIOUS
<1>1. /\ run[c].pc = "page" /\ run'[c].pc = "fill" /\ run'[c].of = "orders" /\ run'[c].at = run[c].at
      /\ run'[c].id = run[c].id /\ n \notin DOMAIN batches /\ DOMAIN batches' = DOMAIN batches \union {n}
      /\ \A i \in DOMAIN batches : batches'[i] = batches[i]
      /\ batches'[n] = [of |-> "orders", at |-> run[c].at, stage |-> "sanitizing"]
      /\ run[c].at \in Pages("orders") /\ progress' = progress
  BY <1>0 DEF PageRead
<1>2. Ordering(c) /\ \A d \in Collectors : Ordering(d) => d = c
  BY <1>1 DEF Ordering, OrdersInOnePass, OnePass, OneOrderRun
<1>3. PICK x \in Places("orders") : Frontier(x)
  BY DEF OrdersInOnePass, OnePass
<1>4. run[c].at = x
  BY <1>2, <1>3 DEF Frontier, OrderRunAt
<1>5. ASSUME NEW i \in OfResource(batches, "orders")
      PROVE  batches[i].at # x
  <2>1. batches[i].stage = "complete"
    <3>1. SUFFICES ASSUME batches[i].stage # "complete" PROVE FALSE
      OBVIOUS
    <3>2. i \in DOMAIN batches /\ batches[i].of = "orders"
      BY DEF OfResource
    <3>3. CASE \E d \in Collectors : Writing(run[d]) /\ run[d].batch = i
      <4>1. PICK d \in Collectors : Writing(run[d]) /\ run[d].batch = i
        BY <3>3
      <4>2. run[d].pc # "idle"
        BY <4>1 DEF Writing
      <4>3. run[d].of = "orders"
        BY <3>2, <4>1, <4>2, RunFacts DEF Holds
      <4> QED BY <1>1, <1>2, <4>1, <4>2, <4>3 DEF Ordering, Writing
    <3>4. CASE \E t \in ItemCollectors : Writing(itemRun[t]) /\ itemRun[t].batch = i
      <4>1. PICK t \in ItemCollectors : Writing(itemRun[t]) /\ itemRun[t].batch = i
        BY <3>4
      <4>2. itemRun[t].pc # "idle"
        BY <4>1 DEF Writing
      <4> QED BY <3>2, <4>1, <4>2, ItemFacts DEF Holds
    <3> QED BY <3>1, <3>2, <3>3, <3>4 DEF NothingLeftOver
  <2>2. Stored(batches[i].at, "orders")
    BY <2>1 DEF Stored, Canonical, Selected, OfResource
  <2>3. batches[i].at = x => ~Stored(batches[i].at, "orders")
    BY <1>1, <1>3, <1>4, FollowingBefore, CommerceAssumption DEF Frontier
  <2> QED BY <2>2, <2>3
<1>6. OfResource(batches', "orders") = OfResource(batches, "orders") \union {n}
  BY <1>1 DEF OfResource
<1>7. PagesOnce'
  <2>1. \A i \in OfResource(batches, "orders") : batches'[i].at = batches[i].at /\ batches'[i].at # batches'[n].at
    BY <1>1, <1>4, <1>5 DEF OfResource
  <2> QED BY <1>6, <2>1 DEF OrdersInOnePass, PagesOnce
<1>8. OrdersStand
  <2>1. Canonical(batches, "orders")' = Canonical(batches, "orders")
    BY <1>1, <1>6 DEF Canonical, Selected, OfResource
  <2>2. \A y \in Pages("orders") : Stored(y, "orders")' <=> Stored(y, "orders")
    BY <1>1, <2>1 DEF Stored, Canonical, OfResource
  <2>3. \A d \in Collectors : Ordering(d)' <=> Ordering(d)
    BY <1>1 DEF Ordering
  <2> QED BY <1>1, <1>2, <2>2, <2>3 DEF OrdersStand, OrderFiles
<1> QED BY <1>7, <1>8, OnePassStands DEF OrdersInOnePass

\* With the page stored the frontier is the page after it.
LEMMA OrdersWrote ==
  ASSUME CommerceInv, NEW c \in Collectors, PageWrote(c), \A d \in Collectors : d # c => run'[d] = run[d],
         run[c].of = "orders", OrdersInOnePass
  PROVE  OrdersInOnePass'
<1>1. /\ Writing(run[c]) /\ run[c].pc # "idle" /\ run[c].pc # "save"
      /\ run'[c].of = "orders" /\ run'[c].pc # "idle" /\ run'[c].id = run[c].id
      /\ run[c].at \in Pages("orders")
  BY RunFacts DEF PageWrote, Writing
<1>2. Ordering(c) /\ \A d \in Collectors : Ordering(d) => d = c
  BY <1>1 DEF Ordering, OrdersInOnePass, OnePass, OneOrderRun
<1>3. PICK x \in Places("orders") : Frontier(x)
  BY DEF OrdersInOnePass, OnePass
<1>4. run[c].at = x
  BY <1>2, <1>3 DEF Frontier, OrderRunAt
<1>5. OfResource(batches', "orders") = OfResource(batches, "orders")
  BY DEF PageWrote, OfResource
<1>6. \A i \in OfResource(batches, "orders") : batches'[i].at = batches[i].at
  BY DEF PageWrote, OfResource
<1>7. PagesOnce'
  BY <1>5, <1>6 DEF OrdersInOnePass, PagesOnce
<1>8. \A d \in Collectors : Ordering(d)' <=> Ordering(d)
  BY <1>1 DEF Ordering
<1>9. CASE Writing(run'[c])
  <2>1. /\ run'[c].at = run[c].at /\ run'[c].pc # "save" /\ batches'[run[c].batch].stage # "complete"
        /\ progress' = progress
    BY <1>9 DEF PageWrote, Writing
  <2>2. SameBatches("orders")
    BY <1>5, <1>6, <2>1 DEF SameBatches, PageWrote, OfResource
  <2>3. OrdersStand
    BY <1>1, <1>2, <1>8, <2>1, <2>2, SameStored DEF OrdersStand, OrderFiles
  <2> QED BY <1>7, <2>3, OnePassStands DEF OrdersInOnePass
<1>10. CASE ~Writing(run'[c])
  <2>0. PICK y : y = Following("orders", x)
    OBVIOUS
  <2>1. /\ run'[c].pc = "save" /\ run'[c].at = y
        /\ batches'[run[c].batch].stage = "complete" /\ progress' = progress
        /\ y \in Places("orders")
    BY <1>1, <1>4, <1>10, <2>0, FollowingPlaced, CommerceAssumption DEF PageWrote
  <2>2. ASSUME NEW z \in Pages("orders")
        PROVE  Stored(z, "orders")' <=> Stored(z, "orders") \/ z = x
    <3>1. Canonical(batches', "orders") = Canonical(batches, "orders") \union {run[c].batch}
      BY <1>5, <2>1 DEF Canonical, Selected, PageWrote, OfResource
    <3>2. /\ \A i \in Canonical(batches, "orders") : batches'[i].at = batches[i].at
          /\ batches'[run[c].batch].at = x
      BY <1>4, <1>6 DEF Canonical, PageWrote
    <3> QED BY <3>1, <3>2 DEF Stored
  <2>3. \A z \in Pages("orders") : Before(z, y) <=> Before(z, x) \/ z = x
    BY <1>1, <1>4, <2>0, FollowingBefore, CommerceAssumption
  <2>4. Frontier(y)'
    <3>1. \A z \in Pages("orders") : Stored(z, "orders")' <=> Before(z, y)
      BY <1>3, <2>2, <2>3 DEF Frontier
    <3>2. Started(First)'
      BY <1>2, <1>3, <2>1 DEF Frontier, Started, OrderFiles, First
    <3>3. \A d \in Collectors : OrderRunAt(d, y)'
      BY <1>1, <1>2, <1>3, <1>8, <2>1 DEF Frontier, OrderRunAt
    <3>4. ASSUME NEW i \in OrderFiles
          PROVE  FileLeads(i, y)'
      <4>1. FileLeads(i, x) /\ progress'[i] = progress[i]
        BY <1>3, <2>1 DEF Frontier
      <4>2. Started(progress[i].next) \/ run[c].id = i
        BY <1>2, <4>1 DEF FileLeads
      <4> QED BY <1>1, <1>2, <1>8, <2>1, <4>2 DEF FileLeads, Started, OrderFiles
    <3>5. OrderFiles' = OrderFiles
      BY <2>1 DEF OrderFiles
    <3> QED BY <3>1, <3>2, <3>3, <3>4, <3>5 DEF Frontier, Pages, Before, First
  <2>5. OneOrderRun'
    BY <1>2, <1>8 DEF OneOrderRun
  <2>6. ~Started(End("orders"))'
    BY <2>1 DEF OrdersInOnePass, OnePass, Started, OrderFiles, End
  <2>7. \A i \in OrderFiles' : progress'[i].status = "COMPLETED" => progress'[i].next = End("orders")
    BY <2>1 DEF OrdersInOnePass, OnePass, OrderFiles
  <2> QED BY <1>7, <2>1, <2>4, <2>5, <2>6, <2>7 DEF OrdersInOnePass, OnePass, Places, Pages, End
<1> QED BY <1>9, <1>10

\* Its progress file takes the frontier as its next position.
LEMMA OrdersSaved ==
  ASSUME CommerceInv, NEW c \in Collectors, PageSaved(c), \A d \in Collectors : d # c => run'[d] = run[d],
         run[c].of = "orders", OrdersInOnePass
  PROVE  OrdersInOnePass'
<1>0. PICK n : n = run[c].id
  OBVIOUS
<1>1. /\ run[c].pc = "save" /\ run'[c].pc = "page" /\ run'[c].of = "orders" /\ run'[c].at = run[c].at
      /\ run'[c].id = n /\ batches' = batches /\ DOMAIN progress' = DOMAIN progress
      /\ \A i \in DOMAIN progress : i # n => progress'[i] = progress[i]
      /\ progress'[n].of = progress[n].of /\ progress'[n].from = progress[n].from
      /\ progress'[n].status = progress[n].status /\ progress'[n].next = run[c].at
      /\ n \in DOMAIN progress /\ progress[n].of = "orders"
  BY <1>0, RunFacts DEF PageSaved
<1>2. Ordering(c) /\ \A d \in Collectors : Ordering(d) => d = c
  BY <1>1 DEF Ordering, OrdersInOnePass, OnePass, OneOrderRun
<1>3. PICK x \in Places("orders") : Frontier(x)
  BY DEF OrdersInOnePass, OnePass
<1>4. run[c].at = x /\ progress[n].status = "RUNNING"
  BY <1>0, <1>2, <1>3 DEF Frontier, OrderRunAt
<1>5. \A d \in Collectors : Ordering(d)' <=> Ordering(d)
  BY <1>1 DEF Ordering
<1>6. OrderFiles' = OrderFiles /\ \A y : Started(y)' <=> Started(y)
  <2>1. OrderFiles' = OrderFiles /\ \A i \in OrderFiles : progress'[i].from = progress[i].from
    BY <1>1 DEF OrderFiles
  <2> QED BY <2>1 DEF Started
<1>7. Frontier(x)'
  <2>1. \A y \in Pages("orders") : Stored(y, "orders")' <=> Before(y, x)
    BY <1>1, <1>3 DEF Frontier, Stored, Canonical, OfResource, Selected
  <2>2. Started(First)'
    BY <1>2, <1>3, <1>6 DEF Frontier, First
  <2>3. \A d \in Collectors : OrderRunAt(d, x)'
    BY <1>1, <1>2, <1>4, <1>5 DEF OrderRunAt
  <2>4. ASSUME NEW i \in OrderFiles
        PROVE  FileLeads(i, x)'
    <3>1. CASE i = n
      BY <1>1, <1>2, <1>5, <3>1 DEF FileLeads
    <3>2. CASE i # n
      <4>1. FileLeads(i, x) /\ progress'[i] = progress[i]
        BY <1>1, <1>3, <3>2 DEF Frontier, OrderFiles
      <4>2. Started(progress[i].next)
        BY <1>0, <1>2, <3>2, <4>1 DEF FileLeads
      <4>3. \A y : y = progress[i].next => Started(y)'
        BY <1>6, <4>2
      <4> QED BY <4>1, <4>3 DEF FileLeads, Started, OrderFiles
    <3> QED BY <3>1, <3>2
  <2> QED BY <1>6, <2>1, <2>2, <2>3, <2>4 DEF Frontier, Pages, Before, First
<1>8. OneOrderRun' /\ ~Started(End("orders"))'
  BY <1>2, <1>5, <1>6 DEF OneOrderRun, OrdersInOnePass, OnePass, End
<1>9. \A i \in OrderFiles' : progress'[i].status = "COMPLETED" => progress'[i].next = End("orders")
  BY <1>1, <1>4, <1>6 DEF OrdersInOnePass, OnePass, OrderFiles
<1>10. PagesOnce'
  BY <1>1 DEF OrdersInOnePass, PagesOnce
<1> QED BY <1>3, <1>7, <1>8, <1>9, <1>10 DEF OrdersInOnePass, OnePass, Places, Pages, End

\* It stops: its progress file names the frontier, which is the end if the run
\* completed.
LEMMA OrdersStopped ==
  ASSUME CommerceInv, NEW c \in Collectors, PageStopped(c), \A d \in Collectors : d # c => run'[d] = run[d],
         run[c].of = "orders", OrdersInOnePass
  PROVE  OrdersInOnePass'
<1>0. PICK n : n = run[c].id
  OBVIOUS
<1>1. /\ run[c].pc = "page" /\ run'[c].pc = "idle" /\ batches' = batches /\ DOMAIN progress' = DOMAIN progress
      /\ \A i \in DOMAIN progress : i # n => progress'[i] = progress[i]
      /\ progress'[n].of = progress[n].of /\ progress'[n].from = progress[n].from
      /\ progress'[n].next = progress[n].next
      /\ progress'[n].status = "COMPLETED" => run[c].at = End("orders")
      /\ n \in DOMAIN progress /\ progress[n].of = "orders"
  BY <1>0, RunFacts DEF PageStopped
<1>2. Ordering(c) /\ \A d \in Collectors : Ordering(d) => d = c
  BY <1>1 DEF Ordering, OrdersInOnePass, OnePass, OneOrderRun
<1>3. PICK x \in Places("orders") : Frontier(x)
  BY DEF OrdersInOnePass, OnePass
<1>4. run[c].at = x /\ progress[n].next = x
  BY <1>0, <1>1, <1>2, <1>3 DEF Frontier, OrderRunAt
<1>5. \A d \in Collectors : ~Ordering(d)'
  BY <1>1, <1>2 DEF Ordering
<1>6. OrderFiles' = OrderFiles /\ \A y : Started(y)' <=> Started(y)
  <2>1. OrderFiles' = OrderFiles /\ \A i \in OrderFiles : progress'[i].from = progress[i].from
    BY <1>1 DEF OrderFiles
  <2> QED BY <2>1 DEF Started
<1>7. \A i \in OrderFiles : progress'[i].next = progress[i].next
  BY <1>1 DEF OrderFiles
<1>8. Frontier(x)'
  <2>1. \A y \in Pages("orders") : Stored(y, "orders")' <=> Before(y, x)
    BY <1>1, <1>3 DEF Frontier, Stored, Canonical, OfResource, Selected
  <2>2. Started(First)'
    BY <1>2, <1>3, <1>6 DEF Frontier, First
  <2>3. \A d \in Collectors : OrderRunAt(d, x)'
    BY <1>5 DEF OrderRunAt
  <2>4. ASSUME NEW i \in OrderFiles
        PROVE  FileLeads(i, x)'
    <3>1. Started(progress[i].next) \/ progress[i].next = x
      BY <1>0, <1>2, <1>3, <1>4 DEF Frontier, FileLeads
    <3>2. \A y : y = progress[i].next => Started(y)' \/ y = x
      BY <1>6, <3>1
    <3> QED BY <1>5, <1>7, <3>2 DEF FileLeads, Started, OrderFiles
  <2> QED BY <1>6, <2>1, <2>2, <2>3, <2>4 DEF Frontier, Pages, Before, First
<1>9. OneOrderRun' /\ ~Started(End("orders"))'
  BY <1>5, <1>6 DEF OneOrderRun, OrdersInOnePass, OnePass, End
<1>10. \A i \in OrderFiles' : progress'[i].status = "COMPLETED" => progress'[i].next = End("orders")
  BY <1>1, <1>4, <1>6 DEF OrdersInOnePass, OnePass, OrderFiles
<1>11. PagesOnce'
  BY <1>1 DEF OrdersInOnePass, PagesOnce
<1> QED BY <1>3, <1>8, <1>9, <1>10, <1>11 DEF OrdersInOnePass, OnePass, Places, Pages, End

LEMMA OrdersKept ==
  ASSUME CommerceInv, NEW c \in Collectors, PageMoved(c), \A d \in Collectors : d # c => run'[d] = run[d],
         ~again', NothingLeftOver, OrdersInOnePass
  PROVE  OrdersInOnePass'
<1>1. CASE PageBegun(c)
  <2>1. run[c].pc = "idle"
    BY <1>1 DEF PageBegun
  <2> QED BY <1>1, <2>1, OrdersBegun, OthersKeepOnePass
<1>2. CASE ~PageBegun(c)
  <2>1. run[c].pc # "idle"
    BY <1>2 DEF PageMoved, PageRead, PageWrote, PageSaved, PageWaited, PageStopped, Writing
  <2>2. CASE run[c].of # "orders"
    BY <2>1, <2>2, OthersKeepOnePass
  <2>3. CASE PageWaited(c) /\ run[c].of = "orders"
    <3>1. \A d \in Collectors : Ordering(d)' <=> Ordering(d)
      BY <2>3 DEF PageWaited, Ordering
    <3>2. OrdersStand
      BY <2>3, <3>1 DEF PageWaited, OrdersStand, OrderFiles, Stored, Canonical, OfResource, Selected
    <3>3. PagesOnce'
      BY <2>3 DEF PageWaited, PagesOnce, OrdersInOnePass
    <3> QED BY <3>2, <3>3, OnePassStands DEF OrdersInOnePass
  <2> QED BY <1>2, <2>2, <2>3, OrdersRead, OrdersWrote, OrdersSaved, OrdersStopped DEF PageMoved
<1> QED BY <1>1, <1>2

-----------------------------------------------------------------------------
(* What the steps of an order-item run do                                  *)

ItemsBegun(t) ==
  /\ itemRun[t].pc = "idle" /\ itemRun'[t].pc = "next"
  /\ itemRun'[t].left = OrderIds /\ itemRun'[t].cache = index
  /\ batches' = batches /\ index' = index /\ tmp' = tmp /\ openAs' = openAs
  /\ ~overlapped' => \A u \in ItemCollectors : itemRun[u].pc = "idle"

\* The run opens a batch for the first of its orders, which its copy of the
\* index does not list.
ItemsRead(t) ==
  /\ itemRun[t].pc = "next" /\ itemRun'[t].pc = "fill"
  /\ itemRun'[t].left = itemRun[t].left /\ itemRun'[t].cache = itemRun[t].cache
  /\ itemRun'[t].batch \notin DOMAIN batches
  /\ DOMAIN batches' = DOMAIN batches \union {itemRun'[t].batch}
  /\ \A i \in DOMAIN batches : batches'[i] = batches[i]
  /\ batches'[itemRun'[t].batch] =
       [of |-> "order_items", at |-> Current(itemRun[t]), stage |-> "sanitizing"]
  /\ Current(itemRun[t]) \in itemRun[t].left
  /\ itemRun[t].cache[Current(itemRun[t])] = "none"
  /\ index' = index /\ tmp' = tmp /\ openAs' = openAs

\* The run writes its batch, which may complete it: then its copy lists it.
ItemsWrote(t) ==
  /\ Writing(itemRun[t])
  /\ itemRun[t].batch \in DOMAIN batches
  /\ DOMAIN batches' = DOMAIN batches
  /\ \A i \in DOMAIN batches : i # itemRun[t].batch => batches'[i] = batches[i]
  /\ batches[itemRun[t].batch].of = "order_items"
  /\ batches[itemRun[t].batch].stage # "complete"
  /\ batches'[itemRun[t].batch].of = "order_items"
  /\ batches'[itemRun[t].batch].at = batches[itemRun[t].batch].at
  /\ \/ /\ Writing(itemRun'[t]) /\ itemRun'[t].batch = itemRun[t].batch
        /\ itemRun'[t].cache = itemRun[t].cache
        /\ batches'[itemRun[t].batch].stage # "complete"
     \/ /\ itemRun'[t].pc = "tmp"
        /\ itemRun'[t].cache[batches[itemRun[t].batch].at] # "none"
        /\ \A o \in Orders : itemRun[t].cache[o] # "none" => itemRun'[t].cache[o] # "none"
        /\ batches'[itemRun[t].batch].stage = "complete"
  /\ itemRun'[t].left = itemRun[t].left
  /\ index' = index /\ tmp' = tmp /\ openAs' = openAs

ItemsGone(t) ==
  /\ itemRun[t].pc = "next" /\ itemRun'[t].pc = "tmpGone"
  /\ itemRun'[t].left = itemRun[t].left
  /\ \A o \in Orders : itemRun[t].cache[o] # "none" => itemRun'[t].cache[o] # "none"
  /\ batches' = batches /\ index' = index /\ tmp' = tmp /\ openAs' = openAs

ItemsOpened(t) ==
  /\ itemRun[t].pc \in {"tmp", "tmpGone"} /\ itemRun'[t] = itemRun[t]
  /\ openAs' = [openAs EXCEPT ![t] = "tmp"]
  /\ batches' = batches /\ index' = index

\* What the run has open under the temporary name becomes its copy, if no other
\* run ever disturbed it.
ItemsTmp(t) ==
  /\ itemRun[t].pc \in {"tmp", "tmpGone"} /\ itemRun'[t].pc \in {"replace", "replaceGone"}
  /\ itemRun'[t].left = itemRun[t].left /\ itemRun'[t].cache = itemRun[t].cache
  /\ openAs[t] # "none" /\ openAs' = [openAs EXCEPT ![t] = "none"]
  /\ batches' = batches
  /\ openAs[t] = "tmp" /\ ~overlapped' => index' = index /\ tmp' = itemRun[t].cache

ItemsReplaced(t) ==
  /\ itemRun[t].pc \in {"replace", "replaceGone"} /\ itemRun'[t].pc = "next"
  /\ itemRun'[t].left \subseteq itemRun[t].left /\ itemRun'[t].cache = itemRun[t].cache
  /\ batches' = batches /\ index' = tmp
  /\ openAs' = [u \in ItemCollectors |-> NameAfter(openAs[u])]

ItemsPassed(t) ==
  /\ itemRun[t].pc = "next" /\ itemRun'[t].pc = "next"
  /\ itemRun'[t].left \subseteq itemRun[t].left /\ itemRun'[t].cache = itemRun[t].cache
  /\ batches' = batches /\ index' = index /\ tmp' = tmp /\ openAs' = openAs

\* The temporary file was taken away.
ItemsLost(t) ==
  /\ itemRun[t].pc \in {"replace", "replaceGone"} /\ tmp = NoFile
  /\ itemRun'[t].pc \in {"idle", "next"} /\ batches' = batches

ItemsFinished(t) ==
  /\ itemRun[t].pc = "next" /\ itemRun'[t].pc = "idle"
  /\ batches' = batches /\ index' = index /\ tmp' = tmp /\ openAs' = openAs

ItemsMoved(t) ==
  \/ ItemsBegun(t) \/ ItemsRead(t) \/ ItemsWrote(t) \/ ItemsGone(t) \/ ItemsOpened(t)
  \/ ItemsTmp(t) \/ ItemsReplaced(t) \/ ItemsPassed(t) \/ ItemsLost(t) \/ ItemsFinished(t)

\* Entering an order in a run's copy of the index lists it and no fewer.
LEMMA EnteredRun ==
  ASSUME NEW r \in ItemRuns, NEW pc, NEW o \in Orders, NEW e \in Entries \ {"none"}
  PROVE  LET q == [r EXCEPT !.pc = pc, !.processed = @ + 1, !.cache[o] = e] IN
         /\ q.pc = pc /\ q.left = r.left /\ q.cache[o] # "none"
         /\ \A x \in Orders : r.cache[x] # "none" => q.cache[x] # "none"
<1> DEFINE k == [r.cache EXCEPT ![o] = e]
<1>1. k[o] = e /\ \A x \in Orders : x # o => k[x] = r.cache[x]
  BY DEF ItemRuns, Indexes
<1> DEFINE q == [r EXCEPT !.pc = pc, !.processed = @ + 1, !.cache[o] = e]
<1>2. q.pc = pc /\ q.left = r.left /\ q.cache = k
  BY DEF ItemRuns
<1> HIDE DEF k, q
<1>3. /\ q.pc = pc /\ q.left = r.left /\ q.cache[o] # "none"
      /\ \A x \in Orders : r.cache[x] # "none" => q.cache[x] # "none"
  BY <1>1, <1>2
<1> QED BY <1>3 DEF q

\* Without a fault an order-item run does one of these.
LEMMA ItemSteps ==
  ASSUME CommerceInv, NEW t \in ItemCollectors, ItemStep(t), faults' = 0
  PROVE  ItemsMoved(t) /\ \A u \in ItemCollectors : u # t => itemRun'[u] = itemRun[u]
<1>0. /\ itemRun \in [ItemCollectors -> ItemRuns \union {Idle}] /\ faults \in Nat /\ CommerceTypeOK
  BY DEF CommerceInv, CommerceTypeOK, CollectTypeOK, ItemTypeOK
<1>a. HasOrder(t) => /\ itemRun[t].pc = "next" /\ itemRun[t] \in ItemRuns
                     /\ Current(itemRun[t]) \in itemRun[t].left /\ Current(itemRun[t]) \in Orders
  <2> SUFFICES ASSUME HasOrder(t)
               PROVE  /\ itemRun[t].pc = "next" /\ itemRun[t] \in ItemRuns
                      /\ Current(itemRun[t]) \in itemRun[t].left /\ Current(itemRun[t]) \in Orders
    OBVIOUS
  <2>1. itemRun[t].pc = "next" /\ itemRun[t].pc # "idle" /\ itemRun[t].left # {}
    BY DEF HasOrder, ItemsAt
  <2>2. itemRun[t] \in ItemRuns /\ itemRun[t].left \subseteq Orders
    BY <2>1, ItemFacts
  <2>3. PICK r : r = itemRun[t]
    OBVIOUS
  <2>4. Current(r) \in r.left
    BY <2>1, <2>2, <2>3, CurrentIsLeft
  <2> QED BY <2>1, <2>2, <2>3, <2>4
<1>1. CASE BeginItems(t)
  <2>1. /\ itemRun[t].pc = "idle" /\ UNCHANGED <<batches, index, tmp, openAs, unreadable>>
        /\ itemRun' = [itemRun EXCEPT ![t] =
             [pc |-> "next", ids |-> OrderIds, left |-> OrderIds, cache |-> index,
              processed |-> 0, failed |-> 0, tries |-> 0, batch |-> 0]]
        /\ ~overlapped' => \A u \in ItemCollectors : itemRun[u].pc = "idle"
    BY <1>1 DEF BeginItems, ItemsAt, ItemsUpdate, IndexFilesUnchanged
  <2>2. /\ itemRun'[t].pc = "next" /\ itemRun'[t].left = OrderIds /\ itemRun'[t].cache = index
        /\ \A u \in ItemCollectors : u # t => itemRun'[u] = itemRun[u]
    BY <1>0, <2>1
  <2> QED BY <2>1, <2>2 DEF ItemsBegun, ItemsMoved
<1>2. CASE SkipIndexed(t) \/ ItemsRateLimited(t)
  <2>1. HasOrder(t) /\ UNCHANGED <<batches, index, tmp, openAs, unreadable>>
    BY <1>2 DEF SkipIndexed, ItemsRateLimited, FilesUnchanged, IndexFilesUnchanged
  <2>2. itemRun[t] \in ItemRuns /\ itemRun[t].pc = "next"
    BY <1>a, <2>1
  <2>3. PICK q : /\ itemRun' = [itemRun EXCEPT ![t] = q]
                 /\ \/ \E failed \in BOOLEAN : q = Passed(itemRun[t], failed)
                    \/ q = [itemRun[t] EXCEPT !.tries = @ + 1]
    BY <1>2 DEF SkipIndexed, ItemsRateLimited, ItemsUpdate
  <2>4. q.pc = "next" /\ q.left \subseteq itemRun[t].left /\ q.cache = itemRun[t].cache
    <3>1. CASE \E failed \in BOOLEAN : q = Passed(itemRun[t], failed)
      BY <2>2, <3>1, PassedRun
    <3>2. CASE q = [itemRun[t] EXCEPT !.tries = @ + 1]
      BY <2>2, <3>2 DEF ItemRuns
    <3> QED BY <2>3, <3>1, <3>2
  <2>5. itemRun'[t] = q /\ \A u \in ItemCollectors : u # t => itemRun'[u] = itemRun[u]
    BY <1>0, <2>3
  <2> QED BY <2>1, <2>2, <2>4, <2>5 DEF ItemsPassed, ItemsMoved
<1>3. CASE ReadItems(t)
  <2>1. /\ itemRun[t].pc = "next" /\ itemRun[t] \in ItemRuns
        /\ Current(itemRun[t]) \in itemRun[t].left /\ Current(itemRun[t]) \in Orders
        /\ itemRun[t].cache[Current(itemRun[t])] = "none"
    BY <1>a, <1>3 DEF ReadItems, Listed
  <2> DEFINE n == Len(batches) + 1
             r == [itemRun[t] EXCEPT !.pc = "fill", !.batch = n]
  <2>2. /\ batches' = Opened(batches, "order_items", Current(itemRun[t]))
        /\ itemRun' = [itemRun EXCEPT ![t] = r] /\ UNCHANGED <<index, tmp, openAs, unreadable>>
    BY <1>3 DEF ReadItems, ItemsUpdate, FilesUnchanged, IndexFilesUnchanged
  <2>3. r.pc = "fill" /\ r.left = itemRun[t].left /\ r.cache = itemRun[t].cache /\ r.batch = n
    BY <2>1 DEF ItemRuns
  <2> HIDE DEF n, r
  <2>4. /\ n \notin DOMAIN batches /\ DOMAIN batches' = DOMAIN batches \union {n}
        /\ \A i \in DOMAIN batches : batches'[i] = batches[i]
        /\ batches'[n] = [of |-> "order_items", at |-> Current(itemRun[t]), stage |-> "sanitizing"]
    <3>1. [of |-> "order_items", at |-> Current(itemRun[t]), stage |-> "sanitizing"] \in Batches
      BY <2>1 DEF Batches, ItemBatches, Stages
    <3> QED BY <1>0, <2>2, <3>1, OpenedStore DEF n
  <2>5. itemRun'[t] = r /\ \A u \in ItemCollectors : u # t => itemRun'[u] = itemRun[u]
    BY <1>0, <2>2
  <2>6. ItemsRead(t)
    BY <2>1, <2>2, <2>3, <2>4, <2>5 DEF ItemsRead
  <2> QED BY <2>5, <2>6 DEF ItemsMoved
<1>4. CASE SourceMissing(t)
  <2>1. /\ itemRun[t].pc = "next" /\ itemRun[t] \in ItemRuns /\ Current(itemRun[t]) \in Orders
    BY <1>a, <1>4 DEF SourceMissing
  <2> DEFINE r == [itemRun[t] EXCEPT !.pc = "tmpGone", !.processed = @ + 1,
                                     !.cache[Current(itemRun[t])] = "missing"]
  <2>2. itemRun' = [itemRun EXCEPT ![t] = r] /\ UNCHANGED <<batches, index, tmp, openAs, unreadable>>
    BY <1>4 DEF SourceMissing, ItemsUpdate, FilesUnchanged, IndexFilesUnchanged
  <2>3. /\ r.pc = "tmpGone" /\ r.left = itemRun[t].left
        /\ \A x \in Orders : itemRun[t].cache[x] # "none" => r.cache[x] # "none"
    <3>1. "missing" \in Entries \ {"none"}
      BY DEF Entries
    <3> QED BY <2>1, <3>1, EnteredRun
  <2> HIDE DEF r
  <2>4. itemRun'[t] = r /\ \A u \in ItemCollectors : u # t => itemRun'[u] = itemRun[u]
    BY <1>0, <2>2
  <2> QED BY <2>1, <2>2, <2>3, <2>4 DEF ItemsGone, ItemsMoved
<1>5. CASE FillItems(t) \/ OpenItemManifest(t) \/ FillItemManifest(t)
  <2>1. Writing(itemRun[t]) /\ itemRun[t].pc # "idle" /\ UNCHANGED <<index, tmp, openAs, unreadable>>
    BY <1>5 DEF FillItems, OpenItemManifest, FillItemManifest, ItemsAt, Writing, FilesUnchanged, IndexFilesUnchanged
  <2>2. /\ itemRun[t] \in ItemRuns /\ itemRun[t].batch \in DOMAIN batches
        /\ batches[itemRun[t].batch].of = "order_items"
        /\ batches[itemRun[t].batch].at = Current(itemRun[t])
        /\ batches[itemRun[t].batch].stage # "complete"
    BY <2>1, ItemFacts DEF Holds
  <2>3. Current(itemRun[t]) \in Orders
    BY <1>0, <2>2, StoreTyped, CommerceAssumption DEF Batches, PageBatches, ItemBatches
  <2>4. CASE FillItems(t) \/ OpenItemManifest(t)
    <3>1. PICK pc \in {"manifest", "fillManifest"} : itemRun' = [itemRun EXCEPT ![t].pc = pc]
      BY <2>4 DEF FillItems, OpenItemManifest, ItemsGoto
    <3>2. PICK stage \in Stages \ {"complete"} :
            batches' = [batches EXCEPT ![itemRun[t].batch].stage = stage]
      BY <2>4 DEF FillItems, OpenItemManifest, Filled, ManifestOpened, Stages
    <3>3. /\ \A u \in ItemCollectors : u # t => itemRun'[u] = itemRun[u]
          /\ itemRun'[t].pc = pc /\ itemRun'[t].left = itemRun[t].left
          /\ itemRun'[t].cache = itemRun[t].cache /\ itemRun'[t].batch = itemRun[t].batch
      BY <1>0, <2>2, <3>1 DEF ItemRuns
    <3>4. /\ DOMAIN batches' = DOMAIN batches
          /\ \A i \in DOMAIN batches : i # itemRun[t].batch => batches'[i] = batches[i]
          /\ batches'[itemRun[t].batch].of = batches[itemRun[t].batch].of
          /\ batches'[itemRun[t].batch].at = batches[itemRun[t].batch].at
          /\ batches'[itemRun[t].batch].stage = stage
      BY <1>0, <2>2, <3>2, StagedStore
    <3>5. ItemsWrote(t)
      BY <2>1, <2>2, <3>3, <3>4 DEF ItemsWrote, Writing
    <3> QED BY <3>3, <3>5 DEF ItemsMoved
  <2>5. CASE FillItemManifest(t)
    <3> DEFINE r == [itemRun[t] EXCEPT !.pc = "tmp", !.processed = @ + 1,
                                       !.cache[Current(itemRun[t])] = "stored"]
    <3>1. /\ itemRun' = [itemRun EXCEPT ![t] = r]
          /\ batches' = [batches EXCEPT ![itemRun[t].batch].stage = "complete"]
      BY <2>5 DEF FillItemManifest, ItemsUpdate, ManifestFilled
    <3>2. /\ r.pc = "tmp" /\ r.left = itemRun[t].left /\ r.cache[Current(itemRun[t])] # "none"
          /\ \A x \in Orders : itemRun[t].cache[x] # "none" => r.cache[x] # "none"
      <4>1. "stored" \in Entries \ {"none"}
        BY DEF Entries
      <4> QED BY <2>2, <2>3, <4>1, EnteredRun
    <3> HIDE DEF r
    <3>3. itemRun'[t] = r /\ \A u \in ItemCollectors : u # t => itemRun'[u] = itemRun[u]
      BY <1>0, <3>1
    <3>4. /\ DOMAIN batches' = DOMAIN batches
          /\ \A i \in DOMAIN batches : i # itemRun[t].batch => batches'[i] = batches[i]
          /\ batches'[itemRun[t].batch].of = batches[itemRun[t].batch].of
          /\ batches'[itemRun[t].batch].at = batches[itemRun[t].batch].at
          /\ batches'[itemRun[t].batch].stage = "complete"
      BY <1>0, <2>2, <3>1, StagedStore DEF Stages
    <3>5. ItemsWrote(t)
      BY <2>1, <2>2, <3>2, <3>3, <3>4 DEF ItemsWrote
    <3> QED BY <3>3, <3>5 DEF ItemsMoved
  <2> QED BY <1>5, <2>4, <2>5
<1>6. CASE FillTmp(t)
  <2>1. /\ itemRun[t].pc \in {"tmp", "tmpGone"} /\ openAs[t] # "none" /\ batches' = batches
        /\ openAs' = [openAs EXCEPT ![t] = "none"] /\ itemRun[t].pc # "idle" /\ overlapped' = overlapped
    BY <1>6 DEF FillTmp
  <2>2. PICK pc \in {"replace", "replaceGone"} : itemRun' = [itemRun EXCEPT ![t].pc = pc]
    BY <1>6 DEF FillTmp, ItemsGoto
  <2>3. itemRun[t] \in ItemRuns
    BY <2>1, ItemFacts
  <2>4. /\ \A u \in ItemCollectors : u # t => itemRun'[u] = itemRun[u]
        /\ itemRun'[t].pc = pc /\ itemRun'[t].left = itemRun[t].left /\ itemRun'[t].cache = itemRun[t].cache
    BY <1>0, <2>2, <2>3 DEF ItemRuns
  <2>5. openAs[t] = "tmp" /\ ~overlapped' => index' = index /\ tmp' = itemRun[t].cache
    BY <1>6, <2>1 DEF FillTmp, Filling
  <2> QED BY <2>1, <2>4, <2>5 DEF ItemsTmp, ItemsMoved
<1>11. CASE OpenTmp(t)
  BY <1>11 DEF OpenTmp, ItemsOpened, ItemsMoved
<1>7. CASE ReplaceIndex(t)
  <2>1. /\ itemRun[t].pc \in {"replace", "replaceGone"} /\ index' = tmp /\ batches' = batches
        /\ openAs' = [u \in ItemCollectors |-> NameAfter(openAs[u])]
        /\ itemRun' = [itemRun EXCEPT ![t] = Indexed(itemRun[t])] /\ itemRun[t].pc # "idle"
    BY <1>7 DEF ReplaceIndex, ItemsUpdate
  <2>2. /\ Indexed(itemRun[t]).pc = "next" /\ Indexed(itemRun[t]).left \subseteq itemRun[t].left
        /\ Indexed(itemRun[t]).cache = itemRun[t].cache
    BY <2>1, ItemFacts, IndexedRun
  <2>3. itemRun'[t] = Indexed(itemRun[t]) /\ \A u \in ItemCollectors : u # t => itemRun'[u] = itemRun[u]
    BY <1>0, <2>1
  <2> QED BY <2>1, <2>2, <2>3 DEF ItemsReplaced, ItemsMoved
<1>8. CASE ReplaceFails(t)
  <2>1. /\ itemRun[t].pc \in {"replace", "replaceGone"} /\ tmp = NoFile /\ batches' = batches
        /\ itemRun[t].pc # "idle"
    BY <1>8 DEF ReplaceFails, ItemsRaise
  <2>2. PICK q : itemRun' = [itemRun EXCEPT ![t] = q] /\ q \in {Idle, Passed(itemRun[t], TRUE)}
    BY <1>8 DEF ReplaceFails, ItemsRaise, ItemsUpdate
  <2>3. q.pc \in {"idle", "next"}
    <3>1. itemRun[t] \in ItemRuns
      BY <2>1, ItemFacts
    <3>2. Passed(itemRun[t], TRUE).pc = "next"
      BY <3>1, PassedRun
    <3>3. Idle.pc = "idle"
      BY DEF Idle
    <3> QED BY <2>2, <3>2, <3>3
  <2>4. itemRun'[t] = q /\ \A u \in ItemCollectors : u # t => itemRun'[u] = itemRun[u]
    BY <1>0, <2>2
  <2> QED BY <2>1, <2>3, <2>4 DEF ItemsLost, ItemsMoved
<1>9. CASE FinishItems(t)
  <2>1. /\ itemRun[t].pc = "next" /\ itemRun' = [itemRun EXCEPT ![t] = Idle]
        /\ UNCHANGED <<batches, index, tmp, openAs, unreadable>>
    BY <1>9 DEF FinishItems, ItemsAt, ItemsUpdate, IndexFilesUnchanged
  <2>2. itemRun'[t].pc = "idle" /\ \A u \in ItemCollectors : u # t => itemRun'[u] = itemRun[u]
    BY <1>0, <2>1 DEF Idle
  <2> QED BY <2>1, <2>2 DEF ItemsFinished, ItemsMoved
<1>10. CASE ItemsFail(t)
  BY <1>0, <1>10 DEF ItemsFail
<1> QED BY <1>1, <1>2, <1>3, <1>4, <1>5, <1>6, <1>7, <1>8, <1>9, <1>10, <1>11 DEF ItemStep

LEMMA MovesGrow ==
  /\ \A c \in Collectors : PageMoved(c) => Grows
  /\ \A t \in ItemCollectors : ItemsMoved(t) => Grows
<1>1. ASSUME NEW c \in Collectors, PageMoved(c)
      PROVE  Grows
  BY <1>1 DEF PageMoved, PageBegun, PageRead, PageWrote, PageSaved, PageWaited, PageStopped, Grows
<1>2. ASSUME NEW t \in ItemCollectors, ItemsMoved(t)
      PROVE  Grows
  BY <1>2 DEF ItemsMoved, ItemsBegun, ItemsRead, ItemsWrote, ItemsGone, ItemsOpened, ItemsTmp, ItemsReplaced, ItemsPassed,
              ItemsLost, ItemsFinished, Grows
<1> QED BY <1>1, <1>2

\* The orders that are in the store stay there.
LEMMA OrderIdsGrow ==
  ASSUME Grows
  PROVE  \A o : o \in OrderIds => o \in OrderIds'
BY DEF Grows, OrderIds, Canonical, OfResource, Selected, Records

-----------------------------------------------------------------------------
(* One pass over the orders' items                                         *)

\* The keys of item batches are orders.
LEMMA ItemKeys ==
  ASSUME CommerceInv
  PROVE  \A i \in OfResource(batches, "order_items") : batches[i].at \in Orders
<1>1. CommerceTypeOK
  BY DEF CommerceInv
<1>2. \A i \in DOMAIN batches : batches[i] \in PageBatches \union ItemBatches
  BY <1>1, StoreTyped DEF Batches
<1> QED BY <1>2, CommerceAssumption DEF OfResource, PageBatches, ItemBatches

\* A step of the one run there is.
LEMMA OnlyItemRun ==
  ASSUME NEW t \in ItemCollectors, ItemsMoved(t), \A u \in ItemCollectors : u # t => itemRun'[u] = itemRun[u],
         ~overlapped', OneItemRun
  PROVE  /\ \A u \in ItemCollectors : u # t => itemRun[u].pc = "idle" /\ itemRun'[u].pc = "idle"
         /\ OneItemRun'
<1>1. \A u \in ItemCollectors : u # t => itemRun[u].pc = "idle"
  <2>1. CASE ItemsBegun(t)
    BY <2>1 DEF ItemsBegun
  <2>2. CASE ~ItemsBegun(t)
    <3>1. itemRun[t].pc # "idle"
      BY <2>2 DEF ItemsMoved, ItemsRead, ItemsWrote, ItemsGone, ItemsOpened, ItemsTmp, ItemsReplaced, ItemsPassed,
                  ItemsLost, ItemsFinished, Writing
    <3> QED BY <3>1 DEF OneItemRun
  <2> QED BY <2>1, <2>2
<1> QED BY <1>1 DEF OneItemRun

\* What the run's copy lists is what the index lists, and more.
LEMMA CopyStaysCurrent ==
  ASSUME CommerceInv, NEW t \in ItemCollectors, ItemsMoved(t), CopyIsCurrent(t), ~overlapped'
  PROVE  CopyIsCurrent(t)'
<1>1. \A o : o \in OrderIds => o \in OrderIds'
  BY MovesGrow, OrderIdsGrow
<1>0. openAs \in [ItemCollectors -> FileNames \union {"none", "gone"}]
  BY DEF CommerceInv, CommerceTypeOK, ItemTypeOK
<1>2. CASE ItemsBegun(t)
  BY <1>1, <1>2 DEF ItemsBegun, CopyIsCurrent, Writing
<1>3. CASE ItemsRead(t)
  BY <1>1, <1>3 DEF ItemsRead, CopyIsCurrent, Writing
<1>4. CASE ItemsWrote(t)
  BY <1>1, <1>4 DEF ItemsWrote, CopyIsCurrent, Writing
<1>5. CASE ItemsGone(t)
  BY <1>1, <1>5 DEF ItemsGone, CopyIsCurrent, Writing
<1>6. CASE ItemsTmp(t)
  BY <1>0, <1>1, <1>6 DEF ItemsTmp, CopyIsCurrent, Writing
<1>7. CASE ItemsReplaced(t)
  BY <1>0, <1>1, <1>7 DEF ItemsReplaced, CopyIsCurrent, Writing, NameAfter
<1>10. CASE ItemsOpened(t)
  BY <1>0, <1>1, <1>10 DEF ItemsOpened, CopyIsCurrent, Writing
<1>8. CASE ItemsPassed(t) \/ ItemsFinished(t)
  BY <1>1, <1>8 DEF ItemsPassed, ItemsFinished, CopyIsCurrent, Writing
<1>9. CASE ItemsLost(t)
  <2>1. itemRun[t].cache = NoFile /\ itemRun[t].pc # "idle"
    BY <1>9 DEF ItemsLost, CopyIsCurrent
  <2>2. itemRun[t].cache \in Indexes
    BY <2>1, ItemFacts
  <2> QED BY <2>1, <2>2, NoFileAssumption
<1> QED BY <1>2, <1>3, <1>4, <1>5, <1>6, <1>7, <1>8, <1>9, <1>10 DEF ItemsMoved

\* A batch that is there stays listed.
LEMMA StaysListed ==
  ASSUME CommerceInv, NEW t \in ItemCollectors, ItemsMoved(t), \A u \in ItemCollectors : u # t => itemRun[u].pc = "idle",
         ~overlapped', CopyIsCurrent(t), CopyIsCurrent(t)', NEW i \in OfResource(batches, "order_items"), ItemIsListed(i)
  PROVE  ItemIsListed(i)'
<1>0. PICK a \in Orders : a = batches[i].at
  BY ItemKeys
<1>1. batches'[i].at = a
  BY <1>0, MovesGrow DEF Grows, OfResource
<1>2. \/ index[a] # "none"
      \/ itemRun[t].pc # "idle" /\ itemRun[t].cache[a] # "none"
      \/ Writing(itemRun[t]) /\ itemRun[t].batch = i
  BY <1>0 DEF ItemIsListed
<1> SUFFICES \/ index'[a] # "none"
             \/ /\ itemRun'[t].pc # "idle"
                /\ \/ itemRun'[t].cache[a] # "none"
                   \/ Writing(itemRun'[t]) /\ itemRun'[t].batch = i
  BY <1>1 DEF ItemIsListed, Writing
<1>3. CASE ItemsBegun(t)
  BY <1>2, <1>3 DEF ItemsBegun, Writing
<1>4. CASE ItemsRead(t)
  BY <1>2, <1>4 DEF ItemsRead, Writing
<1>5. CASE ItemsWrote(t)
  BY <1>0, <1>2, <1>5 DEF ItemsWrote, Writing
<1>6. CASE ItemsGone(t)
  BY <1>2, <1>6 DEF ItemsGone, Writing
<1>7. CASE ItemsTmp(t)
  BY <1>2, <1>7 DEF ItemsTmp, Writing, CopyIsCurrent
<1>8. CASE ItemsReplaced(t)
  BY <1>2, <1>8 DEF ItemsReplaced, Writing, CopyIsCurrent
<1>9. CASE ItemsPassed(t)
  BY <1>2, <1>9 DEF ItemsPassed, Writing
<1>12. CASE ItemsOpened(t)
  BY <1>2, <1>12 DEF ItemsOpened, Writing
<1>10. CASE ItemsFinished(t)
  BY <1>2, <1>10 DEF ItemsFinished, Writing, CopyIsCurrent
<1>11. CASE ItemsLost(t)
  <2>1. itemRun[t].cache = NoFile /\ itemRun[t].pc # "idle"
    BY <1>11 DEF ItemsLost, CopyIsCurrent
  <2>2. itemRun[t].cache \in Indexes
    BY <2>1, ItemFacts
  <2> QED BY <2>1, <2>2, NoFileAssumption
<1> QED BY <1>3, <1>4, <1>5, <1>6, <1>7, <1>8, <1>9, <1>10, <1>11, <1>12 DEF ItemsMoved

LEMMA ItemsKept ==
  ASSUME CommerceInv, NEW t \in ItemCollectors, ItemsMoved(t), \A u \in ItemCollectors : u # t => itemRun'[u] = itemRun[u],
         ~overlapped', ItemsInOnePass
  PROVE  ItemsInOnePass'
<1>1. /\ \A u \in ItemCollectors : u # t => itemRun[u].pc = "idle" /\ itemRun'[u].pc = "idle"
      /\ OneItemRun'
  BY OnlyItemRun DEF ItemsInOnePass
<1>2. CopyIsCurrent(t) /\ CopyIsCurrent(t)'
  BY CopyStaysCurrent DEF ItemsInOnePass
<1>3. ASSUME NEW u \in ItemCollectors PROVE CopyIsCurrent(u)'
  <2>1. CASE u = t BY <1>2, <2>1
  <2>2. CASE u # t
    <3>1. itemRun[u].pc = "idle" /\ itemRun'[u].pc = "idle" BY <1>1, <2>2
    <3>2. openAs[u] = "none" BY <3>1 DEF ItemsInOnePass, CopyIsCurrent
    <3>3. openAs \in [ItemCollectors -> FileNames \union {"none", "gone"}]
      BY DEF CommerceInv, CommerceTypeOK, ItemTypeOK
    <3>4. ~ItemsLost(t)
      <4>1. ItemsLost(t) => itemRun[t].cache = NoFile /\ itemRun[t].pc # "idle" BY <1>2 DEF ItemsLost, CopyIsCurrent
      <4>2. itemRun[t].pc # "idle" => itemRun[t].cache \in Indexes BY ItemFacts
      <4> QED BY <4>1, <4>2, NoFileAssumption
    <3>5. openAs'[u] = "none"
      BY <2>2, <3>2, <3>3, <3>4 DEF ItemsMoved, ItemsBegun, ItemsRead, ItemsWrote, ItemsGone, ItemsOpened, ItemsTmp,
                                    ItemsReplaced, ItemsPassed, ItemsFinished, NameAfter
    <3> QED BY <3>1, <3>5 DEF CopyIsCurrent
  <2> QED BY <2>1, <2>2
<1>4. ASSUME NEW i \in OfResource(batches, "order_items")
      PROVE  /\ batches'[i].at = batches[i].at /\ batches'[i].at \in OrderIds' /\ ItemIsListed(i)'
  <2>1. batches[i].at \in OrderIds /\ ItemIsListed(i)
    BY DEF ItemsInOnePass
  <2>2. batches'[i].at = batches[i].at
    BY MovesGrow DEF Grows, OfResource
  <2>3. \A o : o \in OrderIds => o \in OrderIds'
    BY MovesGrow, OrderIdsGrow
  <2> QED BY <1>1, <1>2, <2>1, <2>2, <2>3, StaysListed
<1>5. CASE ItemsRead(t)
  <2>0. PICK n, o : n = itemRun'[t].batch /\ o = Current(itemRun[t])
    OBVIOUS
  <2>1. /\ OfResource(batches', "order_items") = OfResource(batches, "order_items") \union {n}
        /\ batches'[n].at = o
    BY <1>5, <2>0 DEF ItemsRead, OfResource
  <2>2. o \in OrderIds'
    <3>1. o \in OrderIds
      BY <1>2, <1>5, <2>0 DEF ItemsRead, CopyIsCurrent
    <3> QED BY <3>1, MovesGrow, OrderIdsGrow
  <2>3. ItemIsListed(n)'
    BY <1>5, <2>0 DEF ItemsRead, ItemIsListed, Writing
  <2>4. ASSUME NEW i \in OfResource(batches, "order_items")
        PROVE  batches'[i].at # o
    <3>1. ItemIsListed(i) /\ batches'[i].at = batches[i].at
      BY <1>4 DEF ItemsInOnePass
    <3>2. /\ itemRun[t].cache[o] = "none" /\ itemRun[t].cache = index /\ ~Writing(itemRun[t])
      BY <1>2, <1>5, <2>0 DEF ItemsRead, CopyIsCurrent, Writing
    <3> QED BY <1>1, <3>1, <3>2 DEF ItemIsListed, Writing
  <2>5. ItemsOnce'
    BY <1>4, <2>1, <2>4 DEF ItemsInOnePass, ItemsOnce
  <2> QED BY <1>1, <1>3, <1>4, <2>1, <2>2, <2>3, <2>5 DEF ItemsInOnePass
<1>6. CASE ~ItemsRead(t)
  <2>1. OfResource(batches', "order_items") = OfResource(batches, "order_items")
    BY <1>6 DEF ItemsMoved, ItemsBegun, ItemsWrote, ItemsGone, ItemsOpened, ItemsTmp, ItemsReplaced, ItemsPassed,
                ItemsLost, ItemsFinished, OfResource
  <2>2. ItemsOnce'
    BY <1>4, <2>1 DEF ItemsInOnePass, ItemsOnce
  <2> QED BY <1>1, <1>3, <1>4, <2>1, <2>2 DEF ItemsInOnePass
<1> QED BY <1>5, <1>6

-----------------------------------------------------------------------------
(* Clean collections pass the report                                       *)

\* Whoever completes its batch or never begins one leaves nothing over.
LEMMA PageLeavesNothing ==
  ASSUME NEW c \in Collectors, PageMoved(c), \A d \in Collectors : d # c => run'[d] = run[d],
         itemRun' = itemRun, NothingLeftOver
  PROVE  NothingLeftOver'
<1> SUFFICES ASSUME NEW i \in DOMAIN batches', batches'[i].stage # "complete"
             PROVE  \/ \E d \in Collectors : Writing(run'[d]) /\ run'[d].batch = i
                    \/ \E t \in ItemCollectors : Writing(itemRun[t]) /\ itemRun[t].batch = i
  BY DEF NothingLeftOver, Writing
<1>1. CASE PageRead(c)
  <2>1. CASE i = run'[c].batch
    BY <1>1, <2>1 DEF PageRead, Writing
  <2>2. CASE i # run'[c].batch
    BY <1>1, <2>2 DEF PageRead, Writing, NothingLeftOver
  <2> QED BY <2>1, <2>2
<1>2. CASE PageWrote(c)
  <2>1. CASE i = run[c].batch
    BY <1>2, <2>1 DEF PageWrote
  <2>2. CASE i # run[c].batch
    BY <1>2, <2>2 DEF PageWrote, NothingLeftOver
  <2> QED BY <2>1, <2>2
<1>3. CASE ~PageRead(c) /\ ~PageWrote(c)
  <2>1. batches' = batches /\ ~Writing(run[c])
    BY <1>3 DEF PageMoved, PageBegun, PageSaved, PageWaited, PageStopped, Writing
  <2> QED BY <2>1 DEF NothingLeftOver
<1> QED BY <1>1, <1>2, <1>3

LEMMA ItemsLeaveNothing ==
  ASSUME NEW t \in ItemCollectors, ItemsMoved(t), \A u \in ItemCollectors : u # t => itemRun'[u] = itemRun[u],
         run' = run, NothingLeftOver
  PROVE  NothingLeftOver'
<1> SUFFICES ASSUME NEW i \in DOMAIN batches', batches'[i].stage # "complete"
             PROVE  \/ \E d \in Collectors : Writing(run[d]) /\ run[d].batch = i
                    \/ \E u \in ItemCollectors : Writing(itemRun'[u]) /\ itemRun'[u].batch = i
  BY DEF NothingLeftOver, Writing
<1>1. CASE ItemsRead(t)
  <2>1. CASE i = itemRun'[t].batch
    BY <1>1, <2>1 DEF ItemsRead, Writing
  <2>2. CASE i # itemRun'[t].batch
    BY <1>1, <2>2 DEF ItemsRead, Writing, NothingLeftOver
  <2> QED BY <2>1, <2>2
<1>2. CASE ItemsWrote(t)
  <2>1. CASE i = itemRun[t].batch
    BY <1>2, <2>1 DEF ItemsWrote
  <2>2. CASE i # itemRun[t].batch
    BY <1>2, <2>2 DEF ItemsWrote, NothingLeftOver
  <2> QED BY <2>1, <2>2
<1>3. CASE ~ItemsRead(t) /\ ~ItemsWrote(t)
  <2>1. batches' = batches /\ ~Writing(itemRun[t])
    BY <1>3 DEF ItemsMoved, ItemsBegun, ItemsGone, ItemsOpened, ItemsTmp, ItemsReplaced, ItemsPassed,
                ItemsLost, ItemsFinished, Writing
  <2> QED BY <2>1 DEF NothingLeftOver
<1> QED BY <1>1, <1>2, <1>3

\* Page runs and order-item runs do not disturb each other.
LEMMA PagesLeaveItems ==
  ASSUME CommerceInv, NEW c \in Collectors, PageMoved(c), UNCHANGED itemVars, ItemsInOnePass
  PROVE  ItemsInOnePass'
<1>1. UNCHANGED <<index, tmp, openAs, itemRun>>
  BY DEF itemVars
<1>2. SameBatches("order_items")
  <2>1. run[c].pc # "idle" => run[c].of # "order_items"
    BY RunFacts, CommerceAssumption
  <2> QED BY <2>1, OtherBatches
<1>3. \A o : o \in OrderIds => o \in OrderIds'
  BY MovesGrow, OrderIdsGrow
<1>4. \A i \in OfResource(batches, "order_items") :
        batches'[i].at = batches[i].at /\ batches'[i].at \in OrderIds' /\ ItemIsListed(i)'
  BY <1>1, <1>2, <1>3 DEF SameBatches, ItemsInOnePass, ItemIsListed, Writing
<1>5. OneItemRun' /\ ItemsOnce'
  BY <1>1, <1>2 DEF ItemsInOnePass, OneItemRun, ItemsOnce, SameBatches
<1>6. \A t \in ItemCollectors : CopyIsCurrent(t)'
  BY <1>1, <1>3 DEF ItemsInOnePass, CopyIsCurrent, Writing
<1> QED BY <1>2, <1>4, <1>5, <1>6 DEF SameBatches, ItemsInOnePass

LEMMA ItemsLeavePages ==
  ASSUME CommerceInv, NEW t \in ItemCollectors, ItemsMoved(t), UNCHANGED collectVars, OrdersInOnePass
  PROVE  OrdersInOnePass'
<1>1. UNCHANGED <<progress, run>>
  BY DEF collectVars
<1>2. SameBatches("orders")
  <2>1. CASE ItemsRead(t)
    <3>1. OfResource(batches', "orders") = OfResource(batches, "orders")
      BY <2>1 DEF ItemsRead, OfResource
    <3> QED BY <2>1, <3>1 DEF ItemsRead, SameBatches, OfResource
  <2>2. CASE ItemsWrote(t)
    <3>1. /\ OfResource(batches', "orders") = OfResource(batches, "orders")
          /\ itemRun[t].batch \notin OfResource(batches, "orders")
      BY <2>2 DEF ItemsWrote, OfResource
    <3> QED BY <2>2, <3>1 DEF ItemsWrote, SameBatches, OfResource
  <2>3. CASE batches' = batches
    BY <2>3 DEF SameBatches
  <2> QED BY <2>1, <2>2, <2>3 DEF ItemsMoved, ItemsBegun, ItemsGone, ItemsOpened, ItemsTmp, ItemsReplaced, ItemsPassed,
                                  ItemsLost, ItemsFinished
<1>3. OrdersStand
  BY <1>1, <1>2, SameStored DEF OrdersStand, OrderFiles, Ordering
<1> QED BY <1>2, <1>3, SamePagesOnce, OnePassStands DEF OrdersInOnePass

\* What happened stays in the history.
LEMMA HistoryStays ==
  ASSUME CommerceInv, CommerceNext
  PROVE  /\ faults' = 0 => faults = 0 /\ ~CommerceCrash
         /\ ~again' => ~again
         /\ ~overlapped' => ~overlapped
<1>1. faults \in Nat
  BY DEF CommerceInv, CommerceTypeOK, CollectTypeOK
<1>2. CASE \E c \in Collectors : CollectStep(c) /\ UNCHANGED itemVars
  <2>1. PICK c \in Collectors : CollectStep(c) /\ UNCHANGED itemVars
    BY <1>2
  <2>2. faults' \in {faults, faults + 1} /\ (~again' => ~again)
    <3>1. CASE BeginOrders(c) \/ BeginRefunds(c)
      BY <3>1 DEF BeginOrders, BeginRefunds, Begin
    <3>2. CASE Fail(c)
      BY <3>2 DEF Fail
    <3>3. CASE PageStep(c) \/ Finish(c, AtEnd(c))
      <4>1. UNCHANGED <<again, faults>>
        BY <3>3 DEF PageStep, ReadPage, RateLimited, FillPage, OpenManifest, FillManifest, SaveProgress, Finish
      <4> QED BY <4>1
    <3> QED BY <2>1, <3>1, <3>2, <3>3 DEF CollectStep
  <2>3. overlapped' = overlapped
    BY <2>1 DEF itemVars
  <2>4. faults' = 0 => ~CommerceCrash
    BY <1>1 DEF CommerceCrash
  <2> QED BY <1>1, <2>2, <2>3, <2>4
<1>3. CASE \E t \in ItemCollectors : ItemStep(t) /\ UNCHANGED collectVars
  <2>1. PICK t \in ItemCollectors : ItemStep(t) /\ UNCHANGED collectVars
    BY <1>3
  <2>2. faults' \in {faults, faults + 1} /\ (~overlapped' => ~overlapped)
    <3>1. CASE BeginItems(t)
      BY <3>1 DEF BeginItems
    <3>2. CASE ItemsFail(t)
      BY <3>2 DEF ItemsFail, ItemsRaise, FilesUnchanged, IndexFilesUnchanged
    <3>3. CASE ~BeginItems(t) /\ ~ItemsFail(t)
      <4>1. UNCHANGED <<overlapped, faults>>
        <5>1. CASE SkipIndexed(t) \/ ReadItems(t) \/ SourceMissing(t) \/ ItemsRateLimited(t)
          BY <5>1 DEF SkipIndexed, ReadItems, SourceMissing, ItemsRateLimited, FilesUnchanged, IndexFilesUnchanged
        <5>2. CASE FillItems(t) \/ OpenItemManifest(t) \/ FillItemManifest(t) \/ OpenTmp(t) \/ FillTmp(t)
          BY <5>2 DEF FillItems, OpenItemManifest, FillItemManifest, OpenTmp, FillTmp, FilesUnchanged, IndexFilesUnchanged
        <5>3. CASE ReplaceIndex(t) \/ ReplaceFails(t) \/ FinishItems(t)
          BY <5>3 DEF ReplaceIndex, ReplaceFails, ItemsRaise, FinishItems, FilesUnchanged, IndexFilesUnchanged
        <5> QED BY <2>1, <3>3, <5>1, <5>2, <5>3 DEF ItemStep
      <4> QED BY <4>1
    <3> QED BY <3>1, <3>2, <3>3
  <2>3. again' = again
    BY <2>1 DEF collectVars
  <2>4. faults' = 0 => ~CommerceCrash
    BY <1>1 DEF CommerceCrash
  <2> QED BY <1>1, <2>2, <2>3, <2>4
<1>4. CASE CommerceCrash
  BY <1>1, <1>4 DEF CommerceCrash
<1> QED BY <1>2, <1>3, <1>4 DEF CommerceNext

LEMMA CleanInitially == CommerceInit => CleanInv
<1> SUFFICES ASSUME CommerceInit PROVE CleanInv
  OBVIOUS
<1>1. /\ batches = <<>> /\ progress = <<>> /\ openAs = [t \in ItemCollectors |-> "none"]
      /\ run = [c \in Collectors |-> Idle] /\ itemRun = [t \in ItemCollectors |-> Idle]
  BY DEF CommerceInit, CollectInit, ItemInit
<1>2. DOMAIN batches = {} /\ DOMAIN progress = {}
  BY <1>1
<1>3. \A c \in Collectors : ~Ordering(c)
  BY <1>1 DEF Ordering, Idle
<1>4. OfResource(batches, "orders") = {} /\ OfResource(batches, "order_items") = {} /\ OrderFiles = {}
  BY <1>2 DEF OfResource, OrderFiles
<1>5. NothingLeftOver
  BY <1>2 DEF NothingLeftOver
<1>6. Frontier(First) /\ First \in Places("orders")
  <2>1. \A y \in Pages("orders") : ~Stored(y, "orders")
    BY <1>4 DEF Stored, Canonical
  <2>2. \A y \in Pages("orders") : ~Before(y, First)
    <3> SUFFICES ASSUME NEW y \in Pages("orders") PROVE ~Before(y, First)
      OBVIOUS
    <3>1. PICK v \in 1 .. Windows["orders"] : \E q \in 1 .. PagesIn["orders"][v] : y = [w |-> v, p |-> q]
      BY PagesOf, CommerceAssumption
    <3>2. PICK q \in 1 .. PagesIn["orders"][v] : y = [w |-> v, p |-> q]
      BY <3>1
    <3>3. v \in Nat /\ q \in Nat /\ v >= 1 /\ q >= 1
      BY PagesOf, CommerceAssumption
    <3> QED BY <3>2, <3>3 DEF Before, First
  <2>3. First \in Places("orders")
    BY PagesOf, CommerceAssumption DEF Places
  <2> QED BY <1>3, <1>4, <2>1, <2>2, <2>3 DEF Frontier, OrderRunAt
<1>7. OrdersInOnePass
  BY <1>3, <1>4, <1>6 DEF OrdersInOnePass, PagesOnce, OnePass, OneOrderRun, Started
<1>8. ItemsInOnePass
  BY <1>1, <1>4 DEF ItemsInOnePass, OneItemRun, ItemsOnce, CopyIsCurrent, Idle
<1> QED BY <1>5, <1>7, <1>8 DEF CleanInv

LEMMA CleanStep == CommerceInv /\ CleanInv /\ [CommerceNext]_commerceVars => CleanInv'
<1> SUFFICES ASSUME CommerceInv, CleanInv, [CommerceNext]_commerceVars
             PROVE  CleanInv'
  OBVIOUS
<1>1. ASSUME NEW c \in Collectors, CollectStep(c), UNCHANGED itemVars, faults' = 0, CommerceNext
      PROVE  /\ NothingLeftOver'
             /\ ~again' => OrdersInOnePass'
             /\ ~overlapped' => ItemsInOnePass'
  <2>1. PageMoved(c) /\ (\A d \in Collectors : d # c => run'[d] = run[d]) /\ itemRun' = itemRun
    BY <1>1, PageSteps DEF itemVars
  <2>2. NothingLeftOver
    BY <1>1, HistoryStays DEF CleanInv
  <2>3. NothingLeftOver'
    BY <2>1, <2>2, PageLeavesNothing
  <2>4. ~again' => OrdersInOnePass'
    BY <1>1, <2>1, <2>2, HistoryStays, OrdersKept DEF CleanInv
  <2>5. ~overlapped' => ItemsInOnePass'
    BY <1>1, <2>1, HistoryStays, PagesLeaveItems DEF CleanInv
  <2> QED BY <2>3, <2>4, <2>5
<1>2. ASSUME NEW t \in ItemCollectors, ItemStep(t), UNCHANGED collectVars, faults' = 0, CommerceNext
      PROVE  /\ NothingLeftOver'
             /\ ~again' => OrdersInOnePass'
             /\ ~overlapped' => ItemsInOnePass'
  <2>1. ItemsMoved(t) /\ (\A u \in ItemCollectors : u # t => itemRun'[u] = itemRun[u]) /\ run' = run
    BY <1>2, ItemSteps DEF collectVars
  <2>2. NothingLeftOver
    BY <1>2, HistoryStays DEF CleanInv
  <2>3. NothingLeftOver'
    BY <2>1, <2>2, ItemsLeaveNothing
  <2>4. ~again' => OrdersInOnePass'
    BY <1>2, <2>1, HistoryStays, ItemsLeavePages DEF CleanInv
  <2>5. ~overlapped' => ItemsInOnePass'
    BY <1>2, <2>1, HistoryStays, ItemsKept DEF CleanInv
  <2> QED BY <2>3, <2>4, <2>5
<1>3. CASE CommerceNext
  <2>1. CASE faults' # 0
    BY <2>1 DEF CleanInv
  <2>2. CASE faults' = 0
    BY <1>1, <1>2, <1>3, <2>2, HistoryStays DEF CommerceNext, CleanInv
  <2> QED BY <2>1, <2>2
<1>4. CASE UNCHANGED commerceVars
  <2>1. UNCHANGED <<batches, progress, run, again, index, tmp, openAs, unreadable, itemRun, overlapped, faults>>
    BY <1>4 DEF commerceVars, collectVars, itemVars
  <2>2. NothingLeftOver => NothingLeftOver'
    BY <2>1 DEF NothingLeftOver, Writing
  <2>3. OrdersInOnePass => OrdersInOnePass'
    <3>1. SameBatches("orders")
      BY <2>1 DEF SameBatches
    <3>2. OrdersStand
      BY <2>1, <3>1, SameStored DEF OrdersStand, OrderFiles, Ordering
    <3> QED BY <3>1, <3>2, SamePagesOnce, OnePassStands DEF OrdersInOnePass
  <2>4. ItemsInOnePass => ItemsInOnePass'
    BY <2>1 DEF ItemsInOnePass, OneItemRun, ItemsOnce, ItemIsListed, CopyIsCurrent, OfResource, OrderIds,
                Canonical, Selected, Records, Writing
  <2> QED BY <2>1, <2>2, <2>3, <2>4 DEF CleanInv
<1> QED BY <1>3, <1>4

\* The invariant of a clean collection holds in every reachable state.
THEOREM CleanInvariance == CommerceSpec => []CleanInv
BY CommerceInvariance, CleanInitially, CleanStep, PTL DEF CommerceSpec

\* The source lists an order on one page, and refunds of its orders only.
EachOrderOnOnePage ==
  \A x, y \in Pages("orders") :
    x # y => RecordsOn["orders"][x.w][x.p] \cap RecordsOn["orders"][y.w][y.p] = {}
RefundsAreOfOrders == \A x \in Pages("refunds") : RecordsOn["refunds"][x.w][x.p] \subseteq AllOrders

LEMMA CollectedPasses ==
  ASSUME EachOrderOnOnePage, RefundsAreOfOrders, CommerceInv, CleanInv
  PROVE  CleanCollectionPasses
<1> SUFFICES ASSUME Clean, Collected PROVE ReportPasses
  BY DEF CleanCollectionPasses
<1>0. /\ NothingLeftOver /\ OrdersInOnePass /\ ItemsInOnePass
      /\ {"orders", "refunds"} \subseteq Resources
  BY CommerceAssumption DEF Clean, CleanInv
<1>1. \A i \in DOMAIN batches : batches[i].stage = "complete"
  BY <1>0 DEF Collected, At, ItemsAt, NothingLeftOver, Writing
<1>2. \A i \in OfResource(batches, "orders") : batches[i].at \in Pages("orders")
  BY <1>0 DEF CommerceInv, PageInv, PlacedInv, OfResource
<1>3. NoDuplicates("orders", Records)
  BY <1>0, <1>2 DEF NoDuplicates, OrdersInOnePass, PagesOnce, Canonical, EachOrderOnOnePage, Records, OfResource
<1>4. NoDuplicates("order_items", LAMBDA b : {b.at})
  BY <1>0 DEF NoDuplicates, ItemsInOnePass, ItemsOnce, Canonical
<1>5. ItemOrders \subseteq OrderIds
  BY <1>0 DEF ItemOrders, ItemsInOnePass, Canonical
<1>6. \A y \in Pages("orders") : Stored(y, "orders")
  <2>1. PICK x \in Places("orders") : Frontier(x)
    BY <1>0 DEF OrdersInOnePass, OnePass
  <2>2. PICK i \in OrderFiles : progress[i].status = "COMPLETED"
    BY DEF Collected, OrderFiles
  <2>3. progress[i].next = End("orders") /\ ~Started(End("orders"))
    BY <1>0, <2>2 DEF OrdersInOnePass, OnePass
  <2>4. x = End("orders")
    BY <2>1, <2>3 DEF Frontier, FileLeads, Ordering, Collected, At
  <2> QED BY <1>0, <2>1, <2>4, FollowingBefore DEF Frontier
<1>7. AllOrders \subseteq OrderIds
  <2> SUFFICES ASSUME NEW o \in AllOrders PROVE o \in OrderIds
    OBVIOUS
  <2>1. PICK v \in 1 .. Windows["orders"] : \E q \in 1 .. PagesIn["orders"][v] : o \in RecordsOn["orders"][v][q]
    BY DEF AllOrders
  <2>2. PICK q \in 1 .. PagesIn["orders"][v] : o \in RecordsOn["orders"][v][q]
    BY <2>1
  <2>3. [w |-> v, p |-> q] \in Pages("orders")
    BY <1>0, <2>2, PagesOf
  <2>4. PICK i \in Canonical(batches, "orders") : batches[i].at = [w |-> v, p |-> q]
    BY <1>6, <2>3 DEF Stored
  <2>5. Records(batches[i]) = RecordsOn["orders"][v][q]
    BY <2>4 DEF Records, Canonical, OfResource
  <2> QED BY <2>2, <2>5 DEF OrderIds
<1>8. RefundOrders \subseteq OrderIds
  <2> SUFFICES ASSUME NEW o \in RefundOrders PROVE o \in AllOrders
    BY <1>7
  <2>1. PICK i \in Canonical(batches, "refunds") : o \in Records(batches[i])
    BY DEF RefundOrders
  <2>2. batches[i].at \in Pages("refunds") /\ batches[i].of = "refunds"
    BY <1>0 DEF Canonical, OfResource, CommerceInv, PageInv, PlacedInv
  <2> QED BY <2>1, <2>2 DEF Records, RefundsAreOfOrders
<1>9. AllOrders \ GoneOrders \subseteq ItemOrders
  <2>1. PICK r \in reports : Completed(r) /\ r.ids = OrderIds
    BY DEF Collected
  <2>2. \A o \in OrderIds : Settled(o)
    BY <2>1 DEF CommerceInv, ItemInv, CompletedRunIsWhole
  <2> QED BY <1>7, <2>2 DEF Settled, Stored, ItemOrders
<1>10. \A res : ~HasMissing(batches, res) /\ ~HasInvalid(batches, res)
  BY <1>1 DEF HasMissing, HasInvalid, MissingManifest, InvalidArtifact, OfResource
<1> QED BY <1>3, <1>4, <1>5, <1>7, <1>8, <1>9, <1>10 DEF ReportPasses

\* A collection that never failed or overlapped, however often it met rate
\* limits, stopped at a limit and was resumed, passes the integrity report:
\* every order and its items are there once, and no artifact is left over.
THEOREM CleanCollections ==
  ASSUME EachOrderOnOnePage, RefundsAreOfOrders
  PROVE  CommerceSpec => []CleanCollectionPasses
<1>1. CommerceInv /\ CleanInv => CleanCollectionPasses
  BY CollectedPasses
<1> QED BY <1>1, CommerceInvariance, CleanInvariance, PTL

-----------------------------------------------------------------------------
(* The catalog                                                             *)

CatalogBatches == [of : Resources, at : Positions, stage : Stages]

CatalogTypes ==
  /\ batches \in Seq(CatalogBatches)
  /\ progress \in Seq(ProgressFiles)
  /\ run \in [Collectors -> Runs \union {Idle}]
  /\ astray \in BOOLEAN

\* A run writes its own progress file and, while it writes one, its own batch.
CatalogRunOK(c) ==
  LET r == run[c] IN
  r.pc # "idle" =>
    /\ r.id \in DOMAIN progress /\ progress[r.id].of = r.of
    /\ r.at \in Places(r.of)
    /\ Writing(r) => /\ r.at \in Pages(r.of) /\ r.batch \in DOMAIN batches
                     /\ batches[r.batch].of = r.of /\ batches[r.batch].at = r.at
                     /\ r.pc = "fill" => batches[r.batch].stage = "sanitizing"

\* Every page before a position has a batch with a manifest, torn or whole.
Covered(res, pos) == \A x \in Pages(res) : Before(x, pos) => Named(res, x)

\* Unless a run went astray, everything before a run, before the position that
\* a progress file names next and in a range reported complete is covered.
FileCovered(f) ==
  /\ Covered(f.of, f.next)
  /\ f.status = "COMPLETED" => Covered(f.of, End(f.of))

CatalogCovered ==
  /\ \A i \in DOMAIN progress : FileCovered(progress[i])
  /\ \A c \in Collectors : run[c].pc # "idle" => Covered(run[c].of, run[c].at)

CatalogInv ==
  /\ CatalogTypes
  /\ \A c \in Collectors : CatalogRunOK(c)
  /\ PagesApart
  /\ \A i \in DOMAIN progress : progress[i].next \in Places(progress[i].of)
  /\ ~astray => CatalogCovered

\* What a step does to the store: batches stay where they are, a manifest stays,
\* and the run that steps touches only the batch that it writes.
CatalogStore(c) ==
  /\ batches' \in Seq(CatalogBatches)
  /\ \A i \in DOMAIN batches :
       /\ i \in DOMAIN batches'
       /\ batches'[i].of = batches[i].of /\ batches'[i].at = batches[i].at
       /\ batches[i].stage \in {"manifesting", "complete"} => batches'[i].stage \in {"manifesting", "complete"}
       /\ batches'[i].stage # batches[i].stage => Writing(run[c]) /\ i = run[c].batch

\* What it does to the progress files: they keep their resource.
CatalogFiles ==
  /\ progress' \in Seq(ProgressFiles)
  /\ \A i \in DOMAIN progress : i \in DOMAIN progress' /\ progress'[i].of = progress[i].of
  /\ \A i \in DOMAIN progress' :
       \/ i \in DOMAIN progress /\ progress'[i].next = progress[i].next
       \/ progress'[i].next \in Places(progress'[i].of)

\* And to the runs.
CatalogRuns(c) ==
  /\ run' \in [Collectors -> Runs \union {Idle}]
  /\ \A d \in Collectors : d # c => run'[d] = run[d]
  /\ Writing(run'[c]) => \/ Writing(run[c]) /\ run'[c].batch = run[c].batch
                        \/ run'[c].batch \notin DOMAIN batches

\* A named page stays named, a covered position covered.
LEMMA NamedStays ==
  ASSUME NEW c, CatalogStore(c), NEW res, NEW pos
  PROVE  (\A x : Named(res, x) => Named(res, x)') /\ (Covered(res, pos) => Covered(res, pos)')
<1>1. ASSUME NEW x, Named(res, x) PROVE Named(res, x)'
  <2>1. PICK i \in DOMAIN batches : batches[i].of = res /\ batches[i].at = x /\ batches[i].stage \in {"manifesting", "complete"}
    BY <1>1 DEF Named, OfResource
  <2>2. i \in DOMAIN batches' /\ batches'[i].of = res /\ batches'[i].at = x /\ batches'[i].stage \in {"manifesting", "complete"}
    BY <2>1 DEF CatalogStore
  <2>3. QED BY <2>2 DEF Named, OfResource
<1>2. Covered(res, pos) => Covered(res, pos)' BY <1>1 DEF Covered, Pages, Before
<1>3. QED BY <1>1, <1>2

\* The invariant, from what a step does to the store, the files and the runs.
LEMMA CatalogStands ==
  ASSUME CatalogInv, NEW c \in Collectors, CatalogStore(c), CatalogFiles, CatalogRuns(c),
         CatalogRunOK(c)', astray' \in BOOLEAN, astray => astray',
         ~astray' => /\ \A res, pos : run'[c].pc # "idle" /\ res = run'[c].of /\ pos = run'[c].at
                                         => Covered(res, pos)'
                     /\ \A i \in DOMAIN progress' : \A res, pos : res = progress'[i].of =>
                          /\ pos = progress'[i].next =>
                               (i \in DOMAIN progress /\ pos = progress[i].next) \/ Covered(res, pos)'
                          /\ pos = End(res) /\ progress'[i].status = "COMPLETED" =>
                               (i \in DOMAIN progress /\ progress[i].status = "COMPLETED") \/ Covered(res, pos)'
  PROVE  CatalogInv'
<1>1. CatalogTypes' BY DEF CatalogTypes, CatalogStore, CatalogFiles, CatalogRuns
<1>2. ASSUME NEW d \in Collectors, d # c PROVE CatalogRunOK(d)'
  <2>1. run'[d] = run[d] BY <1>2 DEF CatalogRuns
  <2> SUFFICES ASSUME run[d].pc # "idle"
               PROVE  /\ run[d].id \in DOMAIN progress' /\ progress'[run[d].id].of = run[d].of
                      /\ run[d].at \in Places(run[d].of)
                      /\ Writing(run[d]) =>
                           /\ run[d].at \in Pages(run[d].of) /\ run[d].batch \in DOMAIN batches'
                           /\ batches'[run[d].batch].of = run[d].of /\ batches'[run[d].batch].at = run[d].at
                           /\ run[d].pc = "fill" => batches'[run[d].batch].stage = "sanitizing"
    BY <2>1 DEF CatalogRunOK, Writing, Places, Pages, End
  <2>2. CatalogRunOK(d) BY DEF CatalogInv
  <2>3. run[d].id \in DOMAIN progress' /\ progress'[run[d].id].of = run[d].of /\ run[d].at \in Places(run[d].of)
    BY <2>2 DEF CatalogRunOK, CatalogFiles
  <2>4. ASSUME Writing(run[d])
        PROVE  /\ run[d].at \in Pages(run[d].of) /\ run[d].batch \in DOMAIN batches'
               /\ batches'[run[d].batch].of = run[d].of /\ batches'[run[d].batch].at = run[d].at
               /\ run[d].pc = "fill" => batches'[run[d].batch].stage = "sanitizing"
    <3>1. /\ run[d].at \in Pages(run[d].of) /\ run[d].batch \in DOMAIN batches
          /\ batches[run[d].batch].of = run[d].of /\ batches[run[d].batch].at = run[d].at
          /\ run[d].pc = "fill" => batches[run[d].batch].stage = "sanitizing"
      BY <2>2, <2>4 DEF CatalogRunOK
    <3>2. Writing(run[c]) => run[c].batch # run[d].batch BY <1>2, <2>4 DEF CatalogInv, PagesApart
    <3>3. batches'[run[d].batch].stage = batches[run[d].batch].stage BY <3>1, <3>2 DEF CatalogStore
    <3>4. QED BY <3>1, <3>3 DEF CatalogStore
  <2>5. QED BY <2>3, <2>4
<1>3. PagesApart'
  <2> SUFFICES ASSUME NEW d \in Collectors, NEW e \in Collectors, Writing(run'[d]), Writing(run'[e]), d # e
               PROVE  run'[d].batch # run'[e].batch
    BY DEF PagesApart, Writing
  <2>1. \A x \in Collectors : Writing(run[x]) => run[x].batch \in DOMAIN batches
    BY DEF CatalogInv, CatalogRunOK, Writing
  <2>2. \A x, y \in Collectors : Writing(run[x]) /\ Writing(run[y]) /\ x # y => run[x].batch # run[y].batch
    BY DEF CatalogInv, PagesApart
  <2>3. QED BY <2>1, <2>2 DEF CatalogRuns
<1>4. (\A i \in DOMAIN progress : progress[i].next \in Places(progress[i].of))'
  BY DEF CatalogInv, CatalogFiles, Places, Pages, End
<1>5. ASSUME ~astray' PROVE CatalogCovered'
  <2>1. CatalogCovered BY <1>5 DEF CatalogInv
  <2>2. \A res, pos : Covered(res, pos) => Covered(res, pos)' BY NamedStays
  <2>3. ASSUME NEW d \in Collectors, run'[d].pc # "idle", NEW res, NEW pos, res = run'[d].of, pos = run'[d].at
        PROVE  Covered(res, pos)'
    <3>1. CASE d = c BY <1>5, <2>3, <3>1
    <3>2. CASE d # c
      <4>1. run'[d] = run[d] BY <3>2 DEF CatalogRuns
      <4>2. Covered(res, pos) BY <2>1, <2>3, <4>1 DEF CatalogCovered
      <4>3. QED BY <2>2, <4>2
    <3>3. QED BY <3>1, <3>2
  <2>4. ASSUME NEW i \in DOMAIN progress', NEW res, NEW pos, res = progress'[i].of,
               pos = progress'[i].next \/ (pos = End(res) /\ progress'[i].status = "COMPLETED")
        PROVE  Covered(res, pos)'
    <3>1. ASSUME i \in DOMAIN progress, pos = progress[i].next \/ (pos = End(res) /\ progress[i].status = "COMPLETED")
          PROVE  Covered(res, pos)'
      <4>1. res = progress[i].of BY <2>4, <3>1 DEF CatalogFiles
      <4>2. FileCovered(progress[i]) BY <2>1, <3>1 DEF CatalogCovered
      <4>3. Covered(res, pos) BY <3>1, <4>1, <4>2 DEF FileCovered
      <4>4. QED BY <2>2, <4>3
    <3>2. CASE pos = progress'[i].next BY <1>5, <2>4, <3>1, <3>2
    <3>3. CASE pos = End(res) /\ progress'[i].status = "COMPLETED" BY <1>5, <2>4, <3>1, <3>3
    <3>4. QED BY <2>4, <3>2, <3>3
  <2>5. \A i \in DOMAIN progress' : FileCovered(progress[i])'
    <3> TAKE i \in DOMAIN progress'
    <3>1. PICK res, pos, end : res = progress'[i].of /\ pos = progress'[i].next /\ end = End(res)
      OBVIOUS
    <3>2. Covered(res, pos)' BY <2>4, <3>1
    <3>3. progress'[i].status = "COMPLETED" => Covered(res, end)' BY <2>4, <3>1
    <3>4. QED BY <3>1, <3>2, <3>3 DEF FileCovered, Covered, Pages, Before, End, Named, OfResource
  <2>6. \A d \in Collectors : run'[d].pc # "idle" => Covered(run[d].of, run[d].at)'
    <3> TAKE d \in Collectors
    <3> HAVE run'[d].pc # "idle"
    <3>1. PICK res, pos : res = run'[d].of /\ pos = run'[d].at
      OBVIOUS
    <3>2. Covered(res, pos)' BY <2>3, <3>1
    <3>3. QED BY <3>1, <3>2 DEF Covered, Pages, Before, Named, OfResource
  <2>7. QED BY <2>5, <2>6 DEF CatalogCovered
<1>6. \A d \in Collectors : CatalogRunOK(d)' BY <1>2
<1>7. (\A d \in Collectors : CatalogRunOK(d))' BY <1>6
<1>8. (~astray => CatalogCovered)' BY <1>5
<1>9. QED BY <1>1, <1>3, <1>4, <1>7, <1>8 DEF CatalogInv


\* What the types say, in the form in which the proofs need it.
LEMMA CatalogFacts ==
  ASSUME CatalogInv
  PROVE  /\ batches \in Seq(CatalogBatches) /\ DOMAIN batches = 1 .. Len(batches) /\ Len(batches) \in Nat
         /\ \A i \in DOMAIN batches : batches[i] \in CatalogBatches
         /\ progress \in Seq(ProgressFiles) /\ DOMAIN progress = 1 .. Len(progress) /\ Len(progress) \in Nat
         /\ \A i \in DOMAIN progress : progress[i] \in ProgressFiles
         /\ \A c \in Collectors : run[c].pc # "idle" =>
              /\ run[c] \in Runs /\ run[c].of \in Resources /\ run[c].at \in Positions
              /\ run[c].at \in Places(run[c].of)
              /\ run[c].id \in DOMAIN progress /\ progress[run[c].id].of = run[c].of
<1>1. CatalogTypes BY DEF CatalogInv
<1>2. ASSUME NEW c \in Collectors, run[c].pc # "idle"
      PROVE  /\ run[c] \in Runs /\ run[c].of \in Resources /\ run[c].at \in Positions
             /\ run[c].at \in Places(run[c].of)
             /\ run[c].id \in DOMAIN progress /\ progress[run[c].id].of = run[c].of
  <2>1. run[c] \in Runs BY <1>1, <1>2 DEF CatalogTypes, Idle
  <2>2. CatalogRunOK(c) BY DEF CatalogInv
  <2>3. QED BY <1>2, <2>1, <2>2 DEF CatalogRunOK, Runs
<1>3. QED BY <1>1, <1>2, ElementOfSeq DEF CatalogTypes

\* The ways in which a step changes the store, the progress files and the runs.
LEMMA CatalogStoreSame == ASSUME CatalogInv, NEW c, UNCHANGED batches PROVE CatalogStore(c)
BY CatalogFacts DEF CatalogStore

LEMMA CatalogStoreStaged ==
  ASSUME CatalogInv, NEW c \in Collectors, Writing(run[c]), NEW s \in Stages,
         batches' = [batches EXCEPT ![run[c].batch].stage = s],
         batches[run[c].batch].stage \in {"manifesting", "complete"} => s \in {"manifesting", "complete"}
  PROVE  /\ CatalogStore(c) /\ DOMAIN batches' = DOMAIN batches /\ run[c].batch \in DOMAIN batches
         /\ batches'[run[c].batch].stage = s
<1> DEFINE i == run[c].batch
           b == [batches[i] EXCEPT !.stage = s]
<1>1. i \in DOMAIN batches BY DEF CatalogInv, CatalogRunOK, Writing
<1>2. b \in CatalogBatches /\ b.of = batches[i].of /\ b.at = batches[i].at /\ b.stage = s
  BY <1>1, CatalogFacts DEF CatalogBatches
<1>3. batches' = [batches EXCEPT ![i] = b] OBVIOUS
<1>4. batches[i].stage \in {"manifesting", "complete"} => s \in {"manifesting", "complete"} OBVIOUS
<1> HIDE DEF b
<1>5. /\ batches' \in Seq(CatalogBatches) /\ DOMAIN batches' = DOMAIN batches
      /\ \A j \in DOMAIN batches : batches'[j] = IF j = i THEN b ELSE batches[j]
  BY <1>1, <1>2, <1>3, CatalogFacts, ExceptSeq
<1>6. QED BY <1>1, <1>2, <1>4, <1>5 DEF CatalogStore

LEMMA CatalogStoreOpened ==
  ASSUME CatalogInv, NEW c, NEW res \in Resources, NEW x \in Positions, batches' = Opened(batches, res, x)
  PROVE  /\ CatalogStore(c) /\ Len(batches) + 1 \notin DOMAIN batches /\ Len(batches) + 1 \in DOMAIN batches'
         /\ batches'[Len(batches) + 1] = [of |-> res, at |-> x, stage |-> "sanitizing"]
<1> DEFINE b == [of |-> res, at |-> x, stage |-> "sanitizing"]
<1>1. batches' = Append(batches, b) /\ b \in CatalogBatches
  BY DEF Opened, CatalogBatches, Stages
<1> HIDE DEF b
<1>2. /\ batches' \in Seq(CatalogBatches) /\ Len(batches') = Len(batches) + 1
      /\ \A i \in 1 .. Len(batches) : batches'[i] = batches[i]
      /\ batches'[Len(batches) + 1] = b
  BY <1>1, CatalogFacts, AppendProperties
<1>3. DOMAIN batches' = 1 .. Len(batches) + 1 BY <1>2, LenProperties
<1>4. /\ Len(batches) + 1 \notin DOMAIN batches /\ Len(batches) + 1 \in DOMAIN batches'
      /\ \A i \in DOMAIN batches : i \in DOMAIN batches'
  BY <1>3, CatalogFacts
<1>5. CatalogStore(c) BY <1>2, <1>4, CatalogFacts DEF CatalogStore
<1>6. QED BY <1>2, <1>4, <1>5 DEF b

LEMMA CatalogFilesSame == ASSUME CatalogInv, UNCHANGED progress PROVE CatalogFiles
BY CatalogFacts DEF CatalogFiles

LEMMA CatalogFileSet ==
  ASSUME CatalogInv, NEW i \in DOMAIN progress, NEW s \in Statuses, NEW x \in Positions,
         progress' = [progress EXCEPT ![i] = [of |-> progress[i].of, from |-> progress[i].from, next |-> x, status |-> s]],
         x = progress[i].next \/ x \in Places(progress[i].of)
  PROVE  /\ CatalogFiles /\ DOMAIN progress' = DOMAIN progress
         /\ progress'[i].next = x /\ progress'[i].status = s
         /\ \A j \in DOMAIN progress : j # i => progress'[j] = progress[j]
<1> DEFINE f == [of |-> progress[i].of, from |-> progress[i].from, next |-> x, status |-> s]
<1>1. f \in ProgressFiles /\ f.of = progress[i].of /\ f.next = x /\ f.status = s
  BY CatalogFacts DEF ProgressFiles
<1>2. progress' = [progress EXCEPT ![i] = f] OBVIOUS
<1> HIDE DEF f
<1>3. /\ progress' \in Seq(ProgressFiles) /\ DOMAIN progress' = DOMAIN progress
      /\ \A j \in DOMAIN progress : progress'[j] = IF j = i THEN f ELSE progress[j]
  BY <1>1, <1>2, CatalogFacts, ExceptSeq
<1>4. \A j \in DOMAIN progress : j # i => progress'[j] = progress[j] BY <1>3
<1>5. progress'[i] = f BY <1>3
<1>6. CatalogFiles
  <2>1. \A j \in DOMAIN progress : progress'[j].of = progress[j].of BY <1>1, <1>4, <1>5
  <2>2. \A j \in DOMAIN progress : \/ progress'[j].next = progress[j].next
                                   \/ progress'[j].next \in Places(progress'[j].of)
    BY <1>1, <1>4, <1>5
  <2>3. QED BY <1>3, <2>1, <2>2 DEF CatalogFiles
<1>7. QED BY <1>1, <1>3, <1>4, <1>5, <1>6

LEMMA CatalogFileAdded ==
  ASSUME CatalogInv, NEW f \in ProgressFiles, progress' = Append(progress, f), f.next \in Places(f.of)
  PROVE  /\ CatalogFiles /\ Len(progress) + 1 \in DOMAIN progress'
         /\ progress'[Len(progress) + 1] = f
         /\ \A j \in DOMAIN progress' : j = Len(progress) + 1 \/ (j \in DOMAIN progress /\ progress'[j] = progress[j])
<1>1. /\ progress' \in Seq(ProgressFiles) /\ Len(progress') = Len(progress) + 1
      /\ progress'[Len(progress) + 1] = f /\ \A i \in 1 .. Len(progress) : progress'[i] = progress[i]
  BY CatalogFacts, AppendProperties
<1>2. DOMAIN progress' = 1 .. Len(progress) + 1 BY <1>1, LenProperties
<1>3. \A j \in DOMAIN progress' : j = Len(progress) + 1 \/ (j \in DOMAIN progress /\ progress'[j] = progress[j])
  BY <1>1, <1>2, CatalogFacts
<1>4. Len(progress) + 1 \in DOMAIN progress' /\ \A j \in DOMAIN progress : j \in DOMAIN progress'
  BY <1>2, CatalogFacts
<1>5. CatalogFiles
  <2>1. \A j \in DOMAIN progress : progress'[j].of = progress[j].of BY <1>1, CatalogFacts
  <2>2. \A j \in DOMAIN progress' : \/ j \in DOMAIN progress /\ progress'[j].next = progress[j].next
                                    \/ progress'[j].next \in Places(progress'[j].of)
    BY <1>1, <1>3
  <2>3. QED BY <1>1, <1>4, <2>1, <2>2 DEF CatalogFiles
<1>6. QED BY <1>1, <1>3, <1>4, <1>5

LEMMA CatalogRunSet ==
  ASSUME CatalogInv, NEW c \in Collectors, NEW r \in Runs \union {Idle}, run' = [run EXCEPT ![c] = r],
         Writing(r) => (Writing(run[c]) /\ r.batch = run[c].batch) \/ r.batch \notin DOMAIN batches
  PROVE  CatalogRuns(c) /\ run'[c] = r
<1>1. run \in [Collectors -> Runs \union {Idle}] BY DEF CatalogInv, CatalogTypes
<1>2. /\ run' \in [Collectors -> Runs \union {Idle}] /\ run'[c] = r
      /\ \A d \in Collectors : d # c => run'[d] = run[d]
  BY <1>1
<1>3. QED BY <1>2 DEF CatalogRuns

\* A step that does not move the run and that reports at most what the run has
\* done keeps the invariant.
LEMMA CatalogRests ==
  ASSUME CatalogInv, NEW c \in Collectors, CatalogStore(c), CatalogFiles, CatalogRuns(c), CatalogRunOK(c)',
         UNCHANGED astray,
         run'[c].pc # "idle" => run[c].pc # "idle" /\ run'[c].of = run[c].of /\ run'[c].at = run[c].at,
         \A i \in DOMAIN progress' :
           /\ i \in DOMAIN progress
           /\ \/ progress'[i].next = progress[i].next
              \/ run[c].pc # "idle" /\ progress[i].of = run[c].of /\ progress'[i].next = run[c].at
           /\ progress'[i].status = "COMPLETED" =>
                \/ progress[i].status = "COMPLETED"
                \/ run[c].pc # "idle" /\ progress[i].of = run[c].of /\ run[c].at = End(run[c].of)
  PROVE  CatalogInv'
<1>1. \A res, pos : Covered(res, pos) => Covered(res, pos)' BY NamedStays
<1>2. ASSUME ~astray' PROVE run[c].pc # "idle" => Covered(run[c].of, run[c].at)
  BY <1>2 DEF CatalogInv, CatalogCovered
<1>3. ASSUME ~astray', NEW res, NEW pos, run'[c].pc # "idle", res = run'[c].of, pos = run'[c].at
      PROVE  Covered(res, pos)'
  BY <1>1, <1>2, <1>3
<1>4. ASSUME ~astray', NEW i \in DOMAIN progress', NEW res, NEW pos, res = progress'[i].of, pos = progress'[i].next
      PROVE  (i \in DOMAIN progress /\ pos = progress[i].next) \/ Covered(res, pos)'
  BY <1>1, <1>2, <1>4 DEF CatalogFiles
<1>5. ASSUME ~astray', NEW i \in DOMAIN progress', NEW res, NEW pos, res = progress'[i].of,
             pos = End(res), progress'[i].status = "COMPLETED"
      PROVE  (i \in DOMAIN progress /\ progress[i].status = "COMPLETED") \/ Covered(res, pos)'
  BY <1>1, <1>2, <1>5 DEF CatalogFiles
<1>6. astray' \in BOOLEAN /\ (astray => astray') BY DEF CatalogInv, CatalogTypes
<1>7. QED BY <1>3, <1>4, <1>5, <1>6, CatalogStands

\* A run that stays at its position still has its progress file.
LEMMA CatalogRunRests ==
  ASSUME CatalogInv, NEW c \in Collectors, CatalogFiles,
         run'[c].pc # "idle" =>
           /\ run[c].pc # "idle" /\ ~Writing(run'[c])
           /\ run'[c].of = run[c].of /\ run'[c].id = run[c].id /\ run'[c].at = run[c].at
  PROVE  CatalogRunOK(c)'
<1> SUFFICES ASSUME run'[c].pc # "idle"
             PROVE  /\ run'[c].id \in DOMAIN progress' /\ progress'[run'[c].id].of = run'[c].of
                    /\ run'[c].at \in Places(run[c].of) /\ run'[c].of = run[c].of /\ ~Writing(run'[c])
  BY DEF CatalogRunOK, Writing, Places, Pages, End
<1>1. /\ run[c].id \in DOMAIN progress /\ progress[run[c].id].of = run[c].of
      /\ run[c].at \in Places(run[c].of)
  BY CatalogFacts
<1>2. QED BY <1>1 DEF CatalogFiles

\* A run that ends keeps the invariant, whatever status and position of its own
\* its progress file takes.
LEMMA CatalogEnds ==
  ASSUME CatalogInv, NEW c \in Collectors, UNCHANGED <<batches, astray>>, run' = [run EXCEPT ![c] = Idle],
         run[c].pc # "idle",
         \/ UNCHANGED progress
         \/ \E s \in Statuses, x \in Positions :
              /\ x = run[c].at \/ x = progress[run[c].id].next
              /\ s = "COMPLETED" => run[c].at = End(run[c].of)
              /\ progress' = [progress EXCEPT ![run[c].id] =
                   [of |-> progress[run[c].id].of, from |-> progress[run[c].id].from, next |-> x, status |-> s]]
  PROVE  CatalogInv'
<1>1. CatalogStore(c) BY CatalogStoreSame
<1>2. Idle.pc = "idle" /\ ~Writing(Idle) BY DEF Idle, Writing
<1>3. CatalogRuns(c) /\ run'[c] = Idle BY <1>2, CatalogRunSet
<1>4. CASE UNCHANGED progress
  <2>1. CatalogFiles BY <1>4, CatalogFilesSame
  <2>2. CatalogRunOK(c)' BY <1>2, <1>3, <2>1, CatalogRunRests
  <2>3. QED BY <1>1, <1>2, <1>3, <1>4, <2>1, <2>2, CatalogRests
<1>5. ASSUME NEW s \in Statuses, NEW x \in Positions, x = run[c].at \/ x = progress[run[c].id].next,
             s = "COMPLETED" => run[c].at = End(run[c].of),
             progress' = [progress EXCEPT ![run[c].id] =
                   [of |-> progress[run[c].id].of, from |-> progress[run[c].id].from, next |-> x, status |-> s]]
      PROVE  CatalogInv'
  <2>1. /\ run[c].id \in DOMAIN progress /\ progress[run[c].id].of = run[c].of
        /\ run[c].at \in Places(run[c].of)
    BY CatalogFacts
  <2>2. x = progress[run[c].id].next \/ x \in Places(progress[run[c].id].of) BY <1>5, <2>1
  <2>3. /\ CatalogFiles /\ DOMAIN progress' = DOMAIN progress
        /\ progress'[run[c].id].next = x /\ progress'[run[c].id].status = s
        /\ \A j \in DOMAIN progress : j # run[c].id => progress'[j] = progress[j]
    BY <1>5, <2>1, <2>2, CatalogFileSet
  <2>4. CatalogRunOK(c)' BY <1>2, <1>3, <2>3, CatalogRunRests
  <2>5. \A i \in DOMAIN progress' :
           /\ i \in DOMAIN progress
           /\ \/ progress'[i].next = progress[i].next
              \/ run[c].pc # "idle" /\ progress[i].of = run[c].of /\ progress'[i].next = run[c].at
           /\ progress'[i].status = "COMPLETED" =>
                \/ progress[i].status = "COMPLETED"
                \/ run[c].pc # "idle" /\ progress[i].of = run[c].of /\ run[c].at = End(run[c].of)
    <3> TAKE i \in DOMAIN progress'
    <3>1. CASE i = run[c].id BY <1>5, <2>1, <2>3, <3>1
    <3>2. CASE i # run[c].id BY <2>3, <3>2
    <3>3. QED BY <3>1, <3>2
  <2>6. QED BY <1>1, <1>2, <1>3, <2>3, <2>4, <2>5, CatalogRests
<1>6. QED BY <1>4, <1>5

\* A progress file that takes a status, a position or both.
LEMMA FileWith ==
  ASSUME CatalogInv, NEW i \in DOMAIN progress, NEW s, NEW x
  PROVE  /\ [progress EXCEPT ![i].status = s] =
              [progress EXCEPT ![i] = [of |-> progress[i].of, from |-> progress[i].from,
                                       next |-> progress[i].next, status |-> s]]
         /\ [progress EXCEPT ![i].next = x] =
              [progress EXCEPT ![i] = [of |-> progress[i].of, from |-> progress[i].from, next |-> x,
                                       status |-> progress[i].status]]
<1>1. progress[i] \in ProgressFiles BY CatalogFacts
<1>2. [progress[i] EXCEPT !.status = s] = [of |-> progress[i].of, from |-> progress[i].from,
                                       next |-> progress[i].next, status |-> s]
  BY <1>1 DEF ProgressFiles
<1>3. [progress[i] EXCEPT !.next = x] = [of |-> progress[i].of, from |-> progress[i].from, next |-> x,
                                         status |-> progress[i].status]
  BY <1>1 DEF ProgressFiles
<1>4. QED BY <1>2, <1>3

\* The progress file of a failed page.
LEMMA FileMoved ==
  ASSUME CatalogInv, NEW c \in Collectors, run[c].id \in DOMAIN progress,
         progress' = [progress EXCEPT ![run[c].id].status = "FAILED", ![run[c].id].next = run[c].at]
  PROVE  progress' = [progress EXCEPT ![run[c].id] = [of |-> progress[run[c].id].of, from |-> progress[run[c].id].from,
                                                      next |-> run[c].at, status |-> "FAILED"]]
<1> DEFINE i == run[c].id
           x == run[c].at
           s == "FAILED"
<1>0. i \in DOMAIN progress /\ progress' = [progress EXCEPT ![i].status = s, ![i].next = x]
  OBVIOUS
<1> HIDE DEF i, x, s
<1>1. progress[i] \in ProgressFiles BY <1>0, CatalogFacts
<1>2. [progress[i] EXCEPT !.status = s] = [of |-> progress[i].of, from |-> progress[i].from,
                                       next |-> progress[i].next, status |-> s]
  BY <1>1 DEF ProgressFiles
<1>3. [[progress[i] EXCEPT !.status = s] EXCEPT !.next = x] =
        [of |-> progress[i].of, from |-> progress[i].from, next |-> x, status |-> s]
  <2>1. PICK of, from, next : of = progress[i].of /\ from = progress[i].from /\ next = progress[i].next
    OBVIOUS
  <2>2. [[of |-> of, from |-> from, next |-> next, status |-> s] EXCEPT !.next = x] =
          [of |-> of, from |-> from, next |-> x, status |-> s]
    OBVIOUS
  <2>3. QED BY <1>2, <2>1, <2>2
<1>4. progress' = [progress EXCEPT ![i] = [[progress[i] EXCEPT !.status = s] EXCEPT !.next = x]]
  BY <1>0, CatalogFacts
<1>5. QED BY <1>3, <1>4 DEF i, x, s

\* A run has a progress file.
LEMMA OwnFile ==
  ASSUME CatalogInv, NEW c \in Collectors, run[c].pc # "idle"
  PROVE  /\ run[c].id \in DOMAIN progress /\ run[c].at \in Positions
         /\ progress[run[c].id].next \in Positions
         /\ progress[run[c].id].status \in Statuses
BY CatalogFacts DEF ProgressFiles

\* The steps, one by one: a run finishes,
LEMMA FinishCatalogKeeps ==
  ASSUME CatalogInv, NEW c \in Collectors, FinishCatalog(c), UNCHANGED astray
  PROVE  CatalogInv'
<1> DEFINE s == IF CompletesCatalog(c) THEN "COMPLETED" ELSE "LIMIT_REACHED"
           x == progress[run[c].id].next
<1>1. /\ UNCHANGED batches /\ run' = [run EXCEPT ![c] = Idle] /\ run[c].pc # "idle"
      /\ progress' = [progress EXCEPT ![run[c].id].status = s]
  BY DEF FinishCatalog, Finish, At, Update
<1>2. s \in Statuses /\ (s = "COMPLETED" => run[c].at = End(run[c].of))
  BY DEF Statuses, CompletesCatalog, AtEnd
<1>3. run[c].id \in DOMAIN progress /\ x \in Positions BY <1>1, OwnFile
<1> HIDE DEF s
<1>4. progress' = [progress EXCEPT ![run[c].id] =
         [of |-> progress[run[c].id].of, from |-> progress[run[c].id].from, next |-> x, status |-> s]]
  BY <1>1, <1>3, FileWith
<1>5. QED BY <1>1, <1>2, <1>3, <1>4, CatalogEnds

\* fails at a page of products,
LEMMA FailProductsKeeps ==
  ASSUME CatalogInv, NEW c \in Collectors, FailProducts(c), UNCHANGED astray
  PROVE  CatalogInv'
<1>1. /\ UNCHANGED batches /\ run' = [run EXCEPT ![c] = Idle] /\ run[c].pc # "idle"
      /\ progress' = [progress EXCEPT ![run[c].id].status = "FAILED", ![run[c].id].next = run[c].at]
  BY DEF FailProducts, FailedPage, At, Update, InPage
<1>2. "FAILED" \in Statuses BY DEF Statuses
<1>3. run[c].id \in DOMAIN progress /\ run[c].at \in Positions BY <1>1, OwnFile
<1>4. progress' = [progress EXCEPT ![run[c].id] =
         [of |-> progress[run[c].id].of, from |-> progress[run[c].id].from, next |-> run[c].at, status |-> "FAILED"]]
  BY <1>1, <1>3, FileMoved
<1>5. QED BY <1>1, <1>2, <1>3, <1>4, CatalogEnds

\* fails elsewhere,
LEMMA FailSilentlyKeeps ==
  ASSUME CatalogInv, NEW c \in Collectors, FailSilently(c), UNCHANGED astray
  PROVE  CatalogInv'
<1>1. UNCHANGED <<batches, progress>> /\ run' = [run EXCEPT ![c] = Idle] /\ run[c].pc # "idle"
  BY DEF FailSilently, Fail, At, Update
<1>2. QED BY <1>1, CatalogEnds

\* is told to wait,
LEMMA RateLimitedKeepsCatalog ==
  ASSUME CatalogInv, NEW c \in Collectors, RateLimited(c), UNCHANGED astray
  PROVE  CatalogInv'
<1>0. run[c].pc = "page" /\ run[c].pc # "idle" /\ UNCHANGED batches BY DEF RateLimited, At
<1>1. CASE ~MayRetry(c)
  <2>1. /\ run' = [run EXCEPT ![c] = Idle]
        /\ progress' = [progress EXCEPT ![run[c].id].status = "FAILED_RATE_LIMIT"]
    BY <1>1 DEF RateLimited, Update
  <2>2. "FAILED_RATE_LIMIT" \in Statuses BY DEF Statuses
  <2>3. run[c].id \in DOMAIN progress /\ progress[run[c].id].next \in Positions BY <1>0, OwnFile
  <2>4. progress' = [progress EXCEPT ![run[c].id] =
           [of |-> progress[run[c].id].of, from |-> progress[run[c].id].from,
            next |-> progress[run[c].id].next, status |-> "FAILED_RATE_LIMIT"]]
    BY <2>1, <2>3, FileWith
  <2>5. QED BY <1>0, <2>1, <2>2, <2>3, <2>4, CatalogEnds
<1>2. CASE MayRetry(c)
  <2> DEFINE r == [run[c] EXCEPT !.tries = @ + 1]
  <2>1. run' = [run EXCEPT ![c] = r] /\ UNCHANGED progress BY <1>2 DEF RateLimited, Update
  <2>2. run[c] \in Runs BY <1>0, CatalogFacts
  <2>3. run[c].tries + 1 \in 0 .. MaxRetries
    BY <1>2, <2>2, CollectionAssumption DEF Runs, MayRetry
  <2>4. r \in Runs /\ r.pc = "page" /\ r.of = run[c].of /\ r.id = run[c].id /\ r.at = run[c].at
    BY <1>0, <2>2, <2>3 DEF Runs
  <2> HIDE DEF r
  <2>5. ~Writing(r) BY <2>4 DEF Writing
  <2>6. CatalogRuns(c) /\ run'[c] = r BY <2>1, <2>4, <2>5, CatalogRunSet
  <2>7. CatalogStore(c) /\ CatalogFiles BY <1>0, <2>1, CatalogStoreSame, CatalogFilesSame
  <2>8. CatalogRunOK(c)' BY <1>0, <2>4, <2>5, <2>6, <2>7, CatalogRunRests
  <2>9. QED BY <1>0, <2>1, <2>4, <2>6, <2>7, <2>8, CatalogRests
<1>3. QED BY <1>1, <1>2

\* reads a page,
LEMMA ReadPageKeepsCatalog ==
  ASSUME CatalogInv, NEW c \in Collectors, ReadPage(c), UNCHANGED astray
  PROVE  CatalogInv'
<1> DEFINE n == Len(batches) + 1
           m == [run[c] EXCEPT !.pc = "fill"]
           r == [m EXCEPT !.batch = n]
<1>0. run[c].pc = "page" /\ run[c].pc # "idle" /\ run[c].at # End(run[c].of) /\ n \in Nat
  BY CatalogFacts DEF ReadPage, At, AtEnd
<1>1. /\ run[c] \in Runs /\ run[c].of \in Resources /\ run[c].at \in Pages(run[c].of) /\ run[c].at \in Positions
      /\ run[c].id \in DOMAIN progress /\ progress[run[c].id].of = run[c].of
  BY <1>0, CatalogFacts DEF Places
<1>2. /\ batches' = Opened(batches, run[c].of, run[c].at) /\ run' = [run EXCEPT ![c] = r]
      /\ UNCHANGED progress
  BY DEF ReadPage, Update
<1>3. m \in Runs /\ m.of = run[c].of /\ m.at = run[c].at /\ m.id = run[c].id /\ m.pc = "fill"
  BY <1>1 DEF Runs
<1> HIDE DEF m, n
<1>4. /\ r \in Runs /\ r.of = run[c].of /\ r.at = run[c].at /\ r.id = run[c].id
      /\ r.pc = "fill" /\ r.batch = n
  BY <1>0, <1>3 DEF Runs
<1> HIDE DEF r
<1>5. /\ CatalogStore(c) /\ n \notin DOMAIN batches /\ n \in DOMAIN batches'
      /\ batches'[n] = [of |-> run[c].of, at |-> run[c].at, stage |-> "sanitizing"]
  BY <1>1, <1>2, CatalogStoreOpened DEF n
<1>6. CatalogRuns(c) /\ run'[c] = r BY <1>2, <1>4, <1>5, CatalogRunSet
<1>7. CatalogFiles BY <1>2, CatalogFilesSame
<1>8. CatalogRunOK(c)'
  <2>1. /\ run'[c].id \in DOMAIN progress' /\ progress'[run'[c].id].of = run'[c].of
        /\ run'[c].at \in Pages(run[c].of) /\ run'[c].of = run[c].of
        /\ run'[c].batch \in DOMAIN batches' /\ batches'[run'[c].batch].of = run'[c].of
        /\ batches'[run'[c].batch].at = run'[c].at /\ batches'[run'[c].batch].stage = "sanitizing"
    BY <1>1, <1>2, <1>4, <1>5, <1>6
  <2>2. QED BY <2>1 DEF CatalogRunOK, Places, Pages, End, Writing
<1>9. QED BY <1>0, <1>2, <1>4, <1>5, <1>6, <1>7, <1>8, CatalogRests

\* A run writes the next part of its batch and goes on.
LEMMA CatalogWrites ==
  ASSUME CatalogInv, NEW c \in Collectors, UNCHANGED <<progress, astray>>,
         Writing(run[c]), NEW pc \in {"manifest", "fillManifest"}, NEW stage \in Stages,
         batches[run[c].batch].stage \in {"manifesting", "complete"} => stage \in {"manifesting", "complete"},
         batches' = [batches EXCEPT ![run[c].batch].stage = stage],
         run' = [run EXCEPT ![c].pc = pc]
  PROVE  CatalogInv'
<1> DEFINE r == [run[c] EXCEPT !.pc = pc]
<1>0. run[c].pc # "idle" BY DEF Writing
<1>1. /\ run[c] \in Runs /\ run[c].at \in Pages(run[c].of)
      /\ run[c].id \in DOMAIN progress /\ progress[run[c].id].of = run[c].of
      /\ run[c].batch \in DOMAIN batches
      /\ batches[run[c].batch].of = run[c].of /\ batches[run[c].batch].at = run[c].at
  BY <1>0, CatalogFacts DEF CatalogInv, CatalogRunOK
<1>2. /\ r \in Runs /\ r.of = run[c].of /\ r.at = run[c].at /\ r.id = run[c].id /\ r.pc = pc
      /\ r.batch = run[c].batch
  BY <1>1 DEF Runs
<1>3. run' = [run EXCEPT ![c] = r] OBVIOUS
<1> HIDE DEF r
<1>4. CatalogRuns(c) /\ run'[c] = r BY <1>2, <1>3, CatalogRunSet
<1>5. CatalogStore(c) /\ DOMAIN batches' = DOMAIN batches BY CatalogStoreStaged
<1>6. CatalogFiles BY CatalogFilesSame
<1>7. CatalogRunOK(c)'
  <2>1. /\ run'[c].id \in DOMAIN progress' /\ progress'[run'[c].id].of = run'[c].of
        /\ run'[c].at \in Pages(run[c].of) /\ run'[c].of = run[c].of
        /\ run'[c].batch \in DOMAIN batches' /\ batches'[run'[c].batch].of = run'[c].of
        /\ batches'[run'[c].batch].at = run'[c].at /\ run'[c].pc # "fill"
    BY <1>1, <1>2, <1>4, <1>5 DEF CatalogStore
  <2>2. QED BY <2>1 DEF CatalogRunOK, Places, Pages, End, Writing
<1>8. QED BY <1>0, <1>2, <1>4, <1>5, <1>6, <1>7, CatalogRests

\* writes it,
LEMMA FillPageKeepsCatalog ==
  ASSUME CatalogInv, NEW c \in Collectors, FillPage(c), UNCHANGED astray
  PROVE  CatalogInv'
<1>1. /\ run[c].pc = "fill" /\ Writing(run[c]) /\ UNCHANGED progress
      /\ batches' = [batches EXCEPT ![run[c].batch].stage = "sanitized"]
      /\ run' = [run EXCEPT ![c].pc = "manifest"]
  BY DEF FillPage, At, Writing, Filled, Goto
<1>2. batches[run[c].batch].stage = "sanitizing" BY <1>1 DEF CatalogInv, CatalogRunOK
<1>3. "sanitized" \in Stages BY DEF Stages
<1>4. QED BY <1>1, <1>2, <1>3, CatalogWrites

\* opens its manifest.
LEMMA OpenManifestKeepsCatalog ==
  ASSUME CatalogInv, NEW c \in Collectors, OpenManifest(c), UNCHANGED astray
  PROVE  CatalogInv'
<1>1. /\ run[c].pc = "manifest" /\ Writing(run[c]) /\ UNCHANGED progress
      /\ batches' = [batches EXCEPT ![run[c].batch].stage = "manifesting"]
      /\ run' = [run EXCEPT ![c].pc = "fillManifest"]
  BY DEF OpenManifest, At, Writing, ManifestOpened, Goto
<1>2. "manifesting" \in Stages BY DEF Stages
<1>3. QED BY <1>1, <1>2, CatalogWrites

\* With the manifest the page is named, and the run goes on to the next one.
LEMMA FillManifestKeepsCatalog ==
  ASSUME CatalogInv, NEW c \in Collectors, FillManifest(c), UNCHANGED astray
  PROVE  CatalogInv'
<1> DEFINE old == run[c]
           y  == Following(old.of, old.at)
           n  == old.count + Cardinality(RecordsOn[old.of][old.at.w][old.at.p])
           r1 == [old EXCEPT !.pc = "save"]
           r2 == [r1 EXCEPT !.at = y]
           r3 == [r2 EXCEPT !.tries = 0]
           r4 == [r3 EXCEPT !.batch = 0]
           r  == [r4 EXCEPT !.count = n]
<1>0. old.pc = "fillManifest" /\ old.pc # "idle" /\ Writing(old)
  BY DEF FillManifest, At, Writing
<1>1. /\ old \in Runs /\ old.of \in Resources /\ old.at \in Pages(old.of)
      /\ old.id \in DOMAIN progress /\ progress[old.id].of = old.of
      /\ old.batch \in DOMAIN batches
      /\ batches[old.batch].of = old.of /\ batches[old.batch].at = old.at
  BY <1>0, CatalogFacts DEF CatalogInv, CatalogRunOK
<1>2. y \in Places(old.of) /\ y \in Positions /\ n \in Nat /\ 0 \in 0 .. MaxRetries
  <2>1. y \in Places(old.of) /\ y \in Positions
    BY <1>1, FollowingPlaced, PagesOf
  <2>2. old.count \in Nat /\ Cardinality(RecordsOn[old.of][old.at.w][old.at.p]) \in Nat
    BY <1>1, RecordsOfPage DEF Runs
  <2>3. QED BY <2>1, <2>2, CollectionAssumption
<1>3. /\ batches' = [batches EXCEPT ![old.batch].stage = "complete"] /\ run' = [run EXCEPT ![c] = r]
      /\ UNCHANGED progress
  BY DEF FillManifest, Update, ManifestFilled
<1>4. r \in Runs /\ r.of = old.of /\ r.id = old.id /\ r.at = y /\ r.pc = "save"
  <2> HIDE DEF old, y, n, r1, r2, r3, r4
  <2>1. r1 \in Runs /\ r1.of = old.of /\ r1.id = old.id /\ r1.pc = "save"
    BY <1>1 DEF Runs, r1
  <2>2. r2 \in Runs /\ r2.of = old.of /\ r2.id = old.id /\ r2.pc = "save" /\ r2.at = y
    BY <1>2, <2>1 DEF Runs, r2
  <2>3. r3 \in Runs /\ r3.of = old.of /\ r3.id = old.id /\ r3.pc = "save" /\ r3.at = y
    BY <1>2, <2>2 DEF Runs, r3
  <2>4. r4 \in Runs /\ r4.of = old.of /\ r4.id = old.id /\ r4.pc = "save" /\ r4.at = y
    BY <2>3 DEF Runs, r4
  <2>5. QED BY <1>2, <2>4 DEF Runs
<1> HIDE DEF r, n
<1>5. ~Writing(r) BY <1>4 DEF Writing
<1>6. CatalogRuns(c) /\ run'[c] = r BY <1>3, <1>4, <1>5, CatalogRunSet
<1>7. "complete" \in Stages BY DEF Stages
<1>8. CatalogStore(c) /\ DOMAIN batches' = DOMAIN batches /\ batches'[old.batch].stage = "complete"
  BY <1>0, <1>3, <1>7, CatalogStoreStaged
<1>9. CatalogFiles BY <1>3, CatalogFilesSame
<1>10. CatalogRunOK(c)'
  <2>1. /\ run'[c].id \in DOMAIN progress' /\ progress'[run'[c].id].of = run'[c].of
        /\ run'[c].at \in Places(old.of) /\ run'[c].of = old.of /\ ~Writing(run'[c])
    BY <1>1, <1>2, <1>3, <1>4, <1>5, <1>6
  <2>2. QED BY <2>1 DEF CatalogRunOK, Places, Pages, End, Writing
<1>11. ASSUME ~astray', NEW res, NEW pos, res = old.of, pos = y PROVE Covered(res, pos)'
  <2>1. PICK at : at = old.at OBVIOUS
  <2>2. Covered(res, at) BY <1>0, <1>11, <2>1 DEF CatalogInv, CatalogCovered
  <2>3. Covered(res, at)' BY <1>8, <2>2, NamedStays
  <2>4. Named(res, at)'
    <3>1. old.batch \in DOMAIN batches' /\ batches'[old.batch].of = res /\ batches'[old.batch].at = at
      BY <1>1, <1>8, <1>11, <2>1 DEF CatalogStore
    <3>2. QED BY <1>8, <3>1 DEF Named, OfResource
  <2>5. \A x \in Pages(res) : Before(x, pos) => Before(x, at) \/ x = at
    BY <1>1, <1>11, <2>1, NothingBetween
  <2>6. QED BY <2>3, <2>4, <2>5 DEF Covered, Pages, Before
<1> HIDE DEF y
<1>12. ASSUME ~astray', NEW res, NEW pos, res = run'[c].of, pos = run'[c].at PROVE Covered(res, pos)'
  BY <1>4, <1>6, <1>11, <1>12
<1>13. astray' \in BOOLEAN /\ (astray => astray') BY DEF CatalogInv, CatalogTypes
<1>14. QED BY <1>3, <1>6, <1>8, <1>9, <1>10, <1>12, <1>13, CatalogStands

\* The progress file takes the position of the run.
LEMMA SaveProgressKeepsCatalog ==
  ASSUME CatalogInv, NEW c \in Collectors, SaveProgress(c), UNCHANGED astray
  PROVE  CatalogInv'
<1> DEFINE i == run[c].id
           x == run[c].at
           s == progress[i].status
           r == [run[c] EXCEPT !.pc = "page"]
<1>1. /\ run[c].pc # "idle" /\ UNCHANGED batches
      /\ progress' = [progress EXCEPT ![i].next = x] /\ run' = [run EXCEPT ![c] = r]
  BY DEF SaveProgress, At, Goto
<1>2. /\ run[c] \in Runs /\ i \in DOMAIN progress /\ progress[i].of = run[c].of
      /\ x \in Places(run[c].of) /\ x \in Positions /\ s \in Statuses
  BY <1>1, CatalogFacts, OwnFile
<1>3. r \in Runs /\ r.pc = "page" /\ r.of = run[c].of /\ r.id = run[c].id /\ r.at = run[c].at
  BY <1>2 DEF Runs
<1> HIDE DEF r
<1>4. ~Writing(r) BY <1>3 DEF Writing
<1>5. CatalogRuns(c) /\ run'[c] = r BY <1>1, <1>3, <1>4, CatalogRunSet
<1>6. CatalogStore(c) BY <1>1, CatalogStoreSame
<1>7. /\ CatalogFiles /\ DOMAIN progress' = DOMAIN progress
      /\ progress'[i].next = x /\ progress'[i].status = s
      /\ \A j \in DOMAIN progress : j # i => progress'[j] = progress[j]
  <2>1. progress' = [progress EXCEPT ![i] = [of |-> progress[i].of, from |-> progress[i].from, next |-> x,
                                             status |-> s]]
    BY <1>1, <1>2, FileWith
  <2>2. x \in Places(progress[i].of) BY <1>2
  <2> HIDE DEF i, x, s
  <2>3. QED BY <1>2, <2>1, <2>2, CatalogFileSet
<1>8. CatalogRunOK(c)' BY <1>1, <1>3, <1>4, <1>5, <1>7, CatalogRunRests
<1>9. \A j \in DOMAIN progress' :
         /\ j \in DOMAIN progress
         /\ \/ progress'[j].next = progress[j].next
            \/ progress[j].of = run[c].of /\ progress'[j].next = run[c].at
         /\ progress'[j].status = "COMPLETED" => progress[j].status = "COMPLETED"
  <2> TAKE j \in DOMAIN progress'
  <2>1. CASE j = i BY <1>2, <1>7, <2>1
  <2>2. CASE j # i BY <1>7, <2>2
  <2>3. QED BY <2>1, <2>2
<1>10. QED BY <1>1, <1>3, <1>5, <1>6, <1>7, <1>8, <1>9, CatalogRests

\* No page is before the first, and what vouches for a position covers it.
LEMMA VouchedIsCovered ==
  ASSUME CatalogInv, ~astray, NEW res \in Resources, NEW from, Vouched(res, from)
  PROVE  Covered(res, from)
<1>1. CASE from = First
  <2>1. \A x \in Pages(res) : ~Before(x, from)
    <3> TAKE x \in Pages(res)
    <3>1. PICK v \in 1 .. Windows[res] : \E q \in 1 .. PagesIn[res][v] : x = [w |-> v, p |-> q]
      BY PagesOf
    <3>2. PICK q \in 1 .. PagesIn[res][v] : x = [w |-> v, p |-> q] BY <3>1
    <3>3. Windows[res] \in Nat /\ PagesIn[res][v] \in Nat BY PagesOf
    <3>4. QED BY <1>1, <3>2, <3>3 DEF Before, First
  <2>2. QED BY <2>1 DEF Covered
<1>2. CASE from \in ResumePoints(res)
  <2>1. PICK i \in DOMAIN progress : progress[i].of = res /\ progress[i].next = from
    BY <1>2 DEF ResumePoints
  <2>2. FileCovered(progress[i]) BY DEF CatalogInv, CatalogCovered
  <2>3. QED BY <2>1, <2>2 DEF FileCovered
<1>3. CASE \A x \in Pages(res) : Before(x, from) => Named(res, x) BY <1>3 DEF Covered
<1>4. QED BY <1>1, <1>2, <1>3 DEF Vouched

\* A run begins; one that nothing vouches for goes astray.
LEMMA BeginCatalogKeeps ==
  ASSUME CatalogInv, NEW c \in Collectors, BeginCatalog(c)
  PROVE  CatalogInv'
<1>0. PICK res \in Resources : \E from \in Pages(res) :
         Begin(c, res, from) /\ astray' = (astray \/ ~Vouched(res, from))
  BY DEF BeginCatalog
<1>1. PICK from \in Pages(res) : Begin(c, res, from) /\ astray' = (astray \/ ~Vouched(res, from))
  BY <1>0
<1> DEFINE f == [of |-> res, from |-> from, next |-> from, status |-> "RUNNING"]
           r == [pc |-> "page", of |-> res, id |-> Len(progress) + 1, at |-> from,
                 count |-> 0, tries |-> 0, batch |-> 0]
<1>2. /\ progress' = Append(progress, f) /\ run' = [run EXCEPT ![c] = r] /\ UNCHANGED batches
  BY <1>1 DEF Begin, Update
<1>3. from \in Positions /\ from \in Places(res) BY PagesOf DEF Places
<1>4. f \in ProgressFiles /\ f.of = res /\ f.next = from /\ f.status # "COMPLETED"
  BY <1>3 DEF ProgressFiles, Statuses
<1>5. r \in Runs /\ r.pc = "page" /\ r.of = res /\ r.id = Len(progress) + 1 /\ r.at = from
  <2>1. Len(progress) + 1 \in Nat /\ 0 \in 0 .. MaxRetries BY CatalogFacts, CollectionAssumption
  <2>2. QED BY <1>3, <2>1 DEF Runs
<1> HIDE DEF f, r
<1>6. ~Writing(r) BY <1>5 DEF Writing
<1>7. CatalogRuns(c) /\ run'[c] = r BY <1>2, <1>5, <1>6, CatalogRunSet
<1>8. CatalogStore(c) BY <1>2, CatalogStoreSame
<1>9. /\ CatalogFiles /\ Len(progress) + 1 \in DOMAIN progress'
      /\ progress'[Len(progress) + 1] = f
      /\ \A j \in DOMAIN progress' : j = Len(progress) + 1 \/ (j \in DOMAIN progress /\ progress'[j] = progress[j])
  BY <1>2, <1>3, <1>4, CatalogFileAdded
<1>10. CatalogRunOK(c)'
  <2>1. /\ run'[c].id \in DOMAIN progress' /\ progress'[run'[c].id].of = run'[c].of
        /\ run'[c].at \in Places(res) /\ run'[c].of = res /\ ~Writing(run'[c])
    BY <1>3, <1>4, <1>5, <1>6, <1>7, <1>9
  <2>2. QED BY <2>1 DEF CatalogRunOK, Places, Pages, End, Writing
<1>11. ASSUME ~astray' PROVE Covered(res, from)'
  <2>1. ~astray /\ Vouched(res, from) BY <1>1, <1>11 DEF CatalogInv, CatalogTypes
  <2>2. Covered(res, from) BY <2>1, VouchedIsCovered
  <2>3. QED BY <1>8, <2>2, NamedStays
<1>12. ASSUME ~astray', NEW x, NEW pos, x = run'[c].of, pos = run'[c].at PROVE Covered(x, pos)'
  BY <1>5, <1>7, <1>11, <1>12
<1>13. ASSUME ~astray', NEW i \in DOMAIN progress', NEW x, NEW pos, x = progress'[i].of, pos = progress'[i].next
       PROVE  (i \in DOMAIN progress /\ pos = progress[i].next) \/ Covered(x, pos)'
  BY <1>4, <1>9, <1>11, <1>13
<1>14. ASSUME NEW i \in DOMAIN progress', progress'[i].status = "COMPLETED"
       PROVE  i \in DOMAIN progress /\ progress[i].status = "COMPLETED"
  BY <1>4, <1>9, <1>14
<1>15. astray' \in BOOLEAN /\ (astray => astray')
  BY <1>1 DEF CatalogInv, CatalogTypes
<1>16. QED BY <1>7, <1>8, <1>9, <1>10, <1>12, <1>13, <1>14, <1>15, CatalogStands

\* The process dies.
LEMMA CatalogCrashKeeps ==
  ASSUME CatalogInv, CatalogCrash
  PROVE  CatalogInv'
<1>1. run' = [c \in Collectors |-> Idle] /\ UNCHANGED <<batches, progress, astray>>
  BY DEF CatalogCrash
<1>2. Idle.pc = "idle" /\ ~Writing(Idle) BY DEF Idle, Writing
<1>3. \A c \in Collectors : run'[c] = Idle BY <1>1
<1>4. CatalogTypes' BY <1>1 DEF CatalogInv, CatalogTypes
<1>5. (\A c \in Collectors : CatalogRunOK(c))' BY <1>2, <1>3 DEF CatalogRunOK
<1>6. PagesApart'
  <2>1. \A c \in Collectors : ~Writing(run'[c]) BY <1>2, <1>3
  <2>2. QED BY <2>1 DEF PagesApart, Writing
<1>7. (\A i \in DOMAIN progress : progress[i].next \in Places(progress[i].of))'
  BY <1>1 DEF CatalogInv, Places, Pages, End
<1>8. (~astray => CatalogCovered)'
  <2> SUFFICES ASSUME ~astray' PROVE CatalogCovered' OBVIOUS
  <2>1. \A i \in DOMAIN progress : FileCovered(progress[i]) BY <1>1 DEF CatalogInv, CatalogCovered
  <2>2. \A i \in DOMAIN progress' : FileCovered(progress[i])'
    BY <1>1, <2>1 DEF FileCovered, Covered, Named, OfResource, Pages, Before, End
  <2>3. \A c \in Collectors : run'[c].pc = "idle" BY <1>2, <1>3
  <2>4. QED BY <2>2, <2>3 DEF CatalogCovered
<1>9. QED BY <1>4, <1>5, <1>6, <1>7, <1>8 DEF CatalogInv

LEMMA CatalogStutters ==
  ASSUME CatalogInv, UNCHANGED <<batches, progress, run, astray>>
  PROVE  CatalogInv'
<1>1. UNCHANGED <<batches, progress, run, astray>> OBVIOUS
<1>2. CatalogTypes' BY <1>1 DEF CatalogInv, CatalogTypes
<1>3. (\A c \in Collectors : CatalogRunOK(c))'
  BY <1>1 DEF CatalogInv, CatalogRunOK, Writing, Places, Pages, End
<1>4. PagesApart' BY <1>1 DEF CatalogInv, PagesApart, Writing
<1>5. (\A i \in DOMAIN progress : progress[i].next \in Places(progress[i].of))'
  BY <1>1 DEF CatalogInv, Places, Pages, End
<1>6. (~astray => CatalogCovered)'
  <2> SUFFICES ASSUME ~astray' PROVE CatalogCovered' OBVIOUS
  <2>1. CatalogCovered BY <1>1 DEF CatalogInv
  <2>2. \A i \in DOMAIN progress' : FileCovered(progress[i])'
    BY <1>1, <2>1 DEF CatalogCovered, FileCovered, Covered, Named, OfResource, Pages, Before, End
  <2>3. \A c \in Collectors : run'[c].pc # "idle" => Covered(run[c].of, run[c].at)'
    BY <1>1, <2>1 DEF CatalogCovered, Covered, Named, OfResource, Pages, Before
  <2>4. QED BY <2>2, <2>3 DEF CatalogCovered
<1>7. QED BY <1>2, <1>3, <1>4, <1>5, <1>6 DEF CatalogInv

LEMMA CatalogInitially == CollectCatalogInit => CatalogInv
<1> SUFFICES ASSUME CollectCatalogInit PROVE CatalogInv OBVIOUS
<1>1. batches = <<>> /\ progress = <<>> /\ run = [c \in Collectors |-> Idle] /\ astray = FALSE
  BY DEF CollectCatalogInit, CollectInit
<1>2. Idle.pc = "idle" /\ ~Writing(Idle) BY DEF Idle, Writing
<1>3. \A c \in Collectors : run[c] = Idle BY <1>1
<1>4. DOMAIN progress = {} /\ batches \in Seq(CatalogBatches) /\ progress \in Seq(ProgressFiles)
  BY <1>1
<1>5. CatalogTypes BY <1>1, <1>4 DEF CatalogTypes
<1>6. \A c \in Collectors : CatalogRunOK(c) BY <1>2, <1>3 DEF CatalogRunOK
<1>7. PagesApart BY <1>2, <1>3 DEF PagesApart
<1>8. CatalogCovered BY <1>2, <1>3, <1>4 DEF CatalogCovered
<1>9. QED BY <1>4, <1>5, <1>6, <1>7, <1>8 DEF CatalogInv

LEMMA CatalogStepKeeps == CatalogInv /\ [CollectCatalogNext]_catalogVars => CatalogInv'
<1> SUFFICES ASSUME CatalogInv, [CollectCatalogNext]_catalogVars PROVE CatalogInv' OBVIOUS
<1>1. CASE UNCHANGED catalogVars BY <1>1, CatalogStutters DEF catalogVars, collectVars
<1>2. CASE CatalogCrash BY <1>2, CatalogCrashKeeps
<1>3. ASSUME NEW c \in Collectors, CatalogStep(c) PROVE CatalogInv'
  <2>1. CASE BeginCatalog(c) BY <2>1, BeginCatalogKeeps
  <2>2. CASE ReadPage(c) /\ UNCHANGED astray BY <2>2, ReadPageKeepsCatalog
  <2>3. CASE RateLimited(c) /\ UNCHANGED astray BY <2>3, RateLimitedKeepsCatalog
  <2>4. CASE FillPage(c) /\ UNCHANGED astray BY <2>4, FillPageKeepsCatalog
  <2>5. CASE OpenManifest(c) /\ UNCHANGED astray BY <2>5, OpenManifestKeepsCatalog
  <2>6. CASE FillManifest(c) /\ UNCHANGED astray BY <2>6, FillManifestKeepsCatalog
  <2>7. CASE SaveProgress(c) /\ UNCHANGED astray BY <2>7, SaveProgressKeepsCatalog
  <2>8. CASE FinishCatalog(c) /\ UNCHANGED astray BY <2>8, FinishCatalogKeeps
  <2>9. CASE FailProducts(c) /\ UNCHANGED astray BY <2>9, FailProductsKeeps
  <2>10. CASE FailSilently(c) /\ UNCHANGED astray BY <2>10, FailSilentlyKeeps
  <2>11. QED BY <1>3, <2>1, <2>2, <2>3, <2>4, <2>5, <2>6, <2>7, <2>8, <2>9, <2>10 DEF CatalogStep, PageStep
<1>4. QED BY <1>1, <1>2, <1>3 DEF CollectCatalogNext

\* The catalog's inductive invariant holds in every reachable state.
THEOREM CatalogInvariance == CollectCatalogSpec => []CatalogInv
BY CatalogInitially, CatalogStepKeeps, PTL DEF CollectCatalogSpec

\* Every page is before the end of its range.
LEMMA BeforeTheEnd ==
  ASSUME NEW res \in Resources, NEW x \in Pages(res)
  PROVE  Before(x, End(res))
<1>1. PICK v \in 1 .. Windows[res] : \E q \in 1 .. PagesIn[res][v] : x = [w |-> v, p |-> q]
  BY PagesOf
<1>2. x.w = v /\ v \in Nat /\ v < Windows[res] + 1 BY <1>1, PagesOf
<1>3. QED BY <1>2 DEF Before, End

\* In a covered range every page is stored, or a torn manifest gives it away.
LEMMA CatalogInvMeans == CatalogInv => CompletedCatalogIsWhole
<1> SUFFICES ASSUME CatalogInv, ~astray, NEW i \in DOMAIN progress, progress[i].status = "COMPLETED",
                    ~HasInvalid(batches, progress[i].of), NEW x \in Pages(progress[i].of)
             PROVE  Stored(x, progress[i].of)
  BY DEF CompletedCatalogIsWhole
<1>1. FileCovered(progress[i]) BY DEF CatalogInv, CatalogCovered
<1>2. progress[i].of \in Resources BY CatalogFacts DEF ProgressFiles
<1>3. Named(progress[i].of, x) BY <1>1, <1>2, BeforeTheEnd DEF FileCovered, Covered
<1>4. PICK b \in OfResource(batches, progress[i].of) :
         batches[b].at = x /\ batches[b].stage \in {"manifesting", "complete"}
  BY <1>3 DEF Named
<1>5. batches[b].stage # "manifesting" BY <1>4 DEF HasInvalid, InvalidArtifact
<1>6. QED BY <1>4, <1>5 DEF Stored, Canonical, Selected

\* A run that reports COMPLETED closes a whole catalog, if it and the runs
\* before it began where something vouches for the pages before: every page has
\* a canonical batch, or the store has an artifact that its readers refuse.
THEOREM CompletedCatalogs == CollectCatalogSpec => []CompletedCatalogIsWhole
BY CatalogInvariance, CatalogInvMeans, PTL

-----------------------------------------------------------------------------
(* Comments, articles and their attachments: the inductive invariant       *)

Handled(a) == a \in refused \/ WholeComments(a)

\* What the comment run has been through is in the store or was refused, and
\* what it counts is that.
CommentsBehind(r) ==
  /\ \A a \in Articles \ r.left, b \in r.left : a < b
  /\ IsFiniteSet(Articles \ r.left) /\ r.processed = Cardinality(Articles \ r.left)
  /\ \A a \in Articles \ r.left : Handled(a)

\* And so are the pages before the one it reads; it writes a batch of its own.
CommentsHere(r) ==
  r.left # {} =>
    /\ r.page \in 1 .. CommentPages[Article(r)]
    /\ \A p \in 1 .. r.page - 1 : CommentStored(<<Article(r), p>>)
CommentBatchOK(r) ==
  r.pc \in {"fill", "manifest", "fillManifest"} =>
    /\ r.left # {} /\ r.batch \in DOMAIN comments
    /\ comments[r.batch].at = <<Article(r), r.page>> /\ comments[r.batch].stage # "complete"

CommentRunOK ==
  LET r == commentRun IN
  r.pc # "idle" =>
    /\ Len(commentFiles) > 0
    /\ r.pc = "discover" => r.page = 1 /\ r.processed = 0
    /\ r.pc # "discover" => CommentsBehind(r) /\ CommentsHere(r) /\ CommentBatchOK(r)

CommentInv == CommentTypeOK /\ CommentRunOK /\ ProcessedCommentsAreWhole

\* Every batch of the catalog's runners is of a page that there is.
BatchesHavePages == \A i \in DOMAIN batches : batches[i].at \in Pages(batches[i].of)

\* A download that is past the choice of a URL still has it before it.
HasCurrentUrl(d) == download[d].pc \notin {"idle", "next"} => download[d].left # {}

\* As long as downloads do not overlap: a temporary file that is written has one
\* writer, and what a run has entered or passed without a failure is stored whole.
DownloadIsSound(d) ==
  LET r == download[d] IN
  r.pc # "idle" =>
    /\ \A u \in r.cache : Whole(u)
    /\ ~r.failed => \A u \in r.refs \ (r.left \union r.missing) : Whole(u)
    /\ r.pc \in {"write", "check", "replace"} => partial[UrlOf(d)] = d
    /\ r.pc \in {"enter", "fill", "index"} => Whole(UrlOf(d))

FilesAreSound ==
  /\ \A u \in Urls : files[u] \in {"none", "whole"}
  /\ \A u \in attIndex : Whole(u)
  /\ attTmp # NoIndex => \A u \in attTmp : Whole(u)
  /\ \A m \in manifests : m.completed => \A u \in m.refs \ m.missing : Whole(u)

OneDownload == \A d, e \in Downloaders : ~DownloadAt(d, "idle") /\ ~DownloadAt(e, "idle") => d = e

AttachmentInv ==
  /\ AttachmentTypeOK
  /\ \A d \in Downloaders : HasCurrentUrl(d)
  /\ ~downloadsOverlapped => OneDownload /\ FilesAreSound /\ \A d \in Downloaders : DownloadIsSound(d)

CommunityInv == CatalogInv /\ BatchesHavePages /\ AttachmentInv /\ CommentInv

-----------------------------------------------------------------------------
(* Comments: the batches and the count                                     *)

LEMMA ArticleIsFirst ==
  ASSUME NEW r, r.left \subseteq Articles, r.left # {}
  PROVE  /\ Article(r) \in r.left /\ Article(r) \in Articles /\ Article(r) \in Nat
         /\ \A b \in r.left : Article(r) <= b
<1>1. \E x \in r.left : \A y \in r.left : x <= y BY FirstOf, CommentAssumption
<1> QED BY <1>1, CommentAssumption DEF Article

\* As many articles as lie behind the run are the ones behind it.
LEMMA CountIsBehind ==
  ASSUME NEW left, left \subseteq Articles, \A a \in Articles \ left, b \in left : a < b,
         IsFiniteSet(Articles \ left), NEW a \in Articles,
         Cardinality({b \in Articles : b <= a}) <= Cardinality(Articles \ left)
  PROVE  a \notin left
<1> SUFFICES ASSUME a \in left PROVE FALSE OBVIOUS
<1> DEFINE S == {b \in Articles : b <= a}
<1>n. a \in Nat /\ Articles \subseteq Nat BY CommentAssumption
<1>1. \A b \in S : b \in 0 .. a BY <1>n
<1>i. IsFiniteSet(0 .. a) BY <1>n, FS_Interval
<1>2. IsFiniteSet(S) BY <1>1, <1>i, FS_Subset
<1>3. a \in S BY <1>n
<1>4. Articles \ left \subseteq S \ {a} BY <1>n
<1> HIDE DEF S
<1>5. IsFiniteSet(S \ {a}) /\ Cardinality(S \ {a}) = Cardinality(S) - 1
  BY <1>2, <1>3, FS_RemoveElement
<1>6. Cardinality(Articles \ left) <= Cardinality(S \ {a}) BY <1>4, <1>5, FS_Subset
<1>7. Cardinality(S) \in Nat /\ Cardinality(Articles \ left) \in Nat BY <1>2, FS_CardinalityType
<1>8. Cardinality(S) <= Cardinality(Articles \ left) BY DEF S
<1> QED BY <1>5, <1>6, <1>7, <1>8

\* Batches of comments stay where they are, and a complete one stays complete.
CommentsGrow ==
  \A i \in DOMAIN comments :
    /\ i \in DOMAIN comments'
    /\ comments'[i].of = comments[i].of /\ comments'[i].at = comments[i].at
    /\ comments[i].stage = "complete" => comments'[i].stage = "complete"

LEMMA CommentStaysStored ==
  ASSUME CommentsGrow, NEW x, CommentStored(x)
  PROVE  CommentStored(x)'
<1>1. PICK i \in DOMAIN comments :
         comments[i].of = "article_comments" /\ comments[i].stage = "complete" /\ comments[i].at = x
  BY DEF CommentStored, Canonical, OfResource, Selected
<1>2. /\ i \in DOMAIN comments'
      /\ comments'[i].of = "article_comments" /\ comments'[i].stage = "complete" /\ comments'[i].at = x
  BY <1>1 DEF CommentsGrow
<1> QED BY <1>2 DEF CommentStored, Canonical, OfResource, Selected

LEMMA HandledStays ==
  ASSUME CommentsGrow, refused \subseteq refused', NEW a, Handled(a)
  PROVE  Handled(a)'
<1>1. WholeComments(a) => WholeComments(a)' BY CommentStaysStored DEF WholeComments
<1> QED BY <1>1 DEF Handled

LEMMA CommentStoreTyped ==
  ASSUME CommentTypeOK
  PROVE  /\ DOMAIN comments = 1 .. Len(comments) /\ Len(comments) \in Nat
         /\ \A i \in DOMAIN comments : comments[i] \in CommentBatches
BY ElementOfSeq DEF CommentTypeOK

LEMMA CommentsRest ==
  ASSUME UNCHANGED comments
  PROVE  CommentsGrow
BY DEF CommentsGrow

LEMMA OpenedComments ==
  ASSUME CommentTypeOK, NEW key \in Articles \X Nat,
         comments' = Opened(comments, "article_comments", key)
  PROVE  /\ comments' \in Seq(CommentBatches) /\ CommentsGrow
         /\ Len(comments) + 1 \in DOMAIN comments'
         /\ comments'[Len(comments) + 1].at = key /\ comments'[Len(comments) + 1].stage # "complete"
<1> DEFINE b == [of |-> "article_comments", at |-> key, stage |-> "sanitizing"]
<1>1. comments' = Append(comments, b) /\ b \in CommentBatches BY DEF Opened, CommentBatches, Stages
<1>2. b.at = key /\ b.stage # "complete" OBVIOUS
<1> HIDE DEF b
<1>t. comments \in Seq(CommentBatches) BY DEF CommentTypeOK
<1>3. /\ comments' \in Seq(CommentBatches) /\ Len(comments') = Len(comments) + 1
      /\ \A i \in 1 .. Len(comments) : comments'[i] = comments[i]
      /\ comments'[Len(comments) + 1] = b
  BY <1>1, <1>t, AppendProperties, CommentStoreTyped
<1>4. DOMAIN comments' = 1 .. Len(comments) + 1 BY <1>3, LenProperties
<1>5. CommentsGrow BY <1>3, <1>4, CommentStoreTyped DEF CommentsGrow
<1> QED BY <1>2, <1>3, <1>4, <1>5, CommentStoreTyped

LEMMA StagedComments ==
  ASSUME CommentTypeOK, NEW i \in DOMAIN comments, comments[i].stage # "complete",
         NEW s \in Stages, comments' = [comments EXCEPT ![i].stage = s]
  PROVE  /\ comments' \in Seq(CommentBatches) /\ CommentsGrow
         /\ i \in DOMAIN comments' /\ comments'[i].at = comments[i].at /\ comments'[i].stage = s
         /\ comments'[i].of = "article_comments"
<1> DEFINE b == [comments[i] EXCEPT !.stage = s]
<1>1. b \in CommentBatches /\ b.of = comments[i].of /\ b.at = comments[i].at /\ b.stage = s
      /\ b.of = "article_comments"
  BY CommentStoreTyped DEF CommentBatches
<1>2. comments' = [comments EXCEPT ![i] = b] OBVIOUS
<1> HIDE DEF b
<1>t. comments \in Seq(CommentBatches) BY DEF CommentTypeOK
<1>3. /\ comments' \in Seq(CommentBatches) /\ DOMAIN comments' = DOMAIN comments
      /\ \A j \in DOMAIN comments : comments'[j] = IF j = i THEN b ELSE comments[j]
  BY <1>1, <1>2, <1>t, CommentStoreTyped, ExceptSeq
<1> QED BY <1>1, <1>3 DEF CommentsGrow

-----------------------------------------------------------------------------
(* Comments: the progress files                                            *)

LEMMA CommentFilesTyped ==
  ASSUME CommentTypeOK
  PROVE  /\ DOMAIN commentFiles = 1 .. Len(commentFiles) /\ Len(commentFiles) \in Nat
         /\ \A i \in DOMAIN commentFiles : commentFiles[i] \in CommentProgress
BY ElementOfSeq DEF CommentTypeOK

\* What files say stays true; a new one says it of articles that were handled.
LEMMA FilesStayTrue ==
  ASSUME CommentInv, CommentsGrow, refused \subseteq refused',
         \A i \in DOMAIN commentFiles' :
            \/ i \in DOMAIN commentFiles /\ commentFiles'[i] = commentFiles[i]
            \/ \A a \in Processed(commentFiles'[i]) : Handled(a)'
  PROVE  ProcessedCommentsAreWhole'
<1> SUFFICES ASSUME NEW i \in DOMAIN commentFiles', NEW a \in Processed(commentFiles'[i])
             PROVE  Handled(a)'
  BY DEF ProcessedCommentsAreWhole, Handled, Processed
<1>1. CASE i \in DOMAIN commentFiles /\ commentFiles'[i] = commentFiles[i]
  <2>1. Handled(a) BY <1>1 DEF CommentInv, ProcessedCommentsAreWhole, Handled
  <2> QED BY <2>1, HandledStays
<1> QED BY <1>1

LEMMA FilesRest ==
  ASSUME CommentInv, CommentsGrow, refused \subseteq refused', UNCHANGED commentFiles
  PROVE  ProcessedCommentsAreWhole'
BY FilesStayTrue

LEMMA ReportedFile ==
  ASSUME CommentInv, Len(commentFiles) > 0, NEW n \in Nat,
         NEW s \in {"DISCOVERING_ARTICLES", "COLLECTING_COMMENTS", "COMPLETED"}, ReportAs(s, n)
  PROVE  /\ commentFiles' \in Seq(CommentProgress) /\ Len(commentFiles') = Len(commentFiles)
         /\ \A i \in DOMAIN commentFiles' :
              \/ i \in DOMAIN commentFiles /\ commentFiles'[i] = commentFiles[i]
              \/ commentFiles'[i] = [status |-> s, processed |-> n]
<1> DEFINE f == [status |-> s, processed |-> n]
<1>1. f \in CommentProgress /\ commentFiles' = [commentFiles EXCEPT ![Len(commentFiles)] = f]
  BY DEF CommentProgress, ReportAs
<1> HIDE DEF f
<1>2. commentFiles \in Seq(CommentProgress) /\ CommentTypeOK BY DEF CommentInv, CommentTypeOK
<1>3. Len(commentFiles) \in DOMAIN commentFiles BY <1>2, CommentFilesTyped
<1>4. /\ commentFiles' \in Seq(CommentProgress) /\ DOMAIN commentFiles' = DOMAIN commentFiles
      /\ Len(commentFiles') = Len(commentFiles)
      /\ \A i \in DOMAIN commentFiles :
           commentFiles'[i] = IF i = Len(commentFiles) THEN f ELSE commentFiles[i]
  BY <1>1, <1>2, <1>3, CommentFilesTyped, ExceptSeq
<1> QED BY <1>4 DEF f

\* A count of the articles behind the run stands for those.
LEMMA CountedAreHandled ==
  ASSUME NEW left, left \subseteq Articles, \A a \in Articles \ left, b \in left : a < b,
         IsFiniteSet(Articles \ left), \A a \in Articles \ left : Handled(a)',
         NEW s, s = "COMPLETED" => left = {},
         NEW a \in Processed([status |-> s, processed |-> Cardinality(Articles \ left)])
  PROVE  Handled(a)'
<1>1. a \in Articles BY DEF Processed
<1>2. CASE s = "COMPLETED" BY <1>1, <1>2
<1>3. CASE s # "COMPLETED"
  <2>1. Cardinality({b \in Articles : b <= a}) <= Cardinality(Articles \ left)
    BY <1>3 DEF Processed
  <2>2. a \notin left BY <1>1, <2>1, CountIsBehind
  <2> QED BY <1>1, <2>2
<1> QED BY <1>2, <1>3

-----------------------------------------------------------------------------
(* Comments: the steps keep the invariant                                  *)

LEMMA CommentRunTyped ==
  ASSUME CommentInv, ~CommentAt("idle")
  PROVE  /\ commentRun \in CommentRuns /\ Len(commentFiles) > 0
         /\ commentRun.pc \in {"discover", "page", "fill", "manifest", "fillManifest"}
         /\ commentRun.left \subseteq Articles /\ commentRun.page \in Nat
         /\ commentRun.tries \in 0 .. MaxRetries
         /\ commentRun.processed \in Nat /\ commentRun.batch \in Nat
<1>1. commentRun \in CommentRuns
  BY DEF CommentInv, CommentTypeOK, CommentAt, Idle
<1>2. commentRun.pc \in {"discover", "page", "fill", "manifest", "fillManifest"} BY <1>1 DEF CommentRuns
<1>3. Len(commentFiles) > 0 BY <1>2 DEF CommentInv, CommentRunOK
<1> QED BY <1>1, <1>2, <1>3 DEF CommentRuns

\* A run that stops leaves what the files say.
LEMMA CommentRunStops ==
  ASSUME CommentInv, commentRun' = Idle, UNCHANGED <<comments, commentFiles, refused>>
  PROVE  CommentInv'
<1>1. CommentTypeOK' BY DEF CommentInv, CommentTypeOK
<1>2. CommentRunOK' BY DEF CommentRunOK, Idle
<1>3. ProcessedCommentsAreWhole' BY FilesRest, CommentsRest
<1> QED BY <1>1, <1>2, <1>3 DEF CommentInv

LEMMA CommentsStutter ==
  ASSUME CommentInv, UNCHANGED commentVars
  PROVE  CommentInv'
<1>1. UNCHANGED <<comments, commentFiles, commentRun, refused>> BY DEF commentVars
<1>2. CommentTypeOK' BY <1>1 DEF CommentInv, CommentTypeOK
<1>3. ProcessedCommentsAreWhole' BY <1>1, FilesRest, CommentsRest
<1>4. CommentRunOK'
  <2>1. (\A x : CommentStored(x)' <=> CommentStored(x)) /\ \A a : Handled(a)' <=> Handled(a)
    BY <1>1 DEF Handled, WholeComments, CommentStored, Canonical, OfResource
  <2>2. Article(commentRun)' = Article(commentRun) BY <1>1 DEF Article
  <2>3. CommentsBehind(commentRun)' <=> CommentsBehind(commentRun) BY <1>1, <2>1 DEF CommentsBehind
  <2>4. CommentsHere(commentRun)' <=> CommentsHere(commentRun) BY <1>1, <2>1, <2>2 DEF CommentsHere
  <2>5. CommentBatchOK(commentRun)' <=> CommentBatchOK(commentRun) BY <1>1, <2>2 DEF CommentBatchOK
  <2> QED BY <1>1, <2>3, <2>4, <2>5 DEF CommentInv, CommentRunOK
<1> QED BY <1>2, <1>3, <1>4 DEF CommentInv

LEMMA BeginCommentsKeeps ==
  ASSUME CommentInv, BeginComments
  PROVE  CommentInv'
<1> DEFINE f == [status |-> "DISCOVERING_ARTICLES", processed |-> 0]
           r == [pc |-> "discover", left |-> {}, page |-> 1, tries |-> 0, processed |-> 0, batch |-> 0]
<1>1. f \in CommentProgress /\ commentFiles' = Append(commentFiles, f) BY DEF CommentProgress, BeginComments
<1>2. UNCHANGED <<comments, refused>> /\ commentRun' = r BY DEF BeginComments
<1>t. commentFiles \in Seq(CommentProgress) /\ CommentTypeOK BY DEF CommentInv, CommentTypeOK
<1>r. r \in CommentRuns /\ r.pc = "discover" /\ r.page = 1 /\ r.processed = 0
  BY CollectionAssumption DEF CommentRuns
<1>f. \A a : a \notin Processed(f)
  <2> SUFFICES ASSUME NEW a \in Processed(f) PROVE FALSE OBVIOUS
  <2>1. a \in Articles /\ Cardinality({b \in Articles : b <= a}) <= 0 BY DEF Processed
  <2>2. Articles \ Articles = {} /\ Cardinality({}) = 0 /\ IsFiniteSet({}) BY FS_EmptySet
  <2>3. a \notin Articles BY <2>1, <2>2, CountIsBehind
  <2> QED BY <2>1, <2>3
<1> HIDE DEF f, r
<1>3. /\ commentFiles' \in Seq(CommentProgress) /\ Len(commentFiles') = Len(commentFiles) + 1
      /\ \A i \in 1 .. Len(commentFiles) : commentFiles'[i] = commentFiles[i]
      /\ commentFiles'[Len(commentFiles) + 1] = f
  BY <1>1, <1>t, AppendProperties, CommentFilesTyped
<1>4. DOMAIN commentFiles' = 1 .. Len(commentFiles) + 1 BY <1>3, LenProperties
<1>5. \A i \in DOMAIN commentFiles' :
         \/ i \in DOMAIN commentFiles /\ commentFiles'[i] = commentFiles[i]
         \/ commentFiles'[i] = f
  BY <1>3, <1>4, <1>t, CommentFilesTyped
<1>6. ProcessedCommentsAreWhole' BY <1>2, <1>5, <1>f, FilesStayTrue, CommentsRest
<1>7. CommentTypeOK' BY <1>2, <1>3, <1>t, <1>r DEF CommentTypeOK
<1>8. CommentRunOK' BY <1>2, <1>3, <1>t, <1>r, CommentFilesTyped DEF CommentRunOK
<1> QED BY <1>6, <1>7, <1>8 DEF CommentInv

LEMMA ArticleHasPages ==
  ASSUME NEW a \in Articles
  PROVE  CommentPages[a] \in Nat /\ 1 \in 1 .. CommentPages[a]
<1>1. CommentPages[a] \in Nat \ {0} BY CommentAssumption
<1> QED BY <1>1

LEMMA DiscoverKeeps ==
  ASSUME CommentInv, Discover
  PROVE  CommentInv'
<1>1. commentRun.pc = "discover" /\ ~CommentAt("idle") BY DEF Discover, CommentAt
<1>2. UNCHANGED <<comments, refused>> /\ ReportAs("COLLECTING_COMMENTS", 0) BY DEF Discover
<1>3. commentRun \in CommentRuns /\ Len(commentFiles) > 0 /\ commentRun.page = 1 /\ commentRun.processed = 0
  BY <1>1, CommentRunTyped DEF CommentInv, CommentRunOK
<1>4. /\ commentRun' \in CommentRuns /\ commentRun'.pc = "page" /\ commentRun'.left = Articles
      /\ commentRun'.page = 1 /\ commentRun'.processed = 0
  BY <1>3 DEF Discover, CommentRuns
<1>5. Articles \ Articles = {} /\ Cardinality({}) = 0 /\ IsFiniteSet({}) BY FS_EmptySet
<1>6. /\ commentFiles' \in Seq(CommentProgress) /\ Len(commentFiles') = Len(commentFiles)
      /\ \A i \in DOMAIN commentFiles' :
           \/ i \in DOMAIN commentFiles /\ commentFiles'[i] = commentFiles[i]
           \/ commentFiles'[i] = [status |-> "COLLECTING_COMMENTS", processed |-> 0]
  BY <1>2, <1>3, ReportedFile
<1>7. \A a \in Processed([status |-> "COLLECTING_COMMENTS", processed |-> 0]) : Handled(a)'
  BY <1>5, CountedAreHandled
<1>8. ProcessedCommentsAreWhole' BY <1>2, <1>6, <1>7, FilesStayTrue, CommentsRest
<1>9. CommentTypeOK' BY <1>2, <1>4, <1>6 DEF CommentInv, CommentTypeOK
<1>10. CommentRunOK'
  <2>1. CommentsBehind(commentRun)' BY <1>4, <1>5 DEF CommentsBehind
  <2>2. CommentsHere(commentRun)'
    <3> SUFFICES ASSUME commentRun'.left # {}
                 PROVE  1 \in 1 .. CommentPages[Article(commentRun')] BY <1>4 DEF CommentsHere
    <3>1. Article(commentRun') \in Articles BY <1>4, ArticleIsFirst
    <3> QED BY <3>1, ArticleHasPages
  <2> QED BY <1>3, <1>4, <1>6, <2>1, <2>2 DEF CommentRunOK, CommentBatchOK
<1> QED BY <1>8, <1>9, <1>10 DEF CommentInv

\* A run at an article.
LEMMA AtArticle ==
  ASSUME CommentInv, commentRun.pc \in {"page", "fill", "manifest", "fillManifest"}, commentRun.left # {}
  PROVE  /\ commentRun \in CommentRuns /\ Len(commentFiles) > 0
         /\ commentRun.left \subseteq Articles /\ commentRun.page \in Nat /\ commentRun.page > 0
         /\ commentRun.processed \in Nat
         /\ CommentsBehind(commentRun) /\ CommentsHere(commentRun) /\ CommentBatchOK(commentRun)
         /\ Article(commentRun) \in commentRun.left /\ Article(commentRun) \in Articles
         /\ \A b \in commentRun.left : Article(commentRun) <= b
         /\ CommentPages[Article(commentRun)] \in Nat
<1>1. ~CommentAt("idle") BY DEF CommentAt
<1>2. commentRun.left \subseteq Articles /\ commentRun.page \in Nat /\ commentRun \in CommentRuns
      /\ Len(commentFiles) > 0 /\ commentRun.processed \in Nat
  BY <1>1, CommentRunTyped
<1>3. CommentsBehind(commentRun) /\ CommentsHere(commentRun) /\ CommentBatchOK(commentRun)
  BY DEF CommentInv, CommentRunOK
<1>4. commentRun.page > 0 BY <1>2, <1>3 DEF CommentsHere
<1>5. Article(commentRun) \in commentRun.left /\ Article(commentRun) \in Articles
      /\ \A b \in commentRun.left : Article(commentRun) <= b
  BY <1>2, ArticleIsFirst
<1>6. CommentPages[Article(commentRun)] \in Nat BY <1>5, CommentAssumption
<1> QED BY <1>2, <1>3, <1>4, <1>5, <1>6

\* A run that stays at its article, and goes on in it or to its next page.
LEMMA StaysAtArticle ==
  ASSUME CommentInv, NEW A, A = Article(commentRun), commentRun.pc \in {"page", "fill", "manifest", "fillManifest"}, commentRun.left # {},
         CommentsGrow, comments' \in Seq(CommentBatches), UNCHANGED <<commentFiles, refused>>,
         commentRun' \in CommentRuns, commentRun'.pc # "discover",
         commentRun'.left = commentRun.left, commentRun'.processed = commentRun.processed,
         \/ commentRun'.page = commentRun.page
         \/ /\ commentRun'.page = commentRun.page + 1 /\ commentRun.page < CommentPages[A]
            /\ \E p : p = commentRun.page /\ CommentStored(<<A, p>>)',
         commentRun'.pc \in {"fill", "manifest", "fillManifest"} =>
            /\ commentRun'.batch \in DOMAIN comments' /\ comments'[commentRun'.batch].stage # "complete"
            /\ comments'[commentRun'.batch].at = <<A, commentRun'.page>>
  PROVE  CommentInv'
<1>1. CommentTypeOK' BY DEF CommentInv, CommentTypeOK
<1>2. ProcessedCommentsAreWhole' BY FilesRest
<1>3. Article(commentRun') = A BY DEF Article
<1>4. CommentsBehind(commentRun)'
  <2>1. CommentsBehind(commentRun) BY AtArticle
  <2>2. \A a : Handled(a) => Handled(a)' BY HandledStays
  <2> QED BY <2>1, <2>2 DEF CommentsBehind
<1>5. CommentsHere(commentRun)'
  <2>1. /\ commentRun.page \in 1 .. CommentPages[A] /\ CommentPages[A] \in Nat /\ commentRun.page \in Nat
        /\ \A p \in 1 .. commentRun.page - 1 : CommentStored(<<A, p>>)
    BY AtArticle DEF CommentsHere
  <2>2. commentRun'.page \in 1 .. CommentPages[A] BY <2>1
  <2>3. ASSUME NEW p \in 1 .. commentRun'.page - 1 PROVE CommentStored(<<A, p>>)'
    <3>1. CASE p \in 1 .. commentRun.page - 1 BY <2>1, <3>1, CommentStaysStored
    <3>2. CASE p \notin 1 .. commentRun.page - 1
      <4>1. commentRun'.page = commentRun.page + 1 /\ p = commentRun.page BY <2>1, <3>2
      <4>2. commentRun'.page # commentRun.page BY <2>1, <4>1
      <4> QED BY <4>1, <4>2
    <3> QED BY <3>1, <3>2
  <2> QED BY <1>3, <2>2, <2>3 DEF CommentsHere
<1>6. CommentBatchOK(commentRun)' BY <1>3 DEF CommentBatchOK
<1>7. Len(commentFiles') > 0 BY AtArticle
<1>8. CommentRunOK' BY <1>4, <1>5, <1>6, <1>7 DEF CommentRunOK
<1> QED BY <1>1, <1>2, <1>8 DEF CommentInv

\* A run that leaves its article, which was handled.
LEMMA LeaveArticleKeeps ==
  ASSUME CommentInv, commentRun.pc \in {"page", "fill", "manifest", "fillManifest"}, commentRun.left # {},
         CommentsGrow, comments' \in Seq(CommentBatches), refused \subseteq refused', refused' \subseteq Articles,
         LeaveArticle, NEW A, A = Article(commentRun), Handled(A)'
  PROVE  CommentInv'
<1>l. PICK left : left = commentRun.left \ {A} OBVIOUS
<1>1. /\ commentRun' \in CommentRuns /\ commentRun'.pc = "page" /\ commentRun'.left = left
      /\ commentRun'.page = 1 /\ commentRun'.processed = commentRun.processed + 1
  <2>1. commentRun' = [commentRun EXCEPT !.pc = "page", !.left = left, !.page = 1, !.tries = 0,
                                         !.processed = commentRun.processed + 1]
    BY <1>l DEF LeaveArticle, ArticleDone
  <2>2. commentRun \in CommentRuns /\ left \in SUBSET Articles /\ commentRun.processed + 1 \in Nat
    BY <1>l, AtArticle
  <2>3. 0 \in 0 .. MaxRetries BY CollectionAssumption
  <2> QED BY <2>1, <2>2, <2>3 DEF CommentRuns
<1>2. left \subseteq Articles /\ Articles \ left = (Articles \ commentRun.left) \union {A}
      /\ A \notin Articles \ commentRun.left
  BY <1>l, AtArticle
<1>b. CommentsBehind(commentRun) BY AtArticle
<1>3. IsFiniteSet(Articles \ left) /\ Cardinality(Articles \ left) = commentRun'.processed
  <2>1. IsFiniteSet(Articles \ commentRun.left) /\ commentRun.processed = Cardinality(Articles \ commentRun.left)
    BY <1>b DEF CommentsBehind
  <2>2. /\ IsFiniteSet((Articles \ commentRun.left) \union {A})
        /\ Cardinality((Articles \ commentRun.left) \union {A}) = Cardinality(Articles \ commentRun.left) + 1
    BY <1>2, <2>1, FS_AddElement
  <2> QED BY <1>1, <1>2, <2>1, <2>2
<1>4. \A a \in Articles \ left : Handled(a)'
  <2>1. \A a \in Articles \ commentRun.left : Handled(a) BY <1>b DEF CommentsBehind
  <2>2. \A a \in Articles \ commentRun.left : Handled(a)' BY <2>1, HandledStays
  <2> QED BY <1>2, <2>2
<1>5. \A a \in Articles \ left, b \in left : a < b
  <2> SUFFICES ASSUME NEW a \in Articles \ left, NEW b \in left PROVE a < b OBVIOUS
  <2>1. CASE a \in Articles \ commentRun.left BY <1>l, <1>b, <2>1 DEF CommentsBehind
  <2>2. CASE a = A
    <3>1. A <= b /\ A # b /\ b \in Nat /\ A \in Nat BY <1>l, AtArticle, CommentAssumption
    <3> QED BY <2>2, <3>1
  <2> QED BY <1>2, <2>1, <2>2
<1>6. CommentsBehind(commentRun)' BY <1>1, <1>3, <1>4, <1>5 DEF CommentsBehind
<1>7. CommentsHere(commentRun)'
  <2> SUFFICES ASSUME left # {} PROVE 1 \in 1 .. CommentPages[Article(commentRun')] BY <1>1 DEF CommentsHere
  <2>1. Article(commentRun') \in Articles BY <1>1, <1>2, ArticleIsFirst
  <2> QED BY <2>1, ArticleHasPages
<1>8. Len(commentFiles) > 0 /\ commentRun'.processed \in Nat BY <1>1, AtArticle
<1>9. /\ commentFiles' \in Seq(CommentProgress) /\ Len(commentFiles') = Len(commentFiles)
      /\ ProcessedCommentsAreWhole'
  <2>1. CASE UNCHANGED commentFiles BY <2>1, FilesRest DEF CommentInv, CommentTypeOK
  <2>2. CASE ReportAs("COLLECTING_COMMENTS", commentRun'.processed)
    <3> DEFINE f == [status |-> "COLLECTING_COMMENTS", processed |-> commentRun'.processed]
    <3>1. \A a \in Processed(f) : Handled(a)' BY <1>2, <1>3, <1>4, <1>5, CountedAreHandled
    <3>2. /\ commentFiles' \in Seq(CommentProgress) /\ Len(commentFiles') = Len(commentFiles)
          /\ \A i \in DOMAIN commentFiles' :
               \/ i \in DOMAIN commentFiles /\ commentFiles'[i] = commentFiles[i]
               \/ commentFiles'[i] = f
      BY <1>8, <2>2, ReportedFile
    <3> HIDE DEF f
    <3> QED BY <3>1, <3>2, FilesStayTrue
  <2> QED BY <2>1, <2>2 DEF LeaveArticle
<1>10. CommentTypeOK' BY <1>1, <1>9 DEF CommentTypeOK
<1>11. CommentRunOK' BY <1>1, <1>6, <1>7, <1>8, <1>9 DEF CommentRunOK, CommentBatchOK
<1> QED BY <1>9, <1>10, <1>11 DEF CommentInv

LEMMA ReadCommentsKeeps ==
  ASSUME CommentInv, ReadComments
  PROVE  CommentInv'
<1>1. PICK A : A = Article(commentRun) OBVIOUS
<1>2. commentRun.pc = "page" /\ commentRun.left # {} BY DEF ReadComments, Asking, CommentAt
<1>3. /\ comments' = Opened(comments, "article_comments", <<A, commentRun.page>>)
      /\ commentRun' = [commentRun EXCEPT !.pc = "fill", !.batch = Len(comments) + 1]
      /\ UNCHANGED <<commentFiles, refused>>
  BY <1>1 DEF ReadComments
<1>4. CommentTypeOK /\ commentRun \in CommentRuns /\ <<A, commentRun.page>> \in Articles \X Nat
  BY <1>1, <1>2, AtArticle DEF CommentInv
<1>5. /\ comments' \in Seq(CommentBatches) /\ CommentsGrow
      /\ Len(comments) + 1 \in DOMAIN comments'
      /\ comments'[Len(comments) + 1].at = <<A, commentRun.page>> /\ comments'[Len(comments) + 1].stage # "complete"
  BY <1>3, <1>4, OpenedComments
<1>6. Len(comments) + 1 \in Nat BY <1>4, CommentStoreTyped
<1>7. /\ commentRun' \in CommentRuns /\ commentRun'.pc = "fill" /\ commentRun'.batch = Len(comments) + 1
      /\ commentRun'.left = commentRun.left /\ commentRun'.processed = commentRun.processed
      /\ commentRun'.page = commentRun.page
  BY <1>3, <1>4, <1>6 DEF CommentRuns
<1> QED BY <1>1, <1>2, <1>3, <1>5, <1>7, StaysAtArticle

\* A run that writes on, into its own batch.
LEMMA WriteCommentsKeeps ==
  ASSUME CommentInv, FillComments \/ OpenCommentManifest
  PROVE  CommentInv'
<1>1. PICK A : A = Article(commentRun) OBVIOUS
<1>2. PICK s \in {"sanitized", "manifesting"}, pc \in {"manifest", "fillManifest"} :
         /\ comments' = [comments EXCEPT ![commentRun.batch].stage = s]
         /\ commentRun' = [commentRun EXCEPT !.pc = pc]
  BY DEF FillComments, OpenCommentManifest, Filled, ManifestOpened, CommentGoto
<1>3. commentRun.pc \in {"fill", "manifest"} /\ UNCHANGED <<commentFiles, refused>>
  BY DEF FillComments, OpenCommentManifest, CommentAt
<1>4. ~CommentAt("idle") BY <1>3 DEF CommentAt
<1>5. CommentTypeOK /\ commentRun \in CommentRuns BY <1>4, CommentRunTyped DEF CommentInv
<1>6. /\ commentRun.left # {} /\ commentRun.batch \in DOMAIN comments
      /\ comments[commentRun.batch].at = <<A, commentRun.page>> /\ comments[commentRun.batch].stage # "complete"
  BY <1>1, <1>3 DEF CommentInv, CommentRunOK, CommentBatchOK
<1>7. s \in Stages /\ s # "complete" BY DEF Stages
<1>8. /\ comments' \in Seq(CommentBatches) /\ CommentsGrow
      /\ commentRun.batch \in DOMAIN comments'
      /\ comments'[commentRun.batch].at = comments[commentRun.batch].at /\ comments'[commentRun.batch].stage = s
  BY <1>2, <1>5, <1>6, <1>7, StagedComments
<1>9. /\ commentRun' \in CommentRuns /\ commentRun'.pc = pc /\ commentRun'.batch = commentRun.batch
      /\ commentRun'.left = commentRun.left /\ commentRun'.processed = commentRun.processed
      /\ commentRun'.page = commentRun.page
  BY <1>2, <1>5 DEF CommentRuns
<1> QED BY <1>1, <1>3, <1>6, <1>7, <1>8, <1>9, StaysAtArticle

LEMMA CommentsRefusedKeeps ==
  ASSUME CommentInv, CommentsRefused
  PROVE  CommentInv'
<1>1. PICK A : A = Article(commentRun) OBVIOUS
<1>2. commentRun.pc = "page" /\ commentRun.left # {} BY DEF CommentsRefused, Asking, CommentAt
<1>3. refused' = refused \union {A} /\ LeaveArticle /\ UNCHANGED comments BY <1>1 DEF CommentsRefused
<1>4. A \in Articles BY <1>1, <1>2, AtArticle
<1>5. comments \in Seq(CommentBatches) /\ refused \subseteq Articles BY DEF CommentInv, CommentTypeOK
<1>6. Handled(A)' BY <1>3 DEF Handled
<1> QED BY <1>1, <1>2, <1>3, <1>4, <1>5, <1>6, CommentsRest, LeaveArticleKeeps

LEMMA CommentsRateLimitedKeeps ==
  ASSUME CommentInv, CommentsRateLimited
  PROVE  CommentInv'
<1>1. PICK A : A = Article(commentRun) OBVIOUS
<1>2. commentRun.pc = "page" /\ commentRun.left # {} /\ UNCHANGED <<comments, commentFiles, refused>>
  BY DEF CommentsRateLimited, Asking, CommentAt
<1>3. CASE commentRun' = Idle BY <1>2, <1>3, CommentRunStops
<1>4. CASE commentRun.tries < MaxRetries /\ commentRun' = [commentRun EXCEPT !.tries = @ + 1]
  <2>1. commentRun \in CommentRuns BY <1>2, AtArticle
  <2>2. commentRun.tries + 1 \in 0 .. MaxRetries BY <1>4, <2>1, CollectionAssumption DEF CommentRuns
  <2>3. /\ commentRun' \in CommentRuns /\ commentRun'.pc = "page"
        /\ commentRun'.left = commentRun.left /\ commentRun'.processed = commentRun.processed
        /\ commentRun'.page = commentRun.page
    BY <1>2, <1>4, <2>1, <2>2 DEF CommentRuns
  <2>4. comments' \in Seq(CommentBatches) BY <1>2 DEF CommentInv, CommentTypeOK
  <2> QED BY <1>1, <1>2, <2>3, <2>4, CommentsRest, StaysAtArticle
<1> QED BY <1>3, <1>4 DEF CommentsRateLimited

LEMMA FillCommentManifestKeeps ==
  ASSUME CommentInv, FillCommentManifest
  PROVE  CommentInv'
<1>1. PICK A : A = Article(commentRun) OBVIOUS
<1>2. PICK n : n = commentRun.page OBVIOUS
<1>3. commentRun.pc = "fillManifest" /\ UNCHANGED refused /\ ~CommentAt("idle")
      /\ comments' = [comments EXCEPT ![commentRun.batch].stage = "complete"]
  BY DEF FillCommentManifest, CommentAt, ManifestFilled
<1>4. CommentTypeOK /\ commentRun \in CommentRuns BY <1>3, CommentRunTyped DEF CommentInv
<1>5. /\ commentRun.left # {} /\ commentRun.batch \in DOMAIN comments
      /\ comments[commentRun.batch].at = <<A, n>> /\ comments[commentRun.batch].stage # "complete"
  BY <1>1, <1>2, <1>3 DEF CommentInv, CommentRunOK, CommentBatchOK
<1>6. /\ comments' \in Seq(CommentBatches) /\ CommentsGrow
      /\ commentRun.batch \in DOMAIN comments'
      /\ comments'[commentRun.batch].at = <<A, n>> /\ comments'[commentRun.batch].stage = "complete"
      /\ comments'[commentRun.batch].of = "article_comments"
  BY <1>3, <1>4, <1>5, StagedComments DEF Stages
<1>7. CommentStored(<<A, n>>)'
  BY <1>6 DEF CommentStored, Canonical, OfResource, Selected
<1>8. n \in 1 .. CommentPages[A] /\ CommentPages[A] \in Nat /\ \A p \in 1 .. n - 1 : CommentStored(<<A, p>>)
  BY <1>1, <1>2, <1>3, <1>5, AtArticle DEF CommentsHere
<1>9. CASE n < CommentPages[A]
  <2>1. commentRun' = [commentRun EXCEPT !.pc = "page", !.page = n + 1, !.tries = 0] /\ UNCHANGED commentFiles
    BY <1>1, <1>2, <1>9 DEF FillCommentManifest
  <2>2. n + 1 \in Nat /\ 0 \in 0 .. MaxRetries BY <1>8, CollectionAssumption
  <2>3. /\ commentRun' \in CommentRuns /\ commentRun'.pc = "page" /\ commentRun'.page = n + 1
        /\ commentRun'.left = commentRun.left /\ commentRun'.processed = commentRun.processed
    BY <1>4, <2>1, <2>2 DEF CommentRuns
  <2> QED BY <1>1, <1>2, <1>3, <1>5, <1>6, <1>7, <1>9, <2>1, <2>3, StaysAtArticle
<1>10. CASE ~(n < CommentPages[A])
  <2>1. LeaveArticle BY <1>1, <1>2, <1>10 DEF FillCommentManifest
  <2>2. \A p \in 1 .. CommentPages[A] : CommentStored(<<A, p>>)'
    <3> SUFFICES ASSUME NEW p \in 1 .. CommentPages[A] PROVE CommentStored(<<A, p>>)' OBVIOUS
    <3>1. CASE p = n BY <1>7, <3>1
    <3>2. CASE p # n
      <4>1. p \in 1 .. n - 1 BY <1>8, <1>10, <3>2
      <4>2. CommentStored(<<A, p>>) BY <1>8, <4>1
      <4> QED BY <1>6, <4>2, CommentStaysStored
    <3> QED BY <3>1, <3>2
  <2>3. Handled(A)' BY <2>2 DEF Handled, WholeComments
  <2>4. refused' \subseteq Articles BY <1>3, <1>4 DEF CommentTypeOK
  <2> QED BY <1>1, <1>3, <1>5, <1>6, <2>1, <2>3, <2>4, LeaveArticleKeeps
<1> QED BY <1>9, <1>10

LEMMA FinishCommentsKeeps ==
  ASSUME CommentInv, FinishComments
  PROVE  CommentInv'
<1>1. /\ commentRun.pc = "page" /\ commentRun.left = {} /\ ~CommentAt("idle")
      /\ ReportAs("COMPLETED", commentRun.processed) /\ commentRun' = Idle /\ UNCHANGED <<comments, refused>>
  BY DEF FinishComments, CommentAt
<1>2. PICK n \in Nat : n = commentRun.processed BY <1>1, CommentRunTyped
<1>3. CommentsBehind(commentRun) /\ Len(commentFiles) > 0
  BY <1>1, CommentRunTyped DEF CommentInv, CommentRunOK
<1>4. \A a \in Articles : Handled(a)'
  <2>1. \A a \in Articles : Handled(a) BY <1>1, <1>3 DEF CommentsBehind
  <2> QED BY <1>1, <2>1, CommentsRest, HandledStays
<1>5. \A a \in Processed([status |-> "COMPLETED", processed |-> n]) : Handled(a)' BY <1>4 DEF Processed
<1>6. /\ commentFiles' \in Seq(CommentProgress)
      /\ \A i \in DOMAIN commentFiles' :
           \/ i \in DOMAIN commentFiles /\ commentFiles'[i] = commentFiles[i]
           \/ commentFiles'[i] = [status |-> "COMPLETED", processed |-> n]
  BY <1>1, <1>2, <1>3, ReportedFile
<1>7. ProcessedCommentsAreWhole' BY <1>1, <1>5, <1>6, FilesStayTrue, CommentsRest
<1>8. CommentTypeOK' BY <1>1, <1>6 DEF CommentInv, CommentTypeOK
<1>9. CommentRunOK' BY <1>1 DEF CommentRunOK, Idle
<1> QED BY <1>7, <1>8, <1>9 DEF CommentInv

LEMMA CommentStepKeeps ==
  ASSUME CommentInv, CommentNext
  PROVE  CommentInv'
<1>1. CASE CommentsFail BY <1>1, CommentRunStops DEF CommentsFail
<1> QED BY <1>1, BeginCommentsKeeps, DiscoverKeeps, ReadCommentsKeeps, CommentsRefusedKeeps, CommentsRateLimitedKeeps,
           WriteCommentsKeeps, FillCommentManifestKeeps, FinishCommentsKeeps DEF CommentNext

-----------------------------------------------------------------------------
(* Articles: every batch has a page                                        *)

LEMMA PagesStay ==
  ASSUME BatchesHavePages, UNCHANGED batches
  PROVE  BatchesHavePages'
BY DEF BatchesHavePages, Pages

LEMMA StagedHasPages ==
  ASSUME BatchesHavePages, NEW i, NEW s, batches' = [batches EXCEPT ![i].stage = s]
  PROVE  BatchesHavePages'
<1> SUFFICES ASSUME NEW j \in DOMAIN batches' PROVE batches'[j].at \in Pages(batches'[j].of)
  BY DEF BatchesHavePages, Pages
<1>1. j \in DOMAIN batches /\ batches[j].at \in Pages(batches[j].of) BY DEF BatchesHavePages
<1>2. batches'[j].of = batches[j].of /\ batches'[j].at = batches[j].at BY <1>1
<1> QED BY <1>1, <1>2

LEMMA CatalogStepHasPages ==
  ASSUME CatalogInv, BatchesHavePages, NEW c \in Collectors, CatalogStep(c)
  PROVE  BatchesHavePages'
<1>1. CASE UNCHANGED batches BY <1>1, PagesStay
<1>2. CASE ReadPage(c)
  <2>1. CatalogRunOK(c) /\ run[c].pc = "page" /\ run[c].at # End(run[c].of)
    BY <1>2 DEF CatalogInv, ReadPage, At, AtEnd
  <2>2. run[c].at \in Pages(run[c].of) BY <2>1 DEF CatalogRunOK, Places
  <2>3. PICK res, x : res = run[c].of /\ x = run[c].at OBVIOUS
  <2>4. PICK b : b = [of |-> res, at |-> x, stage |-> "sanitizing"] OBVIOUS
  <2>5. batches' = Append(batches, b) /\ b.of = res /\ b.at = x
    BY <1>2, <2>3, <2>4 DEF ReadPage, Opened
  <2>6. res \in Resources /\ x \in Positions /\ batches \in Seq(CatalogBatches)
    BY <2>1, <2>3, CatalogFacts DEF CatalogInv, CatalogTypes, Runs, Idle
  <2>7. b \in CatalogBatches BY <2>4, <2>6 DEF CatalogBatches, Stages
  <2>8. /\ Len(batches) \in Nat /\ DOMAIN batches = 1 .. Len(batches)
        /\ DOMAIN batches' = 1 .. Len(batches) + 1
        /\ \A i \in 1 .. Len(batches) : batches'[i] = batches[i]
        /\ batches'[Len(batches) + 1] = b
    BY <2>5, <2>6, <2>7, AppendProperties, LenProperties
  <2>9. ASSUME NEW i \in DOMAIN batches' PROVE batches'[i].at \in Pages(batches'[i].of)
    <3>1. CASE i \in DOMAIN batches BY <2>8, <3>1 DEF BatchesHavePages
    <3>2. CASE i \notin DOMAIN batches
      <4>1. i = Len(batches) + 1 BY <2>8, <2>9, <3>2
      <4> QED BY <2>2, <2>3, <2>5, <2>8, <4>1
    <3> QED BY <3>1, <3>2
  <2> QED BY <2>9 DEF BatchesHavePages, Pages
<1>3. CASE FillPage(c) \/ OpenManifest(c) \/ FillManifest(c)
  <2>1. \E i, s : batches' = [batches EXCEPT ![i].stage = s]
    BY <1>3 DEF FillPage, OpenManifest, FillManifest, Filled, ManifestOpened, ManifestFilled
  <2> QED BY <2>1, StagedHasPages
<1>4. ReadPage(c) \/ FillPage(c) \/ OpenManifest(c) \/ FillManifest(c) \/ UNCHANGED batches
  BY DEF CatalogStep, PageStep, BeginCatalog, Begin, RateLimited, SaveProgress, FinishCatalog, Finish,
         FailProducts, FailSilently, Fail
<1> QED BY <1>1, <1>2, <1>3, <1>4

\* The URLs of the articles are URLs, and finitely many.
LEMMA ArticleUrlsAreFinite ==
  ASSUME CatalogInv, BatchesHavePages
  PROVE  ArticleUrls \subseteq Urls /\ IsFiniteSet(ArticleUrls)
<1> DEFINE Lists == {AttachedTo[o] : o \in Orders}
<1>1. \A T \in Lists : T \subseteq Urls /\ IsFiniteSet(T) BY AttachmentAssumption
<1>2. IsFiniteSet(Lists)
  <2> DEFINE f == [o \in Orders |-> AttachedTo[o]]
  <2>1. f \in Surjection(Orders, Lists) BY DEF Surjection
  <2> HIDE DEF f, Lists
  <2> QED BY <2>1, FS_Surjection, CollectionAssumption
<1>3. ArticleUrls \subseteq UNION Lists
  <2> SUFFICES ASSUME NEW u \in ArticleUrls PROVE u \in UNION Lists OBVIOUS
  <2>1. PICK i \in Canonical(batches, "articles") : u \in UNION {AttachedTo[o] : o \in Records(batches[i])}
    BY DEF ArticleUrls
  <2>2. i \in DOMAIN batches BY <2>1 DEF Canonical, OfResource
  <2>3. PICK o \in Records(batches[i]) : u \in AttachedTo[o] BY <2>1
  <2>4. batches[i].of \in Resources /\ batches[i].at \in Pages(batches[i].of)
    BY <2>2, CatalogFacts DEF BatchesHavePages, CatalogBatches
  <2>5. Records(batches[i]) \subseteq Orders BY <2>4, RecordsOfPage DEF Records
  <2> QED BY <2>3, <2>5
<1> HIDE DEF Lists
<1>4. IsFiniteSet(UNION Lists) BY <1>1, <1>2, FS_UNION
<1> QED BY <1>1, <1>3, <1>4, FS_Subset

\* A report that counts as many attachments missing as it finds unlisted has
\* found each of them, if none that was missing is listed.
LEMMA PassedReportIsWhole ==
  ASSUME CatalogInv, BatchesHavePages, CommunityReportPasses, ~FoundAgain, NEW u \in ArticleUrls
  PROVE  Whole(u) \/ \E m \in manifests : m.completed /\ u \in m.missing
<1> DEFINE unlisted == ArticleUrls \ attIndex
           reported == ReportedMissing \intersect ArticleUrls
<1>1. IsFiniteSet(unlisted) BY ArticleUrlsAreFinite, FS_Subset
<1>2. reported \subseteq unlisted BY DEF FoundAgain
<1>3. Cardinality(unlisted) <= Cardinality(reported) BY DEF CommunityReportPasses
<1>4. u \in attIndex => Whole(u) BY DEF CommunityReportPasses
<1>5. ASSUME u \in reported PROVE \E m \in manifests : m.completed /\ u \in m.missing
  BY <1>5 DEF ReportedMissing
<1>6. u \in attIndex \/ u \in unlisted OBVIOUS
<1> HIDE DEF unlisted, reported
<1>7. IsFiniteSet(reported) /\ Cardinality(reported) <= Cardinality(unlisted) BY <1>1, <1>2, FS_Subset
<1>8. Cardinality(reported) \in Nat /\ Cardinality(unlisted) \in Nat BY <1>1, <1>7, FS_CardinalityType
<1>9. reported = unlisted BY <1>1, <1>2, <1>3, <1>7, <1>8, FS_Subset
<1> QED BY <1>4, <1>5, <1>6, <1>9

-----------------------------------------------------------------------------
(* Attachments: the steps keep the invariant                               *)

LEMMA DownloadFacts ==
  ASSUME AttachmentInv, NEW d \in Downloaders, download[d].pc # "idle"
  PROVE  /\ download[d] \in Downloads
         /\ download[d].left \subseteq Urls /\ download[d].cache \subseteq Urls
         /\ download[d].left # {} => UrlOf(d) \in download[d].left /\ UrlOf(d) \in Urls
         /\ download[d].pc # "next" => download[d].left # {}
<1>1. download[d] \in Downloads BY DEF AttachmentInv, AttachmentTypeOK, Idle
<1>2. download[d].left \subseteq Urls /\ download[d].cache \subseteq Urls BY <1>1 DEF Downloads
<1>3. download[d].left # {} => UrlOf(d) \in download[d].left
  <2> SUFFICES ASSUME download[d].left # {} PROVE UrlOf(d) \in download[d].left OBVIOUS
  <2>1. \E x \in download[d].left : \A y \in download[d].left : x <= y
    BY <1>2, FirstOf, AttachmentAssumption
  <2> QED BY <2>1 DEF UrlOf
<1>4. download[d].pc # "next" => download[d].left # {} BY DEF AttachmentInv, HasCurrentUrl
<1> QED BY <1>1, <1>2, <1>3, <1>4

\* What a downloader is not the name of.
LEMMA DownloadersAreNames ==
  ASSUME NEW d \in Downloaders
  PROVE  d \notin {"none", "stale", "whole", "torn"}
BY AttachmentAssumption

\* The variables of a step but for the run that makes it.
FilesTyped ==
  /\ partial' \in [Urls -> Downloaders \union {"none", "stale"}]
  /\ files' \in [Urls -> Downloaders \union {"none", "whole", "torn"}]
  /\ attIndex' \subseteq Urls
  /\ attTmp' \in (SUBSET Urls) \union {NoIndex}
  /\ attOpenAs' \in [Downloaders -> FileNames \union {"none", "gone"}]
  /\ attUnreadable' \subseteq FileNames
  /\ manifests' \subseteq Manifests
  /\ UNCHANGED <<downloads, downloadsOverlapped>>

\* A step of one run keeps the invariant if, as long as no two runs overlap, it
\* leaves the files and itself sound.
LEMMA DownloadMoves ==
  ASSUME AttachmentInv, NEW d \in Downloaders, download[d].pc # "idle", FilesTyped,
         NEW r \in Downloads \union {Idle}, download' = [download EXCEPT ![d] = r],
         r.pc \notin {"idle", "next"} => r.left # {},
         ~downloadsOverlapped /\ FilesAreSound /\ DownloadIsSound(d) => FilesAreSound' /\ DownloadIsSound(d)'
  PROVE  AttachmentInv'
<1>1. /\ download' \in [Downloaders -> Downloads \union {Idle}] /\ download'[d] = r
      /\ \A e \in Downloaders : e # d => download'[e] = download[e]
  BY DEF AttachmentInv, AttachmentTypeOK
<1>2. AttachmentTypeOK' BY <1>1 DEF AttachmentInv, AttachmentTypeOK, FilesTyped
<1>3. ASSUME NEW e \in Downloaders PROVE HasCurrentUrl(e)'
  <2>1. CASE e = d BY <1>1, <2>1 DEF HasCurrentUrl
  <2>2. CASE e # d BY <1>1, <2>2 DEF HasCurrentUrl, AttachmentInv
  <2> QED BY <2>1, <2>2
<1>4. ASSUME ~downloadsOverlapped'
      PROVE  OneDownload' /\ FilesAreSound' /\ \A e \in Downloaders : DownloadIsSound(e)'
  <2>1. /\ ~downloadsOverlapped /\ OneDownload /\ FilesAreSound
        /\ \A e \in Downloaders : DownloadIsSound(e)
    BY <1>4 DEF AttachmentInv, FilesTyped
  <2>2. \A e \in Downloaders : e # d => download'[e].pc = "idle"
    BY <1>1, <2>1 DEF OneDownload, DownloadAt
  <2>3. FilesAreSound' /\ DownloadIsSound(d)' BY <2>1
  <2>4. OneDownload' BY <2>2 DEF OneDownload, DownloadAt
  <2>5. ASSUME NEW e \in Downloaders PROVE DownloadIsSound(e)'
    <3>1. CASE e = d BY <2>3, <3>1
    <3>2. CASE e # d BY <2>2, <3>2 DEF DownloadIsSound
    <3> QED BY <3>1, <3>2
  <2> QED BY <2>3, <2>4, <2>5
<1> QED BY <1>2, <1>3, <1>4 DEF AttachmentInv

LEMMA FilesStayTyped ==
  ASSUME AttachmentInv, UNCHANGED <<partial, files, attIndex, attTmp, attOpenAs, attUnreadable, manifests, downloads, downloadsOverlapped>>
  PROVE  FilesTyped
BY DEF AttachmentInv, AttachmentTypeOK, FilesTyped

\* What is said of the files stays, when no whole file goes and nothing is added.
LEMMA FilesStaySound ==
  ASSUME FilesAreSound, UNCHANGED <<files, attIndex, attTmp, manifests>>
  PROVE  FilesAreSound' /\ \A u : Whole(u)' <=> Whole(u)
BY DEF FilesAreSound, Whole

\* A run that has finished with a URL one way or the other.
LEMMA UrlIsPassed ==
  ASSUME AttachmentInv, NEW d \in Downloaders, download[d].pc # "idle", NEW u, u = UrlOf(d), FilesTyped,
         NEW r \in Downloads, download' = [download EXCEPT ![d] = r],
         r.pc = "next", r.refs = download[d].refs, r.left = download[d].left \ {u},
         r.cache \in {download[d].cache, download[d].cache \union {u}},
         download[d].missing \subseteq r.missing, ~r.failed => ~download[d].failed,
         ~downloadsOverlapped /\ FilesAreSound /\ DownloadIsSound(d) =>
            /\ FilesAreSound' /\ \A v : Whole(v) => Whole(v)'
            /\ r.cache = download[d].cache \/ Whole(u)
            /\ ~r.failed => Whole(u) \/ u \in r.missing
  PROVE  AttachmentInv'
<1>1. download'[d] = r BY DEF AttachmentInv, AttachmentTypeOK
<1>2. ASSUME ~downloadsOverlapped, FilesAreSound, DownloadIsSound(d)
      PROVE  FilesAreSound' /\ DownloadIsSound(d)'
  <2>1. /\ FilesAreSound' /\ \A v : Whole(v) => Whole(v)'
        /\ r.cache = download[d].cache \/ Whole(u)
        /\ ~r.failed => Whole(u) \/ u \in r.missing
    BY <1>2
  <2>2. /\ \A v \in download[d].cache : Whole(v)
        /\ ~download[d].failed =>
             \A v \in download[d].refs \ (download[d].left \union download[d].missing) : Whole(v)
    BY <1>2 DEF DownloadIsSound
  <2>3. \A v \in r.cache : Whole(v)' BY <2>1, <2>2
  <2>4. ~r.failed => \A v \in r.refs \ (r.left \union r.missing) : Whole(v)' BY <2>1, <2>2
  <2> QED BY <1>1, <2>1, <2>3, <2>4 DEF DownloadIsSound
<1> QED BY <1>2, DownloadMoves

LEMMA PassedFields ==
  ASSUME NEW d \in Downloaders, download[d] \in Downloads, NEW u, u = UrlOf(d)
  PROVE  /\ PassedUrl(d) \in Downloads /\ FailedUrl(d) \in Downloads
         /\ \A r \in {PassedUrl(d), FailedUrl(d)} :
              /\ r.pc = "next" /\ r.refs = download[d].refs /\ r.left = download[d].left \ {u}
              /\ r.cache = download[d].cache /\ r.missing = download[d].missing
         /\ PassedUrl(d).failed = download[d].failed /\ FailedUrl(d).failed = TRUE
BY DEF PassedUrl, FailedUrl, Downloads

\* Skipped since it is stored, missing, or refused: only the run changes.
LEMMA UrlsPassedKeeps ==
  ASSUME AttachmentInv, NEW d \in Downloaders, SkipStored(d) \/ UrlMissing(d) \/ UrlRefused(d)
  PROVE  AttachmentInv'
<1>1. PICK u : u = UrlOf(d) OBVIOUS
<1>2. /\ download[d].pc = "next" /\ download[d].left # {}
      /\ UNCHANGED <<partial, files, attIndex, attTmp, attOpenAs, attUnreadable, manifests, downloads, downloadsOverlapped>>
  BY DEF SkipStored, UrlMissing, UrlRefused, HasUrl, DownloadAt, IndexUnchanged, RunsUnchanged
<1>3. download[d] \in Downloads /\ u \in Urls BY <1>1, <1>2, DownloadFacts
<1>4. FilesTyped BY <1>2, FilesStayTyped
<1>5. FilesAreSound => FilesAreSound' /\ \A v : Whole(v) => Whole(v)' BY <1>2, FilesStaySound
<1>6. PICK r \in Downloads :
         /\ download' = [download EXCEPT ![d] = r]
         /\ r.pc = "next" /\ r.refs = download[d].refs /\ r.left = download[d].left \ {u}
         /\ r.cache = download[d].cache
         /\ download[d].missing \subseteq r.missing /\ (~r.failed => ~download[d].failed)
         /\ ~r.failed => SkipStored(d) \/ u \in r.missing
  <2>1. CASE SkipStored(d) BY <1>1, <1>3, <2>1, PassedFields DEF SkipStored, DownloadTo
  <2>2. CASE UrlRefused(d) BY <1>1, <1>3, <2>2, PassedFields DEF UrlRefused, DownloadTo
  <2>3. CASE UrlMissing(d)
    <3>0. /\ PassedUrl(d) \in Downloads /\ PassedUrl(d).pc = "next" /\ PassedUrl(d).refs = download[d].refs
          /\ PassedUrl(d).left = download[d].left \ {u} /\ PassedUrl(d).cache = download[d].cache
          /\ PassedUrl(d).missing = download[d].missing /\ PassedUrl(d).failed = download[d].failed
      BY <1>1, <1>3, PassedFields
    <3>1. PICK q \in Downloads :
             /\ q = PassedUrl(d)
             /\ q.pc = "next" /\ q.refs = download[d].refs /\ q.left = download[d].left \ {u}
             /\ q.cache = download[d].cache /\ q.missing = download[d].missing /\ q.failed = download[d].failed
      BY <3>0
    <3>2. PICK r : r = [q EXCEPT !.missing = @ \union {u}] OBVIOUS
    <3>3. download' = [download EXCEPT ![d] = r] BY <1>1, <2>3, <3>1, <3>2 DEF UrlMissing, DownloadTo
    <3>4. /\ r \in Downloads /\ r.missing = q.missing \union {u}
          /\ r.pc = q.pc /\ r.refs = q.refs /\ r.left = q.left /\ r.cache = q.cache /\ r.failed = q.failed
      BY <1>3, <3>1, <3>2 DEF Downloads
    <3> QED BY <3>1, <3>3, <3>4
  <2> QED BY <2>1, <2>2, <2>3
<1>7. FilesAreSound /\ DownloadIsSound(d) /\ SkipStored(d) => Whole(u)
  BY <1>1, <1>2 DEF SkipStored, StoredUrl, DownloadIsSound
<1> QED BY <1>1, <1>2, <1>4, <1>5, <1>6, <1>7, UrlIsPassed

\* A run that goes on with its URL.
LEMMA UrlGoesOn ==
  ASSUME AttachmentInv, NEW d \in Downloaders, download[d].pc # "idle", download[d].left # {},
         NEW u, u = UrlOf(d), FilesTyped,
         NEW pc \in {"write", "check", "replace", "unlink", "enter"}, DownloadGoto(d, pc),
         ~downloadsOverlapped /\ FilesAreSound /\ DownloadIsSound(d) =>
            /\ FilesAreSound' /\ \A v : Whole(v) => Whole(v)'
            /\ pc \in {"write", "check", "replace"} => partial'[u] = d
            /\ pc = "enter" => files'[u] = "whole"
  PROVE  AttachmentInv'
<1>1. download[d] \in Downloads BY DownloadFacts
<1>2. PICK r : r = [download[d] EXCEPT !.pc = pc] OBVIOUS
<1>3. download' = [download EXCEPT ![d] = r] BY <1>2 DEF DownloadGoto
<1>4. /\ r \in Downloads /\ r.pc = pc /\ r.refs = download[d].refs /\ r.left = download[d].left
      /\ r.cache = download[d].cache /\ r.missing = download[d].missing /\ r.failed = download[d].failed
  BY <1>1, <1>2 DEF Downloads
<1>5. download'[d] = r BY <1>3 DEF AttachmentInv, AttachmentTypeOK
<1>6. UrlOf(d)' = u BY <1>4, <1>5 DEF UrlOf
<1>7. ASSUME ~downloadsOverlapped, FilesAreSound, DownloadIsSound(d)
      PROVE  FilesAreSound' /\ DownloadIsSound(d)'
  <2>1. /\ FilesAreSound' /\ \A v : Whole(v) => Whole(v)'
        /\ pc \in {"write", "check", "replace"} => partial'[u] = d
        /\ pc = "enter" => files'[u] = "whole"
    BY <1>7
  <2>2. /\ \A v \in r.cache : Whole(v)'
        /\ ~r.failed => \A v \in r.refs \ (r.left \union r.missing) : Whole(v)'
    BY <1>4, <1>7, <2>1 DEF DownloadIsSound
  <2>3. pc = "enter" => Whole(u)' BY <2>1 DEF Whole
  <2>4. pc # "index" OBVIOUS
  <2> QED BY <1>4, <1>5, <1>6, <2>1, <2>2, <2>3, <2>4 DEF DownloadIsSound
<1> QED BY <1>3, <1>4, <1>7, DownloadMoves

LEMMA OpenPartialKeeps ==
  ASSUME AttachmentInv, NEW d \in Downloaders, OpenPartial(d)
  PROVE  AttachmentInv'
<1>1. PICK u : u = UrlOf(d) OBVIOUS
<1>2. /\ download[d].pc = "next" /\ download[d].left # {}
      /\ UNCHANGED <<files, attIndex, attTmp, attOpenAs, attUnreadable, manifests, downloads, downloadsOverlapped>>
  BY DEF OpenPartial, HasUrl, DownloadAt, IndexUnchanged, RunsUnchanged
<1>3. u \in Urls BY <1>1, <1>2, DownloadFacts
<1>4. partial \in [Urls -> Downloaders \union {"none", "stale"}] BY DEF AttachmentInv, AttachmentTypeOK
<1>5. FilesAreSound => FilesAreSound' /\ \A v : Whole(v) => Whole(v)' BY <1>2, FilesStaySound
<1>6. CASE partial[u] = "none"
  <2>1. DownloadGoto(d, "write") /\ partial' = [partial EXCEPT ![u] = d] BY <1>1, <1>6 DEF OpenPartial
  <2>2. partial' \in [Urls -> Downloaders \union {"none", "stale"}] /\ partial'[u] = d BY <1>3, <1>4, <2>1
  <2>3. FilesTyped BY <1>2, <2>2 DEF FilesTyped, AttachmentInv, AttachmentTypeOK
  <2> QED BY <1>1, <1>2, <1>5, <2>1, <2>2, <2>3, UrlGoesOn
<1>7. CASE partial[u] # "none"
  <2>1. DownloadGoto(d, "unlink") /\ UNCHANGED partial BY <1>1, <1>7 DEF OpenPartial
  <2>2. FilesTyped BY <1>2, <2>1, FilesStayTyped
  <2> QED BY <1>1, <1>2, <1>5, <2>1, <2>2, UrlGoesOn
<1> QED BY <1>6, <1>7

\* The stream ends or breaks: without an overlap the file is still a temporary one.
LEMMA WriteKeeps ==
  ASSUME AttachmentInv, NEW d \in Downloaders, WriteEnds(d) \/ WriteBreaks(d)
  PROVE  AttachmentInv'
<1>1. PICK u : u = UrlOf(d) OBVIOUS
<1>2. PICK pc \in {"check", "unlink"}, how \in {"whole", "torn"} :
         DownloadGoto(d, pc) /\ files' = [v \in Urls |-> IF files[v] = d THEN how ELSE files[v]]
  BY DEF WriteEnds, WriteBreaks
<1>3. download[d].pc = "write" /\ UNCHANGED <<partial, attIndex, attTmp, attOpenAs, attUnreadable, manifests, downloads, downloadsOverlapped>>
  BY DEF WriteEnds, WriteBreaks, DownloadAt, IndexUnchanged, RunsUnchanged
<1>4. download[d].left # {} /\ u \in Urls BY <1>1, <1>3, DownloadFacts
<1>5. files \in [Urls -> Downloaders \union {"none", "whole", "torn"}] BY DEF AttachmentInv, AttachmentTypeOK
<1>6. files' \in [Urls -> Downloaders \union {"none", "whole", "torn"}] BY <1>2, <1>5
<1>7. FilesTyped BY <1>3, <1>6 DEF FilesTyped, AttachmentInv, AttachmentTypeOK
<1>8. ASSUME FilesAreSound PROVE FilesAreSound' /\ \A v : Whole(v) => Whole(v)'
  <2>1. \A v \in Urls : files[v] # d BY <1>8, DownloadersAreNames DEF FilesAreSound
  <2>2. \A v \in Urls : files'[v] = files[v] BY <1>2, <2>1
  <2>3. files' = files BY <1>5, <1>6, <2>2
  <2> QED BY <1>3, <1>8, <2>3, FilesStaySound
<1>9. DownloadIsSound(d) => partial'[u] = d BY <1>1, <1>3 DEF DownloadIsSound
<1> QED BY <1>1, <1>2, <1>3, <1>4, <1>7, <1>8, <1>9, UrlGoesOn

LEMMA CheckFinalKeeps ==
  ASSUME AttachmentInv, NEW d \in Downloaders, CheckFinal(d)
  PROVE  AttachmentInv'
<1>1. PICK u : u = UrlOf(d) OBVIOUS
<1>2. download[d].pc = "check" /\ UNCHANGED <<files, attIndex, attTmp, attOpenAs, attUnreadable, manifests, downloads, downloadsOverlapped>>
  BY DEF CheckFinal, DownloadAt, IndexUnchanged, RunsUnchanged
<1>3. download[d].left # {} /\ u \in Urls BY <1>1, <1>2, DownloadFacts
<1>4. partial \in [Urls -> Downloaders \union {"none", "stale"}] BY DEF AttachmentInv, AttachmentTypeOK
<1>5. FilesAreSound => FilesAreSound' /\ \A v : Whole(v) => Whole(v)' BY <1>2, FilesStaySound
<1>6. CASE files[u] # "none"
  <2>1. DownloadGoto(d, "enter") /\ partial' = [partial EXCEPT ![u] = "none"] BY <1>1, <1>6 DEF CheckFinal
  <2>2. partial' \in [Urls -> Downloaders \union {"none", "stale"}] BY <1>3, <1>4, <2>1
  <2>3. FilesTyped BY <1>2, <2>2 DEF FilesTyped, AttachmentInv, AttachmentTypeOK
  <2>4. FilesAreSound => files'[u] = "whole" BY <1>2, <1>3, <1>6 DEF FilesAreSound
  <2> QED BY <1>1, <1>2, <1>3, <1>5, <2>1, <2>3, <2>4, UrlGoesOn
<1>7. CASE files[u] = "none"
  <2>1. DownloadGoto(d, "replace") /\ UNCHANGED partial BY <1>1, <1>7 DEF CheckFinal
  <2>2. FilesTyped BY <1>2, <2>1, FilesStayTyped
  <2>3. DownloadIsSound(d) => partial'[u] = d BY <1>1, <1>2, <2>1 DEF DownloadIsSound
  <2> QED BY <1>1, <1>2, <1>3, <1>5, <2>1, <2>2, <2>3, UrlGoesOn
<1> QED BY <1>6, <1>7

\* What is moved is a whole file, when nobody else writes it.
LEMMA ReplaceFinalKeeps ==
  ASSUME AttachmentInv, NEW d \in Downloaders, ReplaceFinal(d)
  PROVE  AttachmentInv'
<1>1. PICK u : u = UrlOf(d) OBVIOUS
<1>2. download[d].pc = "replace" /\ UNCHANGED <<attIndex, attTmp, attOpenAs, attUnreadable, manifests, downloads, downloadsOverlapped>>
  BY DEF ReplaceFinal, DownloadAt, IndexUnchanged, RunsUnchanged
<1>3. download[d].left # {} /\ u \in Urls BY <1>1, <1>2, DownloadFacts
<1>4. /\ partial \in [Urls -> Downloaders \union {"none", "stale"}]
      /\ files \in [Urls -> Downloaders \union {"none", "whole", "torn"}]
  BY DEF AttachmentInv, AttachmentTypeOK
<1>5. CASE partial[u] = "none"
  <2>1. DownloadGoto(d, "unlink") /\ UNCHANGED <<partial, files>> BY <1>1, <1>5 DEF ReplaceFinal
  <2>2. FilesTyped BY <1>2, <2>1, FilesStayTyped
  <2>3. FilesAreSound => FilesAreSound' /\ \A v : Whole(v) => Whole(v)' BY <1>2, <2>1, FilesStaySound
  <2> QED BY <1>1, <1>2, <1>3, <2>1, <2>2, <2>3, UrlGoesOn
<1>6. CASE partial[u] # "none"
  <2>1. PICK what : what = Content(partial[u]) OBVIOUS
  <2>2. /\ DownloadGoto(d, "enter") /\ partial' = [partial EXCEPT ![u] = "none"]
        /\ files' = [files EXCEPT ![u] = what]
    BY <1>1, <1>6, <2>1 DEF ReplaceFinal
  <2>3. what \in {partial[u], "whole", "torn"} /\ (what = partial[u] => partial[u] # "stale")
    <3>1. CASE partial[u] = "stale" BY <2>1, <3>1 DEF Content
    <3>2. CASE partial[u] # "stale"
      <4>1. what \in {partial[u], "whole", "torn"} BY <2>1, <3>2 DEF Content
      <4> QED BY <3>2, <4>1
    <3> QED BY <3>1, <3>2
  <2>4. what \in Downloaders \union {"none", "whole", "torn"} BY <1>3, <1>4, <1>6, <2>3
  <2>5. partial' \in [Urls -> Downloaders \union {"none", "stale"}] BY <1>3, <1>4, <2>2
  <2>6. files' \in [Urls -> Downloaders \union {"none", "whole", "torn"}] BY <1>3, <1>4, <2>2, <2>4
  <2>7. FilesTyped BY <1>2, <2>5, <2>6 DEF FilesTyped, AttachmentInv, AttachmentTypeOK
  <2>8. ASSUME FilesAreSound, DownloadIsSound(d)
        PROVE  FilesAreSound' /\ (\A v : Whole(v) => Whole(v)') /\ files'[u] = "whole"
    <3>1. partial[u] = d BY <1>1, <1>2, <2>8 DEF DownloadIsSound
    <3>2. what = "whole" BY <1>2, <2>1, <3>1, DownloadersAreNames DEF Content, DownloadAt
    <3>3. files'[u] = "whole" /\ \A v \in Urls : v # u => files'[v] = files[v] BY <1>3, <1>4, <2>2, <3>2
    <3>4. \A v : Whole(v) => Whole(v)' BY <1>4, <2>2, <3>2 DEF Whole
    <3>5. \A v \in Urls : files'[v] \in {"none", "whole"} BY <2>8, <3>3 DEF FilesAreSound
    <3> QED BY <1>2, <2>8, <3>3, <3>4, <3>5 DEF FilesAreSound
  <2> QED BY <1>1, <1>2, <1>3, <2>2, <2>7, <2>8, UrlGoesOn
<1> QED BY <1>5, <1>6

LEMMA UnlinkKeeps ==
  ASSUME AttachmentInv, NEW d \in Downloaders, Unlink(d)
  PROVE  AttachmentInv'
<1>1. PICK u : u = UrlOf(d) OBVIOUS
<1>2. /\ download[d].pc = "unlink" /\ partial' = [partial EXCEPT ![u] = "none"]
      /\ UNCHANGED <<files, attIndex, attTmp, attOpenAs, attUnreadable, manifests, downloads, downloadsOverlapped>>
      /\ download' = [download EXCEPT ![d] = FailedUrl(d)]
  BY <1>1 DEF Unlink, DownloadTo, DownloadAt, IndexUnchanged, RunsUnchanged
<1>3. download[d] \in Downloads /\ u \in Urls BY <1>1, <1>2, DownloadFacts
<1>4. partial' \in [Urls -> Downloaders \union {"none", "stale"}]
  BY <1>2, <1>3 DEF AttachmentInv, AttachmentTypeOK
<1>5. FilesTyped BY <1>2, <1>4 DEF FilesTyped, AttachmentInv, AttachmentTypeOK
<1>6. FilesAreSound => FilesAreSound' /\ \A v : Whole(v) => Whole(v)' BY <1>2, FilesStaySound
<1>7. /\ FailedUrl(d) \in Downloads /\ FailedUrl(d).pc = "next" /\ FailedUrl(d).refs = download[d].refs
      /\ FailedUrl(d).left = download[d].left \ {u} /\ FailedUrl(d).cache = download[d].cache
      /\ FailedUrl(d).missing = download[d].missing /\ FailedUrl(d).failed
  BY <1>1, <1>3, PassedFields
<1> QED BY <1>1, <1>2, <1>5, <1>6, <1>7, UrlIsPassed

\* A run that enters its URL in its index and opens the file for it.
LEMMA EnterUrlKeeps ==
  ASSUME AttachmentInv, NEW d \in Downloaders, EnterUrl(d)
  PROVE  AttachmentInv'
<1>1. PICK u : u = UrlOf(d) OBVIOUS
<1>2. PICK cache : cache = download[d].cache \union {u} OBVIOUS
<1>3. /\ download[d].pc = "enter" /\ attTmp' = {}
      /\ attOpenAs' = [attOpenAs EXCEPT ![d] = "tmp"] /\ attUnreadable' = attUnreadable \union {"tmp"}
      /\ UNCHANGED <<partial, files, attIndex, manifests, downloads, downloadsOverlapped>>
  BY <1>1, <1>2 DEF EnterUrl, DownloadAt, RunsUnchanged
<1>4. download[d] \in Downloads /\ u \in Urls /\ download[d].left # {} /\ cache \in SUBSET Urls
  BY <1>1, <1>2, <1>3, DownloadFacts
<1>5. PICK r : r = [Entered(download[d], u) EXCEPT !.pc = "fill"] OBVIOUS
<1>6. download' = [download EXCEPT ![d] = r] BY <1>1, <1>5 DEF EnterUrl, DownloadTo
<1>7. /\ r \in Downloads /\ r.pc = "fill" /\ r.refs = download[d].refs /\ r.left = download[d].left
      /\ r.cache = cache /\ r.missing = download[d].missing /\ r.failed = download[d].failed
  BY <1>2, <1>4, <1>5 DEF Downloads, Entered
<1>8. FilesTyped BY <1>3 DEF FilesTyped, AttachmentInv, AttachmentTypeOK, FileNames
<1>9. download'[d] = r BY <1>6 DEF AttachmentInv, AttachmentTypeOK
<1>10. UrlOf(d)' = u BY <1>1, <1>7, <1>9 DEF UrlOf
<1>11. ASSUME FilesAreSound, DownloadIsSound(d) PROVE FilesAreSound' /\ DownloadIsSound(d)'
  <2>1. \A v : Whole(v)' <=> Whole(v) BY <1>3 DEF Whole
  <2>2. Whole(u) BY <1>1, <1>3, <1>11 DEF DownloadIsSound
  <2>3. \A v \in cache : Whole(v)' BY <1>2, <1>3, <1>11, <2>1, <2>2 DEF DownloadIsSound
  <2>4. FilesAreSound' BY <1>3, <1>11, <2>1, <2>3 DEF FilesAreSound
  <2>5. ~r.failed => \A v \in r.refs \ (r.left \union r.missing) : Whole(v)'
    BY <1>3, <1>7, <1>11, <2>1 DEF DownloadIsSound
  <2> QED BY <1>7, <1>9, <1>10, <2>1, <2>2, <2>3, <2>4, <2>5 DEF DownloadIsSound
<1> QED BY <1>3, <1>4, <1>6, <1>7, <1>8, <1>11, DownloadMoves

LEMMA FillAttTmpKeeps ==
  ASSUME AttachmentInv, NEW d \in Downloaders, FillAttTmp(d)
  PROVE  AttachmentInv'
<1>1. PICK u : u = UrlOf(d) OBVIOUS
<1>2. /\ download[d].pc = "fill" /\ download' = [download EXCEPT ![d].pc = "index"]
      /\ attOpenAs' = [attOpenAs EXCEPT ![d] = "none"]
      /\ UNCHANGED <<partial, files, manifests, downloads, downloadsOverlapped>>
  BY DEF FillAttTmp, DownloadAt, DownloadGoto, RunsUnchanged
<1>3. PICK content \in {download[d].cache, {}} :
         /\ attTmp' \in {attTmp, content} /\ attIndex' \in {attIndex, content}
         /\ attUnreadable' \subseteq attUnreadable \union FileNames
  BY DEF FillAttTmp
<1>4. /\ download[d] \in Downloads /\ download[d].left # {} /\ download[d].cache \subseteq Urls
  BY <1>2, DownloadFacts
<1>5. PICK r : r = [download[d] EXCEPT !.pc = "index"] OBVIOUS
<1>6. download' = [download EXCEPT ![d] = r] BY <1>2, <1>5
<1>7. /\ r \in Downloads /\ r.pc = "index" /\ r.refs = download[d].refs /\ r.left = download[d].left
      /\ r.cache = download[d].cache /\ r.missing = download[d].missing /\ r.failed = download[d].failed
  BY <1>4, <1>5 DEF Downloads
<1>8. FilesTyped BY <1>2, <1>3, <1>4 DEF FilesTyped, AttachmentInv, AttachmentTypeOK
<1>9. download'[d] = r BY <1>6 DEF AttachmentInv, AttachmentTypeOK
<1>10. UrlOf(d)' = u BY <1>1, <1>7, <1>9 DEF UrlOf
<1>11. ASSUME FilesAreSound, DownloadIsSound(d) PROVE FilesAreSound' /\ DownloadIsSound(d)'
  <2>1. \A v : Whole(v)' <=> Whole(v) BY <1>2 DEF Whole
  <2>2. Whole(u) /\ \A v \in download[d].cache : Whole(v) BY <1>1, <1>2, <1>11 DEF DownloadIsSound
  <2>3. \A v \in content : Whole(v) BY <1>3, <2>2
  <2>4. FilesAreSound' BY <1>2, <1>3, <1>11, <2>1, <2>3 DEF FilesAreSound
  <2>5. ~r.failed => \A v \in r.refs \ (r.left \union r.missing) : Whole(v)'
    BY <1>2, <1>7, <1>11, <2>1 DEF DownloadIsSound
  <2> QED BY <1>7, <1>9, <1>10, <2>1, <2>2, <2>4, <2>5 DEF DownloadIsSound
<1> QED BY <1>2, <1>4, <1>6, <1>7, <1>8, <1>11, DownloadMoves

LEMMA ReplaceAttIndexKeeps ==
  ASSUME AttachmentInv, NEW d \in Downloaders, ReplaceAttIndex(d)
  PROVE  AttachmentInv'
<1>1. PICK u : u = UrlOf(d) OBVIOUS
<1>2. /\ download[d].pc = "index" /\ attTmp' = NoIndex
      /\ UNCHANGED <<partial, files, manifests, downloads, downloadsOverlapped>>
  BY DEF ReplaceAttIndex, DownloadAt, RunsUnchanged
<1>3. download[d] \in Downloads BY <1>2, DownloadFacts
<1>4. \/ attTmp # NoIndex /\ attIndex' = attTmp /\ download' = [download EXCEPT ![d] = PassedUrl(d)]
      \/ attIndex' = attIndex /\ download' = [download EXCEPT ![d] = FailedUrl(d)]
  BY DEF ReplaceAttIndex, DownloadTo
<1>5. FilesTyped
  <2>1. attIndex' \subseteq Urls BY <1>4 DEF AttachmentInv, AttachmentTypeOK
  <2>2. attUnreadable' \subseteq FileNames
    BY DEF ReplaceAttIndex, AttachmentInv, AttachmentTypeOK, FileNames
  <2>3. attOpenAs' \in [Downloaders -> FileNames \union {"none", "gone"}]
    <3>1. attOpenAs \in [Downloaders -> FileNames \union {"none", "gone"}] BY DEF AttachmentInv, AttachmentTypeOK
    <3>2. \A e \in Downloaders : NameAfter(attOpenAs[e]) \in FileNames \union {"none", "gone"}
      BY <3>1 DEF FileNames, NameAfter
    <3>3. attOpenAs' \in {attOpenAs, [e \in Downloaders |-> NameAfter(attOpenAs[e])]} BY DEF ReplaceAttIndex
    <3> QED BY <3>1, <3>2, <3>3
  <2> QED BY <1>2, <2>1, <2>2, <2>3 DEF FilesTyped, AttachmentInv, AttachmentTypeOK
<1>6. ASSUME FilesAreSound, DownloadIsSound(d)
      PROVE  FilesAreSound' /\ (\A v : Whole(v) => Whole(v)') /\ Whole(u)
  <2>1. \A v : Whole(v)' <=> Whole(v) BY <1>2 DEF Whole
  <2>2. Whole(u) BY <1>1, <1>2, <1>6 DEF DownloadIsSound
  <2>3. \A v \in attIndex' : Whole(v) BY <1>4, <1>6 DEF FilesAreSound
  <2> QED BY <1>2, <1>6, <2>1, <2>2, <2>3 DEF FilesAreSound
<1>7. PICK r \in {PassedUrl(d), FailedUrl(d)} : download' = [download EXCEPT ![d] = r] BY <1>4
<1>8. /\ r \in Downloads /\ r.pc = "next" /\ r.refs = download[d].refs /\ r.left = download[d].left \ {u}
      /\ r.cache = download[d].cache /\ r.missing = download[d].missing
      /\ (~r.failed => ~download[d].failed)
  BY <1>1, <1>3, <1>7, PassedFields
<1> QED BY <1>1, <1>2, <1>5, <1>6, <1>7, <1>8, UrlIsPassed

LEMMA IndexFailsKeeps ==
  ASSUME AttachmentInv, NEW d \in Downloaders, IndexFails(d)
  PROVE  AttachmentInv'
<1>1. PICK u : u = UrlOf(d) OBVIOUS
<1>2. /\ download[d].pc \in {"enter", "fill", "index"} /\ attOpenAs' = [attOpenAs EXCEPT ![d] = "none"]
      /\ UNCHANGED <<partial, files, attIndex, attTmp, attUnreadable, manifests, downloads, downloadsOverlapped>>
  BY DEF IndexFails, RunsUnchanged
<1>3. download[d] \in Downloads /\ u \in Urls /\ download[d].cache \subseteq Urls
  BY <1>1, <1>2, DownloadFacts
<1>4. FilesTyped BY <1>2 DEF FilesTyped, AttachmentInv, AttachmentTypeOK
<1>5. FilesAreSound => FilesAreSound' /\ \A v : Whole(v) => Whole(v)' BY <1>2, FilesStaySound
<1>6. DownloadIsSound(d) => Whole(u) BY <1>1, <1>2 DEF DownloadIsSound
<1>7. /\ FailedUrl(d) \in Downloads /\ FailedUrl(d).pc = "next" /\ FailedUrl(d).refs = download[d].refs
      /\ FailedUrl(d).left = download[d].left \ {u} /\ FailedUrl(d).cache = download[d].cache
      /\ FailedUrl(d).missing = download[d].missing /\ FailedUrl(d).failed
  BY <1>1, <1>3, PassedFields
<1>8. PICK r : r = Entered(FailedUrl(d), u) OBVIOUS
<1>9. download' = [download EXCEPT ![d] = r] BY <1>1, <1>8 DEF IndexFails, DownloadTo
<1>10. /\ r \in Downloads /\ r.pc = "next" /\ r.refs = download[d].refs /\ r.left = download[d].left \ {u}
       /\ r.cache = download[d].cache \union {u} /\ r.missing = download[d].missing /\ r.failed
  <2>1. download[d].cache \union {u} \in SUBSET Urls BY <1>3
  <2>2. PICK q \in Downloads : q = FailedUrl(d) BY <1>7
  <2>3. q.cache \union {u} \in SUBSET Urls BY <1>7, <2>1, <2>2
  <2>4. r = [q EXCEPT !.cache = @ \union {u}] BY <1>8, <2>2 DEF Entered
  <2>5. /\ r \in Downloads /\ r.pc = q.pc /\ r.refs = q.refs /\ r.left = q.left
        /\ r.cache = q.cache \union {u} /\ r.missing = q.missing /\ r.failed = q.failed
    BY <2>3, <2>4 DEF Downloads
  <2> QED BY <1>7, <2>2, <2>5
<1> QED BY <1>1, <1>2, <1>4, <1>5, <1>6, <1>9, <1>10, UrlIsPassed

LEMMA FinishDownloadsKeeps ==
  ASSUME AttachmentInv, NEW d \in Downloaders, FinishDownloads(d)
  PROVE  AttachmentInv'
<1>1. PICK r : r = download[d] OBVIOUS
<1>2. PICK m : m = [refs |-> r.refs, missing |-> r.missing, completed |-> ~r.failed] OBVIOUS
<1>3. /\ r.pc = "next" /\ r.left = {} /\ manifests' = manifests \union {m}
      /\ download' = [download EXCEPT ![d] = Idle]
      /\ UNCHANGED <<partial, files, attIndex, attTmp, attOpenAs, attUnreadable, downloads, downloadsOverlapped>>
  BY <1>1, <1>2 DEF FinishDownloads, DownloadTo, DownloadAt, IndexUnchanged
<1>4. r \in Downloads BY <1>1, <1>3, DownloadFacts
<1>5. /\ m \in Manifests /\ m.refs = r.refs /\ m.missing = r.missing /\ m.completed = ~r.failed
  BY <1>2, <1>4 DEF Manifests, Downloads
<1>6. FilesTyped BY <1>3, <1>5 DEF FilesTyped, AttachmentInv, AttachmentTypeOK
<1>7. Idle.pc = "idle" /\ Idle \in Downloads \union {Idle} /\ download'[d] = Idle
  BY <1>3 DEF Idle, AttachmentInv, AttachmentTypeOK
<1>8. DownloadIsSound(d)' BY <1>7 DEF DownloadIsSound
<1>9. ASSUME FilesAreSound, DownloadIsSound(d) PROVE FilesAreSound'
  <2>1. \A v : Whole(v)' <=> Whole(v) BY <1>3 DEF Whole
  <2>2. m.completed => \A v \in m.refs \ m.missing : Whole(v) BY <1>1, <1>3, <1>5, <1>9 DEF DownloadIsSound
  <2> QED BY <1>3, <1>9, <2>1, <2>2 DEF FilesAreSound
<1> QED BY <1>1, <1>3, <1>6, <1>7, <1>8, <1>9, DownloadMoves

\* A collection that begins alone starts from an index of whole files.
LEMMA BeginDownloadsKeeps ==
  ASSUME CatalogInv, BatchesHavePages, AttachmentInv, NEW d \in Downloaders, BeginDownloads(d)
  PROVE  AttachmentInv'
<1>1. PICK r : r = [pc |-> "next", refs |-> ArticleUrls, left |-> ArticleUrls, cache |-> attIndex,
                    missing |-> {}, failed |-> FALSE]
  OBVIOUS
<1>2. /\ download[d].pc = "idle" /\ download' = [download EXCEPT ![d] = r]
      /\ downloads' = downloads + 1 /\ downloads < MaxDownloads
      /\ downloadsOverlapped' = (downloadsOverlapped \/ \E e \in Downloaders : ~DownloadAt(e, "idle"))
      /\ UNCHANGED <<partial, files, attIndex, attTmp, attOpenAs, attUnreadable, manifests>>
  BY <1>1 DEF BeginDownloads, DownloadTo, DownloadAt, IndexUnchanged
<1>3. attIndex \subseteq Urls /\ ArticleUrls \subseteq Urls
  BY ArticleUrlsAreFinite DEF AttachmentInv, AttachmentTypeOK
<1>4. /\ r \in Downloads /\ r.pc = "next" /\ r.refs = r.left /\ r.cache = attIndex BY <1>1, <1>3 DEF Downloads
<1>5. /\ download' \in [Downloaders -> Downloads \union {Idle}] /\ download'[d] = r
      /\ \A e \in Downloaders : e # d => download'[e] = download[e]
  BY <1>2, <1>4 DEF AttachmentInv, AttachmentTypeOK
<1>6. AttachmentTypeOK'
  <2>1. downloads' \in 0 .. MaxDownloads BY <1>2, AttachmentAssumption DEF AttachmentInv, AttachmentTypeOK
  <2>2. downloadsOverlapped' \in BOOLEAN BY <1>2
  <2> QED BY <1>2, <1>5, <2>1, <2>2 DEF AttachmentInv, AttachmentTypeOK
<1>7. ASSUME NEW e \in Downloaders PROVE HasCurrentUrl(e)'
  <2>1. CASE e = d BY <1>4, <1>5, <2>1 DEF HasCurrentUrl
  <2>2. CASE e # d BY <1>5, <2>2 DEF HasCurrentUrl, AttachmentInv
  <2> QED BY <2>1, <2>2
<1>8. ASSUME ~downloadsOverlapped'
      PROVE  OneDownload' /\ FilesAreSound' /\ \A e \in Downloaders : DownloadIsSound(e)'
  <2>1. FilesAreSound /\ \A e \in Downloaders : download[e].pc = "idle"
    BY <1>2, <1>8 DEF AttachmentInv, DownloadAt
  <2>2. FilesAreSound' /\ \A v : Whole(v)' <=> Whole(v) BY <1>2, <2>1, FilesStaySound
  <2>3. \A e \in Downloaders : e # d => download'[e].pc = "idle" BY <1>5, <2>1
  <2>4. OneDownload' BY <2>3 DEF OneDownload, DownloadAt
  <2>5. \A v \in r.cache : Whole(v)' BY <1>4, <2>1, <2>2 DEF FilesAreSound
  <2>6. ASSUME NEW e \in Downloaders PROVE DownloadIsSound(e)'
    <3>1. CASE e = d BY <1>4, <1>5, <2>5, <3>1 DEF DownloadIsSound
    <3>2. CASE e # d BY <2>3, <3>2 DEF DownloadIsSound
    <3> QED BY <3>1, <3>2
  <2> QED BY <2>2, <2>4, <2>6
<1> QED BY <1>6, <1>7, <1>8 DEF AttachmentInv

LEMMA DownloadsDieKeeps ==
  ASSUME AttachmentInv, DownloadsDie
  PROVE  AttachmentInv'
<1>1. /\ download' = [d \in Downloaders |-> Idle]
      /\ partial' = [u \in Urls |-> IF partial[u] \in Downloaders THEN "stale" ELSE partial[u]]
      /\ files' = [u \in Urls |-> IF files[u] \in Downloaders THEN "torn" ELSE files[u]]
      /\ attOpenAs' = [d \in Downloaders |-> "none"]
      /\ UNCHANGED <<attIndex, attTmp, attUnreadable, manifests, downloads, downloadsOverlapped>>
  BY DEF DownloadsDie, RunsUnchanged
<1>2. /\ partial \in [Urls -> Downloaders \union {"none", "stale"}]
      /\ files \in [Urls -> Downloaders \union {"none", "whole", "torn"}]
  BY DEF AttachmentInv, AttachmentTypeOK
<1>3. /\ partial' \in [Urls -> Downloaders \union {"none", "stale"}]
      /\ files' \in [Urls -> Downloaders \union {"none", "whole", "torn"}]
  BY <1>1, <1>2
<1>4. \A d \in Downloaders : download'[d] = Idle BY <1>1
<1>5. download' \in [Downloaders -> Downloads \union {Idle}] BY <1>1
<1>6. AttachmentTypeOK' BY <1>1, <1>3, <1>5 DEF AttachmentInv, AttachmentTypeOK
<1>7. Idle.pc = "idle" BY DEF Idle
<1>8. ASSUME NEW d \in Downloaders PROVE HasCurrentUrl(d)' /\ DownloadIsSound(d)'
  BY <1>4, <1>7 DEF HasCurrentUrl, DownloadIsSound
<1>9. OneDownload' BY <1>4, <1>7 DEF OneDownload, DownloadAt
<1>10. ASSUME ~downloadsOverlapped' PROVE FilesAreSound'
  <2>1. FilesAreSound BY <1>1, <1>10 DEF AttachmentInv
  <2>2. \A u \in Urls : files[u] \notin Downloaders BY <2>1, DownloadersAreNames DEF FilesAreSound
  <2>3. \A u \in Urls : files'[u] = files[u] BY <1>1, <2>2
  <2>4. files' = files BY <1>2, <1>3, <2>3
  <2> QED BY <1>1, <2>1, <2>4, FilesStaySound
<1> QED BY <1>6, <1>8, <1>9, <1>10 DEF AttachmentInv

LEMMA AttachmentsStutter ==
  ASSUME AttachmentInv, UNCHANGED attachmentVars
  PROVE  AttachmentInv'
<1>1. UNCHANGED <<partial, files, attIndex, attTmp, attOpenAs, attUnreadable, download, manifests, downloads, downloadsOverlapped>>
  BY DEF attachmentVars
<1>2. AttachmentTypeOK' BY <1>1 DEF AttachmentInv, AttachmentTypeOK
<1>3. FilesAreSound' <=> FilesAreSound BY <1>1 DEF FilesAreSound, Whole
<1>4. OneDownload' <=> OneDownload BY <1>1 DEF OneDownload, DownloadAt
<1>5. ASSUME NEW d \in Downloaders
      PROVE  (HasCurrentUrl(d)' <=> HasCurrentUrl(d)) /\ (DownloadIsSound(d)' <=> DownloadIsSound(d))
  BY <1>1 DEF HasCurrentUrl, DownloadIsSound, Whole, UrlOf
<1> QED BY <1>1, <1>2, <1>3, <1>4, <1>5 DEF AttachmentInv

LEMMA DownloadStepKeeps ==
  ASSUME CatalogInv, BatchesHavePages, AttachmentInv, NEW d \in Downloaders, DownloadStep(d)
  PROVE  AttachmentInv'
BY UrlsPassedKeeps, OpenPartialKeeps, WriteKeeps, CheckFinalKeeps, ReplaceFinalKeeps, UnlinkKeeps, EnterUrlKeeps,
   FillAttTmpKeeps, ReplaceAttIndexKeeps, IndexFailsKeeps, FinishDownloadsKeeps, BeginDownloadsKeeps DEF DownloadStep

-----------------------------------------------------------------------------
(* The theorem                                                             *)

LEMMA CommunityInitially == CommunityInit => CommunityInv
<1> SUFFICES ASSUME CommunityInit PROVE CommunityInv OBVIOUS
<1>1. CatalogInv BY CatalogInitially DEF CommunityInit
<1>2. BatchesHavePages BY DEF CommunityInit, CollectCatalogInit, BatchesHavePages
<1>3. Idle.pc = "idle" BY DEF Idle
<1>4. AttachmentInv
  <2>1. /\ partial = [u \in Urls |-> "none"] /\ files = [u \in Urls |-> "none"]
        /\ attOpenAs = [d \in Downloaders |-> "none"] /\ attUnreadable = {}
        /\ attIndex = {} /\ attTmp = NoIndex /\ manifests = {} /\ downloads = 0 /\ downloadsOverlapped = FALSE
        /\ download = [d \in Downloaders |-> Idle]
    BY DEF CommunityInit, AttachmentInit
  <2>2. AttachmentTypeOK
    <3>1. /\ partial \in [Urls -> Downloaders \union {"none", "stale"}]
          /\ files \in [Urls -> Downloaders \union {"none", "whole", "torn"}]
          /\ download \in [Downloaders -> Downloads \union {Idle}]
          /\ attOpenAs \in [Downloaders -> FileNames \union {"none", "gone"}] /\ attUnreadable \subseteq FileNames
      BY <2>1
    <3>2. /\ attIndex \subseteq Urls /\ attTmp \in (SUBSET Urls) \union {NoIndex} /\ manifests \subseteq Manifests
          /\ downloadsOverlapped \in BOOLEAN
      BY <2>1
    <3>3. downloads \in 0 .. MaxDownloads BY <2>1, AttachmentAssumption
    <3> QED BY <3>1, <3>2, <3>3 DEF AttachmentTypeOK
  <2>3. FilesAreSound BY <2>1 DEF FilesAreSound
  <2>4. \A d \in Downloaders : download[d].pc = "idle" BY <1>3, <2>1
  <2>5. OneDownload /\ \A d \in Downloaders : HasCurrentUrl(d) /\ DownloadIsSound(d)
    BY <2>4 DEF OneDownload, DownloadAt, HasCurrentUrl, DownloadIsSound
  <2> QED BY <2>2, <2>3, <2>5 DEF AttachmentInv
<1>5. CommentInv
  <2>1. comments = <<>> /\ commentFiles = <<>> /\ commentRun = Idle /\ refused = {}
    BY DEF CommunityInit, CommentInit
  <2>2. CommentTypeOK BY <2>1 DEF CommentTypeOK
  <2>3. CommentRunOK BY <1>3, <2>1 DEF CommentRunOK
  <2>4. ProcessedCommentsAreWhole BY <2>1 DEF ProcessedCommentsAreWhole
  <2> QED BY <2>2, <2>3, <2>4 DEF CommentInv
<1> QED BY <1>1, <1>2, <1>4, <1>5 DEF CommunityInv

LEMMA CommunityStep == CommunityInv /\ [CommunityNext]_communityVars => CommunityInv'
<1> SUFFICES ASSUME CommunityInv, [CommunityNext]_communityVars PROVE CommunityInv' OBVIOUS
<1>1. CatalogInv /\ BatchesHavePages /\ AttachmentInv /\ CommentInv BY DEF CommunityInv
<1>2. CASE CommunityCrash
  <2>1. CatalogInv' BY <1>1, <1>2, CatalogCrashKeeps DEF CommunityCrash
  <2>2. BatchesHavePages' BY <1>1, <1>2, PagesStay DEF CommunityCrash, CatalogCrash
  <2>3. AttachmentInv' BY <1>1, <1>2, DownloadsDieKeeps DEF CommunityCrash
  <2>4. CommentInv' BY <1>1, <1>2, CommentRunStops DEF CommunityCrash
  <2> QED BY <2>1, <2>2, <2>3, <2>4 DEF CommunityInv
<1>3. ASSUME NEW c \in Collectors, CatalogStep(c), UNCHANGED <<attachmentVars, commentVars>> PROVE CommunityInv'
  <2>1. CatalogInv' BY <1>1, <1>3, CatalogStepKeeps DEF CollectCatalogNext
  <2>2. BatchesHavePages' BY <1>1, <1>3, CatalogStepHasPages
  <2>3. AttachmentInv' BY <1>1, <1>3, AttachmentsStutter
  <2>4. CommentInv' BY <1>1, <1>3, CommentsStutter
  <2> QED BY <2>1, <2>2, <2>3, <2>4 DEF CommunityInv
<1>4. ASSUME UNCHANGED <<batches, collectVars, astray>> PROVE CatalogInv' /\ BatchesHavePages'
  <2>1. UNCHANGED <<batches, progress, run, astray>> BY <1>4 DEF collectVars
  <2> QED BY <1>1, <2>1, CatalogStutters, PagesStay
<1>5. ASSUME NEW d \in Downloaders, DownloadStep(d), UNCHANGED <<batches, collectVars, astray, commentVars>>
      PROVE  CommunityInv'
  <2>1. AttachmentInv' BY <1>1, <1>5, DownloadStepKeeps
  <2>2. CommentInv' BY <1>1, <1>5, CommentsStutter
  <2> QED BY <1>4, <1>5, <2>1, <2>2 DEF CommunityInv
<1>6. CASE CommentNext /\ UNCHANGED <<batches, collectVars, astray, attachmentVars>>
  <2>1. AttachmentInv' BY <1>1, <1>6, AttachmentsStutter
  <2>2. CommentInv' BY <1>1, <1>6, CommentStepKeeps
  <2> QED BY <1>4, <1>6, <2>1, <2>2 DEF CommunityInv
<1>7. CASE UNCHANGED communityVars
  <2>1. UNCHANGED <<batches, collectVars, astray>> /\ UNCHANGED attachmentVars /\ UNCHANGED commentVars
    BY <1>7 DEF communityVars, catalogVars
  <2> QED BY <1>1, <1>4, <2>1, AttachmentsStutter, CommentsStutter DEF CommunityInv
<1> QED BY <1>2, <1>3, <1>5, <1>6, <1>7 DEF CommunityNext

THEOREM CommunityInvariance == CommunitySpec => []CommunityInv
BY CommunityInitially, CommunityStep, PTL DEF CommunitySpec

\* As long as no two attachment collections overlap, what the index lists and
\* what a completed run answers for is stored whole.  When the report passes and
\* no file once reported missing was found again (the code's report counts such
\* a file against one that is missing), every attachment is stored whole or was
\* reported missing; what the report may pass over otherwise is not said.  What
\* a comment run counts as processed is stored, but for the articles that the
\* source refused.  All for any articles, attachments and pages, wherever runs
\* fail or the process dies.
THEOREM CommunityCollected == CommunitySpec => []CommunityIsCollected
<1>1. CommunityInv => CommunityIsCollected
  <2> SUFFICES ASSUME CommunityInv PROVE CommunityIsCollected OBVIOUS
  <2>1. CatalogInv /\ BatchesHavePages /\ AttachmentInv /\ CommentInv BY DEF CommunityInv
  <2>2. ~downloadsOverlapped =>
          /\ \A u \in attIndex : Whole(u)
          /\ \A m \in manifests : m.completed => \A u \in m.refs \ m.missing : Whole(u)
    BY <2>1 DEF AttachmentInv, FilesAreSound
  <2>3. (CommunityReportPasses /\ ~FoundAgain)
          => \A u \in ArticleUrls : Whole(u) \/ \E m \in manifests : m.completed /\ u \in m.missing
    BY <2>1, PassedReportIsWhole
  <2> QED BY <2>1, <2>2, <2>3 DEF CommunityIsCollected, AttachmentsAreWhole, CommentInv
<1> QED BY <1>1, CommunityInvariance, PTL
=============================================================================
