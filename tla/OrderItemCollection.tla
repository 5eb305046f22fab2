------------------------ MODULE OrderItemCollection ------------------------
(***************************************************************************)
(* run_cafe24_order_item_full_runner: the orders of all canonical order    *)
(* batches are read, and the items of each order that the index does not   *)
(* list become a batch of their own.  A run takes the index into memory    *)
(* once and rewrites the whole file after every order, through one         *)
(* temporary file that all runs share.                                     *)
(*                                                                         *)
(* "stored" stands for COMPLETED and EMPTY, which nothing tells apart.  A  *)
(* file is opened, which empties it, and then filled, under whatever name  *)
(* it has by then; an unreadable index is taken to list nothing.           *)
(***************************************************************************)
EXTENDS PageCollection

CONSTANTS
  ItemCollectors,   \* threads that serve order-item collections
  GoneOrders,       \* orders whose items the source answers with 404
  MaxItemRuns,      \* bound: order-item collections started
  NoFile

ASSUME ItemAssumption == GoneOrders \subseteq Orders /\ MaxItemRuns \in Nat

VARIABLES
  index,        \* order_items/index.json
  tmp,          \* order_items/index.json.tmp
  openAs,       \* collector -> the name of the file it has open to write the index
  unreadable,   \* the names of files that are empty still, or filled by two; no JSON
  itemRun,      \* what a collector's run has in memory
  reports,      \* the final progress files of the runs that returned
  itemRuns,
  overlapped    \* history: two order-item collections were under way at once

itemVars == <<index, tmp, openAs, unreadable, itemRun, reports, itemRuns, overlapped>>

-----------------------------------------------------------------------------
Entries    == {"none", "stored", "missing"}
Indexes    == [Orders -> Entries]
EmptyIndex == [o \in Orders |-> "none"]
Reports    == [ids : SUBSET Orders, processed : Nat, failed : Nat]

ASSUME NoFileAssumption == NoFile \notin Indexes

ItemRuns ==
  [pc : {"next", "fill", "manifest", "fillManifest", "tmp", "replace", "tmpGone", "replaceGone"},
   ids : SUBSET Orders, left : SUBSET Orders, cache : Indexes,
   processed : Nat, failed : Nat, tries : Nat, batch : Nat]

ItemTypeOK ==
  /\ index \in Indexes
  /\ tmp \in Indexes \union {NoFile}
  /\ openAs \in [ItemCollectors -> FileNames \union {"none", "gone"}]
  /\ unreadable \subseteq FileNames
  /\ itemRun \in [ItemCollectors -> ItemRuns \union {Idle}]
  /\ reports \in SUBSET Reports
  /\ itemRuns \in 0 .. MaxItemRuns
  /\ overlapped \in BOOLEAN

ItemInit ==
  /\ index = EmptyIndex
  /\ tmp = NoFile
  /\ openAs = [t \in ItemCollectors |-> "none"] /\ unreadable = {}
  /\ itemRun = [t \in ItemCollectors |-> Idle]
  /\ reports = {}
  /\ itemRuns = 0
  /\ overlapped = FALSE

-----------------------------------------------------------------------------
ItemsAt(t, pc)      == itemRun[t].pc = pc
ItemsUpdate(t, r)   == itemRun' = [itemRun EXCEPT ![t] = r]
ItemsGoto(t, pc)    == itemRun' = [itemRun EXCEPT ![t].pc = pc]
IndexFilesUnchanged == UNCHANGED <<index, tmp, openAs, unreadable>>
FilesUnchanged      == IndexFilesUnchanged /\ UNCHANGED <<reports, itemRuns, overlapped>>

\* The run is at the first of the orders it has left.
Current(r) == CHOOSE o \in r.left : \A x \in r.left : o <= x
HasOrder(t) == ItemsAt(t, "next") /\ itemRun[t].left # {}

\* The order is done with, one way or another.
Passed(r, failed) ==
  [r EXCEPT !.pc = "next", !.left = @ \ {Current(r)}, !.processed = @ + 1, !.tries = 0,
            !.batch = 0, !.failed = IF failed THEN @ + 1 ELSE @]

OrderIds == UNION {Records(batches[i]) : i \in Canonical(batches, "orders")}

\* An invalid order batch refuses the run, and so does an unreadable index; an
\* order batch without a manifest is left out.
BeginItems(t) ==
  /\ ItemsAt(t, "idle")
  /\ itemRuns < MaxItemRuns
  /\ ~HasInvalid(batches, "orders")
  /\ "index" \notin unreadable
  /\ itemRuns' = itemRuns + 1
  /\ ItemsUpdate(t, [pc |-> "next", ids |-> OrderIds, left |-> OrderIds, cache |-> index,
                     processed |-> 0, failed |-> 0, tries |-> 0, batch |-> 0])
  /\ overlapped' = (overlapped \/ \E u \in ItemCollectors : ~ItemsAt(u, "idle"))
  /\ UNCHANGED <<batches, reports, faults>> /\ IndexFilesUnchanged

Listed(t) == itemRun[t].cache[Current(itemRun[t])] # "none"

SkipIndexed(t) ==
  /\ HasOrder(t) /\ Listed(t)
  /\ ItemsUpdate(t, Passed(itemRun[t], FALSE))
  /\ UNCHANGED <<batches, faults>> /\ FilesUnchanged

\* Mutant: the order is entered in the run's index before it is collected.
EnterThenRead(t) ==
  LET o == Current(itemRun[t]) IN
  /\ HasOrder(t) /\ ~Listed(t)
  /\ o \notin GoneOrders
  /\ batches' = Opened(batches, "order_items", o)
  /\ ItemsUpdate(t, [itemRun[t] EXCEPT !.pc = "fill", !.batch = Len(batches) + 1, !.cache[o] = "stored"])
  /\ UNCHANGED faults /\ FilesUnchanged

\* The items are read, their raw response is captured and their sanitized
\* export opened.
ReadItems(t) ==
  LET o == Current(itemRun[t]) IN
  /\ HasOrder(t) /\ ~Listed(t)
  /\ o \notin GoneOrders
  /\ batches' = Opened(batches, "order_items", o)
  /\ ItemsUpdate(t, [itemRun[t] EXCEPT !.pc = "fill", !.batch = Len(batches) + 1])
  /\ UNCHANGED faults /\ FilesUnchanged

\* HTTP 404: the order is counted and entered in the index as missing.
SourceMissing(t) ==
  LET r == itemRun[t]
      o == Current(r) IN
  /\ HasOrder(t) /\ ~Listed(t)
  /\ o \in GoneOrders
  /\ ItemsUpdate(t, [r EXCEPT !.pc = "tmpGone", !.processed = @ + 1, !.cache[o] = "missing"])
  /\ UNCHANGED <<batches, faults>> /\ FilesUnchanged

ItemsRateLimited(t) ==
  LET r == itemRun[t] IN
  /\ HasOrder(t) /\ ~Listed(t)
  /\ ItemsUpdate(t, IF r.tries < MaxRetries THEN [r EXCEPT !.tries = @ + 1] ELSE Passed(r, TRUE))
  /\ UNCHANGED <<batches, faults>> /\ FilesUnchanged

FillItems(t) ==
  /\ ItemsAt(t, "fill")
  /\ batches' = Filled(batches, itemRun[t].batch)
  /\ ItemsGoto(t, "manifest")
  /\ UNCHANGED faults /\ FilesUnchanged

OpenItemManifest(t) ==
  /\ ItemsAt(t, "manifest")
  /\ batches' = ManifestOpened(batches, itemRun[t].batch)
  /\ ItemsGoto(t, "fillManifest")
  /\ UNCHANGED faults /\ FilesUnchanged

\* With the manifest the batch is complete: it is counted and entered in the
\* run's index.
FillItemManifest(t) ==
  LET r == itemRun[t] IN
  /\ ItemsAt(t, "fillManifest")
  /\ batches' = ManifestFilled(batches, r.batch)
  /\ ItemsUpdate(t, [r EXCEPT !.pc = "tmp", !.processed = @ + 1, !.cache[Current(r)] = "stored"])
  /\ UNCHANGED faults /\ FilesUnchanged

\* Opening the temporary file empties the file that has this name.
OpenTmp(t) ==
  /\ itemRun[t].pc \in {"tmp", "tmpGone"} /\ openAs[t] = "none"
  /\ tmp' = EmptyIndex /\ unreadable' = unreadable \union {"tmp"}
  /\ openAs' = [openAs EXCEPT ![t] = "tmp"]
  /\ UNCHANGED <<batches, index, itemRun, reports, itemRuns, overlapped, faults>>

\* What filling a file makes of it.  Two that fill it may tear it.
Filling(t) == {itemRun[t].cache} \union (IF overlapped THEN {EmptyIndex} ELSE {})

\* The run fills the file it has open, whatever its name is by now.
FillTmp(t) ==
  /\ itemRun[t].pc \in {"tmp", "tmpGone"} /\ openAs[t] # "none"
  /\ \E content \in Filling(t) :
       /\ tmp' = IF openAs[t] = "tmp" THEN content ELSE tmp
       /\ index' = IF openAs[t] = "index" THEN content ELSE index
       /\ unreadable' = IF content = itemRun[t].cache THEN unreadable \ {openAs[t]}
                        ELSE unreadable \union ({openAs[t]} \intersect FileNames)
  /\ openAs' = [openAs EXCEPT ![t] = "none"]
  /\ ItemsGoto(t, IF ItemsAt(t, "tmp") THEN "replace" ELSE "replaceGone")
  /\ UNCHANGED <<batches, reports, itemRuns, overlapped, faults>>

Indexed(r) == [r EXCEPT !.pc = "next", !.left = @ \ {Current(r)}, !.tries = 0, !.batch = 0]

\* The temporary file takes the index's place, whoever wrote it or writes it.
ReplaceIndex(t) ==
  /\ itemRun[t].pc \in {"replace", "replaceGone"}
  /\ tmp # NoFile
  /\ index' = tmp
  /\ tmp' = NoFile
  /\ unreadable' = IF "tmp" \in unreadable THEN {"index"} ELSE {}
  /\ openAs' = [u \in ItemCollectors |-> NameAfter(openAs[u])]
  /\ ItemsUpdate(t, Indexed(itemRun[t]))
  /\ UNCHANGED <<batches, reports, itemRuns, overlapped, faults>>

\* An exception while an order is collected counts the order as failed (once
\* more, when its index entry could not be written); one while a 404 is
\* entered in the index ends the run.
ItemsRaise(t) ==
  /\ ItemsUpdate(t, IF itemRun[t].pc \in {"tmpGone", "replaceGone"} THEN Idle
                                                                   ELSE Passed(itemRun[t], TRUE))
  /\ openAs' = [openAs EXCEPT ![t] = "none"]
  /\ UNCHANGED <<batches, index, tmp, unreadable, reports, itemRuns, overlapped>>

\* Another run has taken the temporary file away.
ReplaceFails(t) ==
  /\ itemRun[t].pc \in {"replace", "replaceGone"}
  /\ tmp = NoFile
  /\ ItemsRaise(t)
  /\ UNCHANGED faults

ItemsFail(t) ==
  /\ IF ItemsAt(t, "next") THEN HasOrder(t) /\ ~Listed(t) ELSE ~ItemsAt(t, "idle")
  /\ faults < MaxFaults
  /\ faults' = faults + 1
  /\ ItemsRaise(t)

CompletedIfProcessed(r) == r.processed = Cardinality(r.ids)   \* mutant: failures do not count

\* completed in the report: no order failed and every order was processed.
Completed(r) == r.failed = 0 /\ r.processed = Cardinality(r.ids)

FinishItems(t) ==
  LET r == itemRun[t] IN
  /\ ItemsAt(t, "next") /\ r.left = {}
  /\ reports' = reports \union {[ids |-> r.ids, processed |-> r.processed, failed |-> r.failed]}
  /\ ItemsUpdate(t, Idle)
  /\ UNCHANGED <<batches, itemRuns, overlapped, faults>> /\ IndexFilesUnchanged

ItemStep(t) ==
  \/ BeginItems(t) \/ SkipIndexed(t) \/ ReadItems(t) \/ SourceMissing(t) \/ ItemsRateLimited(t)
  \/ FillItems(t) \/ OpenItemManifest(t) \/ FillItemManifest(t) \/ OpenTmp(t)
  \/ FillTmp(t) \/ ReplaceIndex(t) \/ ReplaceFails(t) \/ ItemsFail(t) \/ FinishItems(t)

-----------------------------------------------------------------------------
\* The items of an order are settled: they are in the store, or the source
\* has none to give.
Settled(o) == o \in GoneOrders \/ Stored(o, "order_items")

\* The index never lists an order whose items are not in the store, although
\* runs replace it with copies of different ages and through one temporary
\* file, which one may move while another fills it: a later run skips what the
\* index lists and never looks at it again.
IndexIsBacked == \A o \in Orders : index[o] # "none" => Settled(o)

\* A run that reports itself completed has the items of every order it read
\* from the order batches, those it skipped included, whatever other runs did
\* to the index meanwhile.
CompletedRunIsWhole == \A r \in reports : Completed(r) => \A o \in r.ids : Settled(o)

\* Neither the index nor a completed run promises items that are not there.
ItemsAreWhole == IndexIsBacked /\ CompletedRunIsWhole
=============================================================================
