---------------------------- MODULE MappingReview ----------------------------
(***************************************************************************)
(* The queue of provider objects nobody has mapped yet (mapping_queue.py)  *)
(* and the call that maps a queued sale again once a mapping was approved  *)
(* (mapping_flow.py).  The queue is memory shared by threads and has no    *)
(* lock; mappings are versioned rows, added by someone else at any time.   *)
(* One provider object is modelled, met by several sources.  The callers   *)
(* are external: the app itself only reads the queue.                      *)
(***************************************************************************)
EXTENDS Naturals, Sequences

CONSTANTS
  Reviewers,       \* threads that enqueue and reprocess
  Sources,         \* source_identity_key: one item of the queue each
  TenantSkus,      \* SKUs of the tenant
  ForeignSkus,     \* SKUs of others
  MaxVersions,     \* bound: rows of provider_mappings
  MaxReviewCalls,  \* bound: calls of the queue
  NoSku

ASSUME ReviewAssumption == NoSku \notin TenantSkus \union ForeignSkus

VARIABLES
  queued,      \* keys of queue.pending
  resolvedTo,  \* source -> the canonical id in queue.resolved, if it is there
  mappings,    \* the versions of the object's mapping, oldest first
  call,        \* what a thread is doing
  audit,       \* queue.audit, with what the call mapped the line to (event) and
               \* which SKUs were in force at some moment of it (held)
  reviewCalls,
  callsMet     \* history: two calls were under way at once

reviewVars == <<queued, resolvedTo, mappings, call, audit, reviewCalls, callsMet>>

-----------------------------------------------------------------------------
AnySku == TenantSkus \union ForeignSkus

\* ck_ambiguous_mapping_not_approved: an ambiguous row is never approved.
MappingRows == [sku : AnySku, status : {"VERIFIED"}, approved : BOOLEAN]
          \union [sku : {NoSku}, status : {"AMBIGUOUS"}, approved : {FALSE}]

NoCall == [at |-> "idle"]

\* The sale to map: the item's with all the mapper needs, or without, or another product's.
SaleLines == {"whole", "incomplete", "other"}

ReviewStatuses == {"REPROCESSED", "REPROCESS_EXCEPTION", "REPROCESS_FAILED", "NOT_PENDING", "TENANT_MISMATCH",
                   "SOURCE_MISMATCH", "AMBIGUOUS_MAPPING", "MAPPING_COLLISION", "APPROVED_MAPPING_REQUIRED",
                   "CANONICAL_TENANT_MISMATCH"}

Calls  == [at : {"look", "put", "lookup", "decide", "take", "delete", "store", "audit"},
           source : Sources, ours : BOOLEAN, line : SaleLines,
           status : ReviewStatuses, sku : AnySku \union {NoSku}, held : SUBSET AnySku]

ReviewTypeOK ==
  /\ queued \subseteq Sources
  /\ resolvedTo \in [Sources -> AnySku \union {NoSku}]
  /\ mappings \in Seq(MappingRows)
  /\ call \in [Reviewers -> Calls \union {NoCall}]
  /\ reviewCalls \in 0 .. MaxReviewCalls
  /\ callsMet \in BOOLEAN

ReviewInit ==
  /\ queued = {}
  /\ resolvedTo = [s \in Sources |-> NoSku]
  /\ mappings = <<>>
  /\ call = [r \in Reviewers |-> NoCall]
  /\ audit = {}
  /\ reviewCalls = 0
  /\ callsMet = FALSE

CallTo(r, c)    == call' = [call EXCEPT ![r] = c]
CallAt(r, at)   == call[r].at = at
Answered(r, st) == CallTo(r, [call[r] EXCEPT !.at = "audit", !.status = st])
InCall(r)       == call[r] # NoCall

\* What the property compares with: the SKU the newest version maps to by
\* approval, if no version is ambiguous or approves another.
InForce ==
  {s \in TenantSkus :
     /\ mappings # <<>> /\ mappings[Len(mappings)] = [sku |-> s, status |-> "VERIFIED", approved |-> TRUE]
     /\ \A i \in DOMAIN mappings :
          mappings[i].status = "VERIFIED" /\ (mappings[i].approved => mappings[i].sku = s)}

-----------------------------------------------------------------------------
\* Someone adds a version: approves, withdraws or finds the object ambiguous.
AddVersion ==
  /\ Len(mappings) < MaxVersions
  /\ \E m \in MappingRows : mappings' = Append(mappings, m)
  /\ call' = [r \in Reviewers |-> IF InCall(r) THEN [call[r] EXCEPT !.held = @ \union InForce'] ELSE NoCall]
  /\ UNCHANGED <<queued, resolvedTo, audit, reviewCalls, callsMet>>

StartCall(r, at, s, ours, line) ==
  /\ ~InCall(r)
  /\ reviewCalls < MaxReviewCalls
  /\ reviewCalls' = reviewCalls + 1
  /\ callsMet' = (callsMet \/ \E q \in Reviewers : InCall(q))
  /\ CallTo(r, [at |-> at, source |-> s, ours |-> ours, line |-> line,
                status |-> "REPROCESS_EXCEPTION", sku |-> NoSku, held |-> InForce])
  /\ UNCHANGED <<queued, resolvedTo, mappings, audit>>

Known(s) == s \in queued \/ resolvedTo[s] # NoSku

\* enqueue: an item that is pending or resolved is answered as it is.
Look(r) ==
  /\ CallAt(r, "look")
  /\ IF Known(call[r].source) THEN CallTo(r, NoCall) ELSE CallTo(r, [call[r] EXCEPT !.at = "put"])
  /\ UNCHANGED <<queued, resolvedTo, mappings, audit, reviewCalls, callsMet>>

Put(r) ==
  /\ CallAt(r, "put")
  /\ queued' = queued \union {call[r].source}
  /\ CallTo(r, NoCall)
  /\ UNCHANGED <<resolvedTo, mappings, audit, reviewCalls, callsMet>>

\* reprocess_toss_mapping_item: the item must be pending, the tenant's, and
\* the line's.
LookUp(r) ==
  /\ CallAt(r, "lookup")
  /\ IF call[r].source \notin queued THEN Answered(r, "NOT_PENDING")
     ELSE IF ~call[r].ours           THEN Answered(r, "TENANT_MISMATCH")
     ELSE IF call[r].line = "other"  THEN Answered(r, "SOURCE_MISMATCH")
     ELSE CallTo(r, [call[r] EXCEPT !.at = "decide"])
  /\ UNCHANGED <<queued, resolvedTo, mappings, audit, reviewCalls, callsMet>>

\* Mutant: the newest approved version, though a newer one withdraws it.
LatestApproved(ms) ==
  LET versions == {i \in DOMAIN ms : ms[i].approved} IN
  IF versions = {} THEN [sku |-> NoSku, status |-> "VERIFIED", approved |-> FALSE]
  ELSE ms[CHOOSE i \in versions : \A j \in versions : j <= i]

Latest(ms) == ms[Len(ms)]

ApprovedSkus(ms) == {ms[i].sku : i \in {j \in DOMAIN ms : ms[j].approved}}

\* What the versions say, in the order of the tests.
MappingVerdict(ms, line) ==
  IF \E i \in DOMAIN ms : ms[i].status = "AMBIGUOUS"   THEN "AMBIGUOUS_MAPPING"
  ELSE IF \E a, b \in ApprovedSkus(ms) : a # b         THEN "MAPPING_COLLISION"
  ELSE IF ms = <<>> \/ ~Latest(ms).approved            THEN "APPROVED_MAPPING_REQUIRED"
  ELSE IF Latest(ms).sku \notin TenantSkus             THEN "CANONICAL_TENANT_MISMATCH"
  ELSE IF line = "incomplete"                          THEN "REPROCESS_FAILED"
  ELSE "REPROCESSED"

\* The versions and the SKU are read and the line is mapped.
Decide(r) ==
  LET v == MappingVerdict(mappings, call[r].line) IN
  /\ CallAt(r, "decide")
  /\ IF v = "REPROCESSED"
     THEN CallTo(r, [call[r] EXCEPT !.at = "take", !.sku = Latest(mappings).sku])
     ELSE Answered(r, v)
  /\ UNCHANGED <<queued, resolvedTo, mappings, audit, reviewCalls, callsMet>>

\* resolve: an item another call resolved meanwhile is left as it is; KeyError
\* if it is nowhere at the moment.
Take(r) ==
  /\ CallAt(r, "take")
  /\ IF call[r].source \in queued THEN CallTo(r, [call[r] EXCEPT !.at = "delete"])
     ELSE Answered(r, IF resolvedTo[call[r].source] # NoSku THEN "REPROCESSED" ELSE "REPROCESS_EXCEPTION")
  /\ UNCHANGED <<queued, resolvedTo, mappings, audit, reviewCalls, callsMet>>

\* del self.pending[queue_id]
Delete(r) ==
  /\ CallAt(r, "delete")
  /\ IF call[r].source \in queued
     THEN CallTo(r, [call[r] EXCEPT !.at = "store"]) /\ queued' = queued \ {call[r].source}
     ELSE Answered(r, "REPROCESS_EXCEPTION") /\ UNCHANGED queued
  /\ UNCHANGED <<resolvedTo, mappings, audit, reviewCalls, callsMet>>

Store(r) ==
  /\ CallAt(r, "store")
  /\ resolvedTo' = [resolvedTo EXCEPT ![call[r].source] = call[r].sku]
  /\ Answered(r, "REPROCESSED")
  /\ UNCHANGED <<queued, mappings, audit, reviewCalls, callsMet>>

\* The decorator's finally: the entry names what is resolved by now, and nothing
\* to another tenant.
Audit(r) ==
  LET c == call[r] IN
  /\ CallAt(r, "audit")
  /\ audit' = audit \union {[source |-> c.source, ours |-> c.ours, status |-> c.status,
                             names |-> IF c.ours THEN resolvedTo[c.source] ELSE NoSku,
                             event |-> c.sku, held |-> c.held]}
  /\ CallTo(r, NoCall)
  /\ UNCHANGED <<queued, resolvedTo, mappings, reviewCalls, callsMet>>

ReviewStep(r) ==
  \/ \E s \in Sources : StartCall(r, "look", s, TRUE, "whole")
  \/ \E s \in Sources, line \in SaleLines : StartCall(r, "lookup", s, TRUE, line)
  \/ \E s \in Sources : StartCall(r, "lookup", s, FALSE, "whole")
  \/ Look(r) \/ Put(r) \/ LookUp(r) \/ Decide(r) \/ Take(r) \/ Delete(r) \/ Store(r) \/ Audit(r)

ReviewNext == AddVersion \/ \E r \in Reviewers : ReviewStep(r)

ReviewSpec == ReviewInit /\ [][ReviewNext]_reviewVars

-----------------------------------------------------------------------------
\* A sale is mapped only to the SKU that was in force at some moment of the call,
\* whatever versions are added and whoever reprocesses the item meanwhile, and
\* what stays on record as its resolution is one of these.  While no two calls
\* overlapped, a resolved item does not come back, no item is lost, a call that
\* mapped the sale is recorded with its own SKU and no other call changed one.
ReviewIsApproved ==
  /\ \A e \in audit :
       /\ e.status = "REPROCESSED" => e.event \in e.held
       /\ ~e.ours => e.names = NoSku /\ e.status \in {"NOT_PENDING", "TENANT_MISMATCH"}
  /\ \A s \in Sources :
       resolvedTo[s] # NoSku =>
         \/ \E e \in audit : e.source = s /\ e.status = "REPROCESSED" /\ e.event = resolvedTo[s]
         \/ \E r \in Reviewers : CallAt(r, "audit") /\ call[r].source = s /\ call[r].sku = resolvedTo[s]
  /\ ~callsMet =>
       /\ \A s \in queued : resolvedTo[s] = NoSku
       /\ \A e \in audit :
            e.status = "REPROCESSED" => e.names = e.event /\ resolvedTo[e.source] = e.event
       /\ \A e \in audit : e.status # "REPROCESS_EXCEPTION"
=============================================================================
