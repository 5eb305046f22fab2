-------------------------- MODULE PolicyExplanation --------------------------
(***************************************************************************)
(* POST /retrieval/search and /retrieval/explanations.  A search runs on a *)
(* worker thread under one lock and a deadline; a thread whose request has *)
(* timed out goes on and its output is discarded.  An explanation searches *)
(* first, then looks every source up again, and calls the model only with  *)
(* evidence that is suitable.  Meanwhile time passes and evidence ages.    *)
(*                                                                         *)
(* The score of a row is any number: a search returns any ranking, of      *)
(* which the service keeps the best row of each version of a source.       *)
(***************************************************************************)
EXTENDS Integers, FiniteSets, FiniteSetsExt, SequencesExt

CONSTANTS
  Askers,          \* requests
  AskedBy,         \* asker -> what it may ask
  Deployments,     \* settings and corpora a process may start with
  TimeToLive,      \* live source type -> seconds
  TopK, MaxAttempts, MaxClock,
  NoTime, Unset

Claims == {"SHIPPING", "SHORTAGE", "READINESS", "OTHER", "PRIVATE"}
LiveTypes == {"INVENTORY_SNAPSHOT", "INCOMING_STOCK"}
SourceTypes == LiveTypes \union {"PRODUCT", "POLICY"}

Inquiries == [kind : {"search", "explain"}, claim : Claims, wants : SourceTypes \union {"any"},
              cite : BOOLEAN]

\* A row of the corpus; says is what its text supports, plain whether the two
\* ways to hash it agree.
CorpusRows == [chunk : Nat, source : Nat, version : Nat, type : SourceTypes, asOf : Nat \union {NoTime},
         stale : BOOLEAN, says : SUBSET {"shipping", "shortage", "tentative"}, plain : BOOLEAN]

Document(row) == <<row.source, row.version>>

ASSUME ExplanationAssumption ==
  /\ AskedBy \in [Askers -> SUBSET Inquiries]
  /\ \A d \in Deployments :
       /\ d.ready \in BOOLEAN /\ d.method \in {"BM25", "VECTOR"} /\ d.credential \in BOOLEAN
       /\ d.rows \subseteq CorpusRows
       \* What _validate_bundle makes sure of.
       /\ \A a, b \in d.rows :
            /\ a.chunk = b.chunk => a = b
            /\ Document(a) = Document(b) => <<a.type, a.asOf, a.stale>> = <<b.type, b.asOf, b.stale>>
            /\ a.type \in LiveTypes => a.asOf # NoTime
  /\ TimeToLive \in [LiveTypes -> Nat]
  /\ TopK \in Nat \ {0} /\ MaxAttempts \in Nat \ {0} /\ MaxClock \in Nat
  /\ NoTime \notin Nat

VARIABLES
  seconds,        \* the clock
  deployment,     \* from when the process has started
  inquiry,        \* asker -> what it asks, from when it does
  asker,          \* asker -> where its request is
  thread,         \* asker -> where its thread is
  searching,      \* _busy is held
  found,          \* asker -> the rows its search cites, and when they were read
  evidence,       \* asker -> the rows the model is given, and when they were looked up
  calls,          \* asker -> attempts to call the model
  reply           \* asker -> what it was answered

explanationVars == <<seconds, deployment, inquiry, asker, thread, searching, found, evidence, calls, reply>>

Reads   == [rows : SUBSET UNION {d.rows : d \in Deployments}, at : 0 .. MaxClock]
NoReply == [status |-> "none", reason |-> "none", cites |-> {}]
Pairs   == IF deployment = Unset THEN {} ELSE {Document(row) : row \in deployment.rows}
Foreign == <<0, 0>>     \* a source nobody retrieved

\* What is not there is no read.
ASSUME UnsetAssumption == Unset \notin Reads

ExplanationTypeOK ==
  /\ seconds \in 0 .. MaxClock
  /\ deployment \in Deployments \union {Unset}
  /\ \A a \in Askers : inquiry[a] \in AskedBy[a] \union {Unset}
  /\ asker \in [Askers -> {"idle", "waiting", "searched", "grounded", "done"}]
  /\ thread \in [Askers -> {"none", "started", "read"}]
  /\ searching \in BOOLEAN
  /\ found \in [Askers -> Reads \union {Unset}] /\ evidence \in [Askers -> Reads \union {Unset}]
  /\ calls \in [Askers -> 0 .. MaxAttempts]
  /\ \A a \in Askers : /\ reply[a].status \in {"none", "ERROR", "HOLD", "DRAFT_AVAILABLE", "ANSWER"}
                       /\ reply[a].cites \subseteq Pairs

ExplanationInit ==
  /\ seconds = 0
  /\ deployment = Unset /\ inquiry = [a \in Askers |-> Unset]
  /\ asker = [a \in Askers |-> "idle"] /\ thread = [a \in Askers |-> "none"]
  /\ searching = FALSE
  /\ found = [a \in Askers |-> Unset] /\ evidence = [a \in Askers |-> Unset]
  /\ calls = [a \in Askers |-> 0] /\ reply = [a \in Askers |-> NoReply]

-----------------------------------------------------------------------------
\* What the registry says of a document, and what the search makes of it: only
\* live sources age there.
StaleAt(row, t) ==
  \/ row.stale
  \/ row.asOf # NoTime /\ (t < row.asOf \/ (row.type \in LiveTypes /\ t - row.asOf > TimeToLive[row.type]))

FreshnessState(row, t) == IF row.type \in LiveTypes /\ StaleAt(row, t) THEN "STALE" ELSE "FRESH"

\* Mutant: rows of one document are not collapsed.
BestRows(rows) == {s \in SUBSET rows : Cardinality(s) = Min({TopK, Cardinality(rows)})}

\* What a search may cite: the best rows of as many documents.
Collapsed(rows) ==
  {s \in SUBSET rows :
     /\ \A a, b \in s : Document(a) = Document(b) => a = b
     /\ Cardinality(s) = Min({TopK, Cardinality({Document(row) : row \in rows})})}

\* The score is above the two high thresholds, above the medium one, positive,
\* or not.
Strengths == {"strong", "fair", "weak", "nothing"}

Confidence(read, strength) ==
  IF \E row \in read.rows : FreshnessState(row, read.at) = "STALE" THEN "LOW"
  ELSE CASE strength = "nothing" -> "ABSTAIN"
         [] strength = "strong"  -> "HIGH"
         [] strength = "fair"    -> "MEDIUM"
         [] strength = "weak"    -> "LOW"

\* Conditions under which a result alone does not answer, in the order they
\* are tested, and whether the answer waits for a person to review it.
Cautions == <<"source_conflict", "mapping_ambiguous", "policy_source_unconfirmed",
              "incoming_date_unconfirmed", "live_order_lookup_required",
              "delivery_address_change", "cancel_refund">>
Held == {"source_conflict", "mapping_ambiguous", "policy_source_unconfirmed", "incoming_date_unconfirmed"}

FirstCaution(cautions) == Cautions[SelectInSeq(Cautions, LAMBDA x : x \in cautions)]

AnswerPolicy(read, level, cautions) ==
  LET ruling(s, review, why) == [status |-> s, review |-> review, reason |-> why] IN
  CASE read.rows = {} -> ruling("INSUFFICIENT_EVIDENCE", FALSE, "NO_VALID_CITATION")
    [] read.rows # {} /\ (\E row \in read.rows : FreshnessState(row, read.at) = "STALE") ->
         ruling("HOLD", FALSE, "STALE_EVIDENCE")
    [] read.rows # {} /\ (\A row \in read.rows : FreshnessState(row, read.at) = "FRESH") /\ cautions # {} ->
         ruling(IF FirstCaution(cautions) \in Held THEN "HOLD" ELSE "HUMAN_REVIEW", TRUE, FirstCaution(cautions))
    [] OTHER -> IF level = "HIGH" THEN ruling("DRAFT_AVAILABLE", FALSE, "none")
                ELSE ruling("HOLD", FALSE, level)

\* consume_retrieval_trace, on the trace of a result.
Consumed(read, level, ruling) ==
  CASE read.rows = {} -> "INSUFFICIENT_EVIDENCE"
    [] read.rows # {} /\ (ruling.review \/ ruling.reason \in {"delivery_address_change", "cancel_refund"}) ->
         "HUMAN_REVIEW"
    [] OTHER -> IF level # "HIGH" \/ ruling.status = "HOLD" THEN "HOLD" ELSE "ANSWER"

-----------------------------------------------------------------------------
Go(a, pc)     == asker' = [asker EXCEPT ![a] = pc]
Reply(a, s, why, cites) ==
  Go(a, "done") /\ reply' = [reply EXCEPT ![a] = [status |-> s, reason |-> why, cites |-> cites]]
\* A search answers with an error, an explanation with a hold and the reason.
RefusalOf(q) == IF q.kind = "search" THEN "ERROR" ELSE "HOLD"
ReplyFailure(a, code) == Reply(a, RefusalOf(inquiry[a]), code, {})
Hold(a, why)  == Reply(a, "HOLD", why, {})

Forget(a)      == found' = [found EXCEPT ![a] = Unset]
GroundUnchanged == UNCHANGED <<seconds, deployment, inquiry, evidence, calls>>
RestUnchanged   == UNCHANGED <<seconds, deployment, thread, searching, found, evidence, calls>>
WorkUnchanged   == UNCHANGED <<seconds, deployment, inquiry, thread, searching>>

\* The process starts with its settings and the corpus it could restore.
StartUp ==
  /\ deployment = Unset
  /\ deployment' \in Deployments
  /\ UNCHANGED <<seconds, inquiry, asker, thread, searching, found, evidence, calls, reply>>

ReasonToRefuse(q) ==
  CASE q.claim = "PRIVATE" -> "SAFETY_BLOCKED"
    [] q.claim # "PRIVATE" /\ ~deployment.ready -> "RUNTIME_UNAVAILABLE"
    [] q.claim # "PRIVATE" /\ deployment.ready /\ (deployment.method # "BM25" \/ deployment.rows = {}) ->
         "INDEX_UNAVAILABLE"
    [] OTHER -> "none"

\* Every refusal before a thread is asked for.  PRIVATE also stands for a search
\* that names another method: both are refused before the runtime is looked at.
Ask(a) ==
  /\ asker[a] = "idle" /\ deployment # Unset
  /\ \E q \in AskedBy[a] :
       /\ inquiry' = [inquiry EXCEPT ![a] = q]
       /\ IF ReasonToRefuse(q) = "none" THEN Go(a, "waiting") /\ UNCHANGED reply
          ELSE Reply(a, RefusalOf(q), ReasonToRefuse(q), {})
  /\ RestUnchanged

\* The thread starts: _busy is taken or the request refused.
StartSearch(a) ==
  /\ asker[a] = "waiting" /\ thread[a] = "none"
  /\ IF searching
       THEN ReplyFailure(a, "RUNTIME_BUSY") /\ UNCHANGED <<thread, searching>>
       ELSE /\ searching' = TRUE /\ thread' = [thread EXCEPT ![a] = "started"]
            /\ UNCHANGED <<asker, reply>>
  /\ UNCHANGED found /\ GroundUnchanged

Wanted(a) == {row \in deployment.rows : inquiry[a].wants \in {"any", row.type}}

\* The thread ends, with a failure if its request still waits.
WorkerEnds(a) == searching' = FALSE /\ thread' = [thread EXCEPT ![a] = "none"]

ReadRows(a) ==
  /\ thread[a] = "started"
  /\ IF Wanted(a) = {}
       THEN /\ WorkerEnds(a) /\ UNCHANGED found
            /\ IF asker[a] = "waiting" THEN ReplyFailure(a, "INDEX_UNAVAILABLE") ELSE UNCHANGED <<asker, reply>>
       ELSE /\ \E s \in Collapsed(Wanted(a)) : found' = [found EXCEPT ![a] = [rows |-> s, at |-> seconds]]
            /\ thread' = [thread EXCEPT ![a] = "read"]
            /\ UNCHANGED <<asker, reply, searching>>
  /\ GroundUnchanged

\* The result reaches its request, or nobody.
Return(a) ==
  /\ thread[a] = "read"
  /\ WorkerEnds(a)
  /\ CASE asker[a] # "waiting" -> Forget(a) /\ UNCHANGED <<asker, reply>>
       [] asker[a] = "waiting" /\ inquiry[a].kind = "explain" -> Go(a, "searched") /\ UNCHANGED <<found, reply>>
       [] OTHER ->
            \E strength \in Strengths :
              LET level  == Confidence(found[a], strength)
                  ruling == AnswerPolicy(found[a], level, {}) IN
              /\ Reply(a, ruling.status, ruling.reason, {Document(row) : row \in found[a].rows})
              /\ UNCHANGED found
  /\ GroundUnchanged

\* Mutant: a request that times out lets go of the lock.
ExpireAndRelease(a) ==
  /\ asker[a] = "waiting"
  /\ ReplyFailure(a, "TIMEOUT")
  /\ searching' = FALSE
  /\ UNCHANGED <<thread, found>> /\ GroundUnchanged

\* The deadline passes: the request is answered, its thread goes on.
Expire(a) ==
  /\ asker[a] = "waiting"
  /\ ReplyFailure(a, "TIMEOUT")
  /\ UNCHANGED <<thread, searching, found>> /\ GroundUnchanged

-----------------------------------------------------------------------------
\* evaluate_claim_support.
SupportsShipping(row)  == row.type = "POLICY" /\ "shipping" \in row.says
SupportsShortage(row)  == row.type = "POLICY" /\ "shortage" \in row.says
SupportsTentative(row) == row.type = "INCOMING_STOCK" /\ "tentative" \in row.says

Supports(row, claim) ==
  CASE claim = "SHIPPING"  -> SupportsShipping(row)
    [] claim = "SHORTAGE"  -> SupportsShortage(row)
    [] claim = "READINESS" -> SupportsShipping(row) \/ SupportsTentative(row)
    [] OTHER               -> FALSE

Supported(rows, claim) ==
  IF claim = "READINESS"
    THEN (\E row \in rows : SupportsShipping(row)) /\ (\E row \in rows : SupportsTentative(row))
    ELSE \E row \in rows : Supports(row, claim)

\* Citations are selected by source, not by what they say.
Selection(rows, claim) ==
  {row \in rows : \E other \in rows : other.source = row.source /\ Supports(other, claim)}

RequiredTypes(claim) == IF claim = "READINESS" THEN {"POLICY", "INCOMING_STOCK"} ELSE {"POLICY"}

\* evaluate_source_suitability, on what the registry says now.
Suitable(rows, claim) ==
  /\ \A row \in rows : row.plain /\ ~StaleAt(row, seconds)
  /\ \A a, b \in rows : a.source = b.source => a.version = b.version
  /\ RequiredTypes(claim) \subseteq {row.type : row \in rows}

Ground(a) ==
  LET claim == inquiry[a].claim
      rows  == Selection(found[a].rows, claim) IN
  /\ asker[a] = "searched"
  /\ CASE ~Supported(found[a].rows, claim) -> Hold(a, "CLAIM_NOT_SUPPORTED") /\ Forget(a) /\ UNCHANGED evidence
       [] Supported(found[a].rows, claim) /\ ~Suitable(rows, claim) ->
            Hold(a, "NOT_SUITABLE") /\ Forget(a) /\ UNCHANGED evidence
       [] Supported(found[a].rows, claim) /\ Suitable(rows, claim) /\ ~deployment.credential ->
            Hold(a, "RUNTIME_UNAVAILABLE") /\ Forget(a) /\ UNCHANGED evidence
       [] OTHER -> /\ evidence' = [evidence EXCEPT ![a] = [rows |-> rows, at |-> seconds]]
                   /\ Go(a, "grounded") /\ UNCHANGED <<reply, found>>
  /\ UNCHANGED calls /\ WorkUnchanged

\* One attempt to call the model.  Four kinds of errors are tried again.
Attempt(a) == asker[a] = "grounded" /\ calls' = [calls EXCEPT ![a] = @ + 1]

CallFails(a) ==
  /\ Attempt(a)
  /\ \E again \in BOOLEAN :
       IF again /\ calls[a] + 1 < MaxAttempts THEN UNCHANGED <<asker, reply>>
       ELSE Hold(a, "PROVIDER_FAILURE")
  /\ UNCHANGED <<found, evidence>> /\ WorkUnchanged

\* validate_grounded_explanation: numbers were not given, so none is allowed.
Valid(output, a) ==
  /\ output.cites \subseteq {Document(row) : row \in evidence[a].rows}
  /\ inquiry[a].cite /\ output.status = "ANSWER" => output.cites # {}
  /\ ~output.numbers

CallAnswers(a) ==
  /\ Attempt(a)
  /\ \E output \in [status : {"ANSWER", "HOLD"}, cites : SUBSET (Pairs \union {Foreign}), numbers : BOOLEAN] :
       CASE ~Valid(output, a) -> Hold(a, "MODEL_VALIDATION_FAILED")
         [] Valid(output, a) /\ output.status = "HOLD" -> Hold(a, "MODEL_HOLD")
         [] OTHER -> Reply(a, "ANSWER", "none", output.cites)
  /\ UNCHANGED <<found, evidence>> /\ WorkUnchanged

Tick ==
  /\ seconds < MaxClock
  /\ \E a \in Askers : asker[a] \notin {"idle", "done"} \/ thread[a] # "none"
  /\ seconds' = seconds + 1
  /\ UNCHANGED <<deployment, inquiry, asker, thread, searching, found, evidence, calls, reply>>

ExplanationNext ==
  \/ StartUp \/ Tick
  \/ \E a \in Askers : \/ Ask(a) \/ StartSearch(a) \/ ReadRows(a) \/ Return(a) \/ Expire(a)
                       \/ Ground(a) \/ CallFails(a) \/ CallAnswers(a)

ExplanationSpec == ExplanationInit /\ [][ExplanationNext]_explanationVars

-----------------------------------------------------------------------------
\* Nothing, one thing, or one thing and a refund.
MindedTogether == {{}} \union {{x, y} : x \in Range(Cautions), y \in {"cancel_refund"}}
                     \union {{x} : x \in Range(Cautions)}

Working == {a \in Askers : thread[a] # "none"}

\* One search runs at a time and the lock says so, also after requests that
\* timed out; a draft is offered only for current evidence of what was asked;
\* and the consumer of a trace answers exactly what the service drafts, whatever
\* else is to be minded.
DraftIsSafe ==
  /\ Cardinality(Working) <= 1 /\ (searching <=> Working # {})
  /\ \A a \in Working : asker[a] = "waiting" \/ reply[a].reason = "TIMEOUT"
  /\ \A a \in Askers : reply[a].status = "DRAFT_AVAILABLE" =>
       /\ reply[a].cites = {Document(row) : row \in found[a].rows} /\ reply[a].cites # {}
       /\ \A row \in found[a].rows : /\ row.type \in LiveTypes => ~StaleAt(row, found[a].at)
                                     /\ inquiry[a].wants \in {"any", row.type}
  /\ \A a \in Working : thread[a] = "read" =>
       \A strength \in Strengths, minded \in MindedTogether :
         LET level  == Confidence(found[a], strength)
             ruling == AnswerPolicy(found[a], level, minded)
             taken  == Consumed(found[a], level, ruling) IN
         /\ taken = "ANSWER" <=> ruling.status = "DRAFT_AVAILABLE"
         /\ taken = "ANSWER" => minded = {} /\ strength = "strong"
         /\ ruling.status = "HUMAN_REVIEW" => taken = "HUMAN_REVIEW"

\* The model is called, and an explanation answered, only on evidence that was
\* retrieved, each row of which supports the claim by itself, of one version for
\* each source, and fresh when it was looked up after the search; and an answer
\* names nothing else.
ExplanationIsGrounded ==
  \A a \in Askers :
    LET claim == inquiry[a].claim
        given == evidence[a] IN
    /\ (calls[a] > 0 \/ reply[a].status = "ANSWER") =>
         /\ given # Unset /\ found[a] # Unset /\ found[a].at <= given.at
         /\ given.rows \subseteq found[a].rows /\ Supported(given.rows, claim)
         /\ \A row \in given.rows : Supports(row, claim) /\ ~StaleAt(row, given.at)
         /\ \A row, other \in given.rows : row.source = other.source => row = other
    /\ reply[a].status = "ANSWER" =>
         /\ calls[a] \in 1 .. MaxAttempts
         /\ reply[a].cites \subseteq {Document(row) : row \in given.rows}
         /\ inquiry[a].cite => reply[a].cites # {}
    /\ asker[a] # "idle" /\ inquiry[a].kind = "explain" /\ reply[a].status # "ANSWER" => reply[a].cites = {}

\* Drafts and explanations alike rest on evidence that is there and current,
\* whatever times out while a search goes on.
AnswersAreGrounded == DraftIsSafe /\ ExplanationIsGrounded
=============================================================================
