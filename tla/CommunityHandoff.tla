--------------------------- MODULE CommunityHandoff ---------------------------
(***************************************************************************)
(* The hand-off of customer inquiries: the scripts that rewrite exports of *)
(* an older contract, check the community exports, build ai_handoff.json   *)
(* from them and from the raw pages, and turn it and the AI track's answer *)
(* into the integration artifacts.  They are started by hand while         *)
(* collections go on, write their files in place and can die anywhere.     *)
(*                                                                         *)
(* An export is a page of one board or the comments of one post.  A text   *)
(* is a sequence of lines: plain, private (holds personal data), blank, or *)
(* half of a number that is personal data once the halves are next to each *)
(* other.  An export of the older contract holds free text and its         *)
(* manifest no hash of the export.  How exports come about is modelled in  *)
(* PageCollection and CommentCollection, attachments in                    *)
(* AttachmentCollection; here an export appears in the steps a reader can  *)
(* tell apart.                                                             *)
(***************************************************************************)
EXTENDS Integers, Sequences, FiniteSets

CONSTANTS
  Posts,          \* articles of boards 5 and 6; smaller is older
  ParentOf,       \* post -> the post it answers, or 0
  Exported,       \* the pages that collections may find: post -> text
  Traces,         \* the answers of the AI track that retrieval_trace.json may hold
  MaxExports,     \* bound: exports
  MaxScripts,     \* bound: scripts started
  MaxScriptFaults,\* bound: scripts that die
  NoPaper,        \* model value: a file that does not exist
  TornPaper       \* model value: a file that was opened and not filled

Lines == {"plain", "private", "blank", "half"}

ASSUME HandoffAssumption ==
  /\ Posts \subseteq Nat \ {0} /\ ParentOf \in [Posts -> Posts \union {0}]
  /\ \A page \in Exported : DOMAIN page \subseteq Posts /\ \A p \in DOMAIN page : page[p] \in Seq(Lines)
  /\ Traces \subseteq [citations: {"none", "fresh", "stale"}, gated: BOOLEAN, sure: BOOLEAN,
                      held: BOOLEAN, warning: {"none", "stale", "unconfirmed"}, readOnly: BOOLEAN]
  /\ {MaxExports, MaxScripts, MaxScriptFaults} \subseteq Nat

Phase1Findings == {"RESUME_GAP", "FREE_TEXT_LEAK"}
Phase2Findings == {"PRODUCT_BENCHMARK", "FILTER_COVERAGE"}
Decisions      == {"INSUFFICIENT_EVIDENCE", "HUMAN_REVIEW", "HOLD", "ANSWER"}

\* No file and a torn file are no content of a file.
ASSUME PaperAssumption ==
  /\ NoPaper # TornPaper
  /\ {NoPaper, TornPaper} \intersect {Phase1Findings, Phase1Findings \union Phase2Findings} = {}
  /\ NoPaper \notin [trace : Traces, decision : Decisions]

VARIABLES
  exports,      \* the community exports in the order of their batch ids
  builder,      \* build_day08_ai_handoff
  repairer,     \* repair_day08_community_sanitized
  reporter,     \* build_day08_phase1_artifacts and build_day08_phase2_artifacts
  handoff,      \* ai_handoff.json
  reports,      \* consumer_contract_report.json, retrieval_consumer_report.json, defects.csv
  scripts,
  scriptFaults

handoffVars == <<exports, builder, repairer, reporter, handoff, reports, scripts, scriptFaults>>

-----------------------------------------------------------------------------
(* The exports.  "raw" has its raw page only, "sanitized" lacks the        *)
(* manifest.  repaired: the file is what the repair writes.                *)
Export(of, page, old) == [of |-> of, page |-> page, old |-> old, stage |-> "raw", repaired |-> FALSE]

HasFreeText(e) == e.old /\ ~e.repaired /\ e.stage # "raw"

\* select_canonical_sanitized_artifacts: the hash in a manifest is that of the
\* file as it was collected.
Unlisted(e)   == e.stage = "sanitized"
Tampered(e)   == e.stage = "complete" /\ e.repaired /\ ~e.old
Trusted(e)    == e.stage = "complete" /\ ~Tampered(e)
Untrusted     == \E i \in DOMAIN exports : Unlisted(exports[i]) \/ Tampered(exports[i])
TrustedPosts  == UNION {DOMAIN exports[i].page : i \in {j \in DOMAIN exports : exports[j].of = "articles" /\ Trusted(exports[j])}}
TrustedTalk   == UNION {DOMAIN exports[i].page : i \in {j \in DOMAIN exports : exports[j].of = "comments" /\ Trusted(exports[j])}}

\* What the integrity report counts as blocking, but for the attachments.
CommunityIsWhole ==
  /\ ~Untrusted
  /\ \A p \in TrustedPosts : ParentOf[p] = 0 \/ (ParentOf[p] # p /\ ParentOf[p] \in TrustedPosts)
  /\ TrustedTalk \subseteq TrustedPosts

-----------------------------------------------------------------------------
(* The text that may leave the protected root.                             *)
\* redact_free_text sees the text as a whole, so halves on lines that follow
\* each other are replaced before lines are looked at.
Redacted(text) ==
  [i \in DOMAIN text |->
     IF text[i] = "half" /\ \E j \in {i - 1, i + 1} \intersect DOMAIN text : text[j] = "half"
       THEN "private" ELSE text[i]]

SafeLines(text) == SelectSeq(Redacted(text), LAMBDA line : line \notin {"private", "blank"})
Unsafe(text)    == \E i \in DOMAIN text : text[i] = "private" \/ Redacted(text)[i] = "private"

\* Mutant: the text is not looked at again after the lines are joined.
SafeTextUnchecked(text) ==
  IF SafeLines(text) = <<>> THEN [kept |-> FALSE, why |-> "NO_USABLE_TEXT_AFTER_REDACTION", lines |-> <<>>]
  ELSE [kept |-> TRUE, why |-> "NONE", lines |-> SafeLines(text)]

\* _safe_ai_text.
SafeText(text) ==
  IF SafeLines(text) = <<>> THEN [kept |-> FALSE, why |-> "NO_USABLE_TEXT_AFTER_REDACTION", lines |-> <<>>]
  ELSE IF Unsafe(SafeLines(text)) THEN [kept |-> FALSE, why |-> "PII_PATTERN_REMAINED", lines |-> <<>>]
  ELSE [kept |-> TRUE, why |-> IF Unsafe(text) THEN "SENSITIVE_LINES_REMOVED" ELSE "NONE",
        lines |-> SafeLines(text)]

\* _load_raw_article_texts: every raw page there is, of trusted exports or not.
RawPages   == {exports[i].page : i \in {j \in DOMAIN exports : exports[j].of = "articles"}}
RawTexts(p) == {page[p] : page \in {q \in RawPages : p \in DOMAIN q}}
Disputed(keys)  == {p \in keys : Cardinality(RawTexts(p)) > 1}
Undisputed(keys) == {p \in keys : Cardinality(RawTexts(p)) = 1}
RawText(p) == CHOOSE text \in RawTexts(p) : TRUE

IsReply(p) == ParentOf[p] # 0

\* The seeds and the counts of one run over the canonical posts.
Seeded(keys)      == {p \in Undisputed(keys) : SafeText(RawText(p)).kept}
HandoffOf(keys, counted) ==
  [keys |-> keys, counted |-> counted, seen |-> RawPages, disputed |-> Disputed(keys),
   seeds |-> [p \in Seeded(keys) |-> SafeText(RawText(p)).lines],
   queries |-> Cardinality({p \in keys : ~IsReply(p)}), replies |-> Cardinality({p \in keys : IsReply(p)}),
   queriesIn |-> Cardinality({p \in Seeded(keys) : ~IsReply(p)}),
   repliesIn |-> Cardinality({p \in Seeded(keys) : IsReply(p)})]

-----------------------------------------------------------------------------
Stopped == [pc |-> "idle"]

HandoffInit ==
  /\ exports = <<>>
  /\ builder = Stopped /\ repairer = Stopped /\ reporter = Stopped
  /\ handoff = NoPaper /\ reports = [name \in {"contract", "consumed", "defects"} |-> NoPaper]
  /\ scripts = 0 /\ scriptFaults = 0

\* Collections.
NewExport(of, page, old) ==
  /\ Len(exports) < MaxExports
  /\ exports' = Append(exports, Export(of, page, old))

SanitizedExport(i) ==
  /\ exports[i].stage = "raw"
  /\ exports' = [exports EXCEPT ![i].stage = "sanitized"]

ListedExport(i) ==
  /\ exports[i].stage = "sanitized"
  /\ exports' = [exports EXCEPT ![i].stage = "complete"]

Collected ==
  /\ \/ \E page \in Exported, old \in BOOLEAN : NewExport("articles", page, old)
     \/ \E p \in Posts : NewExport("comments", [q \in {p} |-> <<"plain">>], FALSE)
     \/ \E i \in DOMAIN exports : SanitizedExport(i) \/ ListedExport(i)
  /\ UNCHANGED <<builder, repairer, reporter, handoff, reports, scripts, scriptFaults>>

-----------------------------------------------------------------------------
(* The builder.                                                            *)
Starts == scripts < MaxScripts /\ scripts' = scripts + 1
BuilderOnly == UNCHANGED <<exports, repairer, reporter, reports, scriptFaults>>

\* Five selections, one of each resource, made at one instant here although
\* collections go on between them; any that is not clean ends the run.
LoadCanonical ==
  /\ builder.pc = "idle" /\ Starts
  /\ builder' = IF Untrusted THEN Stopped ELSE [pc |-> "check", keys |-> TrustedPosts]
  /\ UNCHANGED handoff /\ BuilderOnly

CheckCommunity ==
  /\ builder.pc = "check"
  /\ builder' = IF CommunityIsWhole THEN [pc |-> "read", keys |-> builder.keys, counted |-> TrustedPosts] ELSE Stopped
  /\ UNCHANGED <<handoff, scripts>> /\ BuilderOnly

ReadTexts ==
  /\ builder.pc = "read"
  /\ builder' = [pc |-> "open", paper |-> HandoffOf(builder.keys, builder.counted)]
  /\ UNCHANGED <<handoff, scripts>> /\ BuilderOnly

OpenHandoff ==
  /\ builder.pc = "open"
  /\ builder' = [builder EXCEPT !.pc = "fill"]
  /\ handoff' = TornPaper
  /\ UNCHANGED scripts /\ BuilderOnly

FillHandoff ==
  /\ builder.pc = "fill"
  /\ handoff' = builder.paper
  /\ builder' = Stopped
  /\ UNCHANGED scripts /\ BuilderOnly

Build == LoadCanonical \/ CheckCommunity \/ ReadTexts \/ OpenHandoff \/ FillHandoff

-----------------------------------------------------------------------------
(* The repair of every export that has a manifest, one after the other,    *)
(* each through a temporary file; the manifests stay as they are.          *)
Listed == {i \in DOMAIN exports : exports[i].stage = "complete"}
RepairerOnly == UNCHANGED <<exports, builder, reporter, handoff, reports, scriptFaults>>

BeginRepair ==
  /\ repairer.pc = "idle" /\ Listed # {} /\ Starts
  /\ repairer' = [pc |-> "next", left |-> Listed]
  /\ RepairerOnly

RepairExport ==
  /\ repairer.pc = "next"
  /\ LET i == CHOOSE j \in repairer.left : \A k \in repairer.left : j <= k IN
       /\ exports' = [exports EXCEPT ![i].repaired = TRUE]
       /\ repairer' = IF repairer.left = {i} THEN Stopped ELSE [repairer EXCEPT !.left = @ \ {i}]
  /\ UNCHANGED <<builder, reporter, handoff, reports, scripts, scriptFaults>>

-----------------------------------------------------------------------------
(* The answer of the AI track.  sure: the confidence is HIGH; gated: a     *)
(* person has to look, by the flag, the lookups or the reasons in it; a    *)
(* stale warning is about inventory; readOnly: no call, no write, no raw   *)
(* text.                                                                   *)
IsStale(trace) == trace.citations = "stale" \/ trace.warning = "stale"

\* Mutant: stale citations are overlooked when no warning names them.
RequiresHoldByWarning(trace) == ~trace.sure \/ trace.held \/ trace.warning \in {"stale", "unconfirmed"}

RequiresHold(trace) == ~trace.sure \/ trace.held \/ IsStale(trace) \/ trace.warning = "unconfirmed"

\* consume_retrieval_trace, for a trace it does not refuse.
Decision(trace) ==
  CASE trace.citations = "none"                                           -> "INSUFFICIENT_EVIDENCE"
    [] trace.citations # "none" /\ trace.gated                            -> "HUMAN_REVIEW"
    [] trace.citations # "none" /\ ~trace.gated /\ RequiresHold(trace)    -> "HOLD"
    [] trace.citations # "none" /\ ~trace.gated /\ ~RequiresHold(trace)   -> "ANSWER"

-----------------------------------------------------------------------------
(* The integration artifacts.  Of phase 1 the artifacts that do not depend *)
(* on the hand-off are left out.  Bound: one phase runs at a time.         *)
ReporterOnly == UNCHANGED <<exports, builder, repairer, handoff, scriptFaults>>

\* A step that writes the report of a name and goes on to the next one.
Reports(name, content, next) ==
  /\ reports' = [reports EXCEPT ![name] = content]
  /\ reporter' = next
  /\ UNCHANGED scripts /\ ReporterOnly

BeginPhase1 ==
  /\ reporter.pc = "idle" /\ Starts
  /\ handoff \notin {NoPaper, TornPaper}
  /\ reporter' = [pc |-> "contract", counts |-> <<handoff.queries, handoff.replies, handoff.queriesIn, handoff.repliesIn>>]
  /\ UNCHANGED reports /\ ReporterOnly

WriteContract ==
  /\ reporter.pc = "contract"
  /\ Reports("contract", [counts |-> reporter.counts, status |-> "WAITING_AI_HANDOFF"], [pc |-> "defects"])

WriteDefects ==
  /\ reporter.pc = "defects"
  /\ Reports("defects", Phase1Findings, Stopped)

\* A trace that is not read-only ends phase 2.
BeginPhase2 ==
  /\ reporter.pc = "idle" /\ Starts
  /\ \E trace \in Traces : trace.readOnly /\ reporter' = [pc |-> "consumed", trace |-> trace]
  /\ UNCHANGED reports /\ ReporterOnly

WriteConsumed ==
  /\ reporter.pc = "consumed"
  /\ Reports("consumed", [trace |-> reporter.trace, decision |-> Decision(reporter.trace)], [pc |-> "load"])

\* The contract is opened only now: phase 2 ends if phase 1 has not written it,
\* or died in it.
LoadContract ==
  /\ reporter.pc = "load"
  /\ reporter' = IF reports["contract"] \in {NoPaper, TornPaper} THEN Stopped
                 ELSE [pc |-> "update", counts |-> reports["contract"].counts]
  /\ UNCHANGED <<reports, scripts>> /\ ReporterOnly

UpdateContract ==
  /\ reporter.pc = "update"
  /\ Reports("contract", [counts |-> reporter.counts, status |-> "PASS"], [pc |-> "append"])

\* An empty table has no rows and is no error.
AppendDefects ==
  /\ reporter.pc = "append"
  /\ IF reports["defects"] = NoPaper
       THEN reporter' = Stopped /\ UNCHANGED <<reports, scripts>> /\ ReporterOnly
       ELSE Reports("defects", (IF reports["defects"] = TornPaper THEN {} ELSE reports["defects"]) \union Phase2Findings,
                    Stopped)

Report == \/ BeginPhase1 \/ WriteContract \/ WriteDefects
          \/ BeginPhase2 \/ WriteConsumed \/ LoadContract \/ UpdateContract \/ AppendDefects

\* A script that dies in the report it writes leaves it torn.
Written == CASE reporter.pc \in {"contract", "update"} -> {"contract"}
             [] reporter.pc \in {"defects", "append"}  -> {"defects"}
             [] reporter.pc = "consumed"               -> {"consumed"}
             [] OTHER                                  -> {}

ScriptsDie ==
  /\ scriptFaults < MaxScriptFaults
  /\ scriptFaults' = scriptFaults + 1
  /\ builder' = Stopped /\ repairer' = Stopped /\ reporter' = Stopped
  /\ \E torn \in SUBSET Written : reports' = [name \in DOMAIN reports |-> IF name \in torn THEN TornPaper ELSE reports[name]]
  /\ UNCHANGED <<exports, handoff, scripts>>

\* A text in the hand-off is of a post that the report counted and whose
\* question it counted too, all raw pages agreed on it when they were read, and
\* no line of it and no two lines next to each other hold personal data: also
\* when exports came in, were rewritten or disagreed while it was built.
SeedsAreSafe ==
  handoff \notin {NoPaper, TornPaper} =>
    \A p \in DOMAIN handoff.seeds :
      /\ p \in handoff.counted /\ ParentOf[p] \in handoff.counted \union {0}
      /\ \A page1, page2 \in handoff.seen :
           p \in DOMAIN page1 \intersect DOMAIN page2 => page1[p] = page2[p]
      /\ handoff.seeds[p] # <<>> /\ ~Unsafe(handoff.seeds[p])

\* A contract that says the AI track's answer was consumed has a report of it,
\* and once the scripts rest both phases' findings are listed, unless one died.
\* An answer is passed on only if its evidence is there and not stale.
ContractIsBacked ==
  /\ reports["contract"] \notin {NoPaper, TornPaper} /\ reports["contract"].status = "PASS" =>
       /\ reports["consumed"] # NoPaper
       /\ (scriptFaults = 0 /\ reporter = Stopped) => reports["defects"] = Phase1Findings \union Phase2Findings
  /\ reports["consumed"] \notin {NoPaper, TornPaper} /\ reports["consumed"].decision = "ANSWER" =>
       reports["consumed"].trace.citations = "fresh" /\ reports["consumed"].trace.warning = "none"

HandoffIsBacked == SeedsAreSafe /\ ContractIsBacked

HandoffNext == Collected \/ Build \/ BeginRepair \/ RepairExport \/ Report \/ ScriptsDie

HandoffSpec == HandoffInit /\ [][HandoffNext]_handoffVars
=============================================================================
