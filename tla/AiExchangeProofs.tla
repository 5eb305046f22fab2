--------------------------- MODULE AiExchangeProofs ---------------------------
(***************************************************************************)
(* Proofs about AiExchange, for any exports, scripts and crashes:          *)
(*   CommunityHandoff   what the next team reads was listed and is safe;   *)
(*   ProductEvaluation  evaluations are of what was reviewed and pinned,   *)
(*                      and every case is accounted for;                   *)
(*   CatalogHandoff     a catalog is closed and does not go back.          *)
(***************************************************************************)
EXTENDS AiExchange, FiniteSetTheorems, SequenceTheorems, WellFoundedInduction, TLAPS

-----------------------------------------------------------------------------
(* CommunityHandoff: the inductive invariant                               *)

ExportPages   == Exported \union {[q \in {p} |-> <<"plain">>] : p \in Posts}
ExportRecords == [of : {"articles", "comments"}, page : ExportPages, old : BOOLEAN,
                  stage : {"raw", "sanitized", "complete"}, repaired : BOOLEAN]
HandoffTypes  == exports \in Seq(ExportRecords)

\* The posts of exports that have a manifest, whether or not it still fits.
ListedPosts ==
  UNION {DOMAIN exports[i].page :
           i \in {j \in DOMAIN exports : exports[j].of = "articles" /\ exports[j].stage = "complete"}}

\* What SeedsAreSafe says of a hand-off, written or about to be.
PaperIsSafe(paper) ==
  \A p \in DOMAIN paper.seeds :
    /\ p \in paper.counted /\ ParentOf[p] \in paper.counted \union {0}
    /\ \A page1, page2 \in paper.seen :
         p \in DOMAIN page1 \intersect DOMAIN page2 => page1[p] = page2[p]
    /\ paper.seeds[p] # <<>> /\ ~Unsafe(paper.seeds[p])

\* A builder's posts were all listed; after the check it has counted them, and
\* with every reply the question.
BuilderIsSafe ==
  /\ builder.pc \in {"idle", "check", "read", "open", "fill"}
  /\ builder.pc = "check" => builder.keys \subseteq ListedPosts
  /\ builder.pc = "read" =>
       /\ builder.keys \subseteq builder.counted
       /\ \A p \in builder.counted : ParentOf[p] \in builder.counted \union {0}
  /\ builder.pc \in {"open", "fill"} =>
       /\ {"pc", "paper"} \subseteq DOMAIN builder
       /\ PaperIsSafe(builder.paper)

Passed == reports["contract"] \notin {NoPaper, TornPaper} /\ reports["contract"].status = "PASS"
AllFindings   == Phase1Findings \union Phase2Findings
FindingsListed == reports["defects"] \in {Phase1Findings, AllFindings}

ReporterIsBacked ==
  /\ DOMAIN reports = {"contract", "consumed", "defects"}
  /\ reporter.pc \in {"idle", "contract", "defects", "consumed", "load", "update", "append"}
  /\ reporter.pc = "consumed" => reporter.trace \in Traces
  /\ reporter.pc \in {"load", "update", "append"} => reports["consumed"] # NoPaper
  /\ reporter.pc = "defects" => reports["contract"].status # "PASS"
  /\ reporter.pc = "update" => reports["contract"] # NoPaper
  /\ Passed => reports["consumed"] # NoPaper
  /\ reports["consumed"] \notin {NoPaper, TornPaper} /\ reports["consumed"].decision = "ANSWER" =>
       reports["consumed"].trace.citations = "fresh" /\ reports["consumed"].trace.warning = "none"

\* Unless a script died, the findings of phase 1 are listed as soon as the
\* contract is written and phase 1 has ended, and those of phase 2 once it has.
FindingsAreListed ==
  scriptFaults = 0 =>
    /\ reports["contract"] # NoPaper /\ reporter.pc # "defects" => FindingsListed
    /\ reporter.pc \in {"update", "append"} => FindingsListed
    /\ Passed /\ reporter.pc # "append" => reports["defects"] = AllFindings

HandoffInv ==
  /\ HandoffTypes /\ scriptFaults \in Nat
  /\ BuilderIsSafe /\ SeedsAreSafe
  /\ ReporterIsBacked /\ FindingsAreListed


-----------------------------------------------------------------------------
(* What is read and what is made of it                                     *)

\* The raw texts of a post are finitely many, so that one means one.
LEMMA RawTextsAreFinite ==
  ASSUME HandoffTypes, NEW p
  PROVE  IsFiniteSet(RawTexts(p))
<1> DEFINE at == {i \in DOMAIN exports : exports[i].of = "articles"}
<1>1. IsFiniteSet(at)
  <2>1. Len(exports) \in Nat /\ DOMAIN exports = 1 .. Len(exports) BY DEF HandoffTypes
  <2>2. IsFiniteSet(1 .. Len(exports)) BY <2>1, FS_Interval
  <2>3. at \in SUBSET (1 .. Len(exports)) BY <2>1
  <2> QED BY <2>2, <2>3, FS_Subset
<1>2. IsFiniteSet(RawPages)
  <2> DEFINE f == [i \in at |-> exports[i].page]
  <2>1. f \in Surjection(at, RawPages) BY DEF Surjection, RawPages
  <2> HIDE DEF f, at
  <2> QED BY <1>1, <2>1, FS_Surjection
<1> DEFINE having == {q \in RawPages : p \in DOMAIN q}
<1>3. IsFiniteSet(having)
  <2>1. having \in SUBSET RawPages OBVIOUS
  <2> QED BY <1>2, <2>1, FS_Subset
<1> DEFINE g == [q \in having |-> q[p]]
<1>4. g \in Surjection(having, RawTexts(p)) BY DEF Surjection, RawTexts
<1> HIDE DEF g, having
<1> QED BY <1>3, <1>4, FS_Surjection

\* A text that is kept has lines, and none of them is unsafe.
LEMMA KeptTextIsSafe ==
  ASSUME NEW text, SafeText(text).kept
  PROVE  SafeText(text).lines # <<>> /\ ~Unsafe(SafeText(text).lines)
<1> DEFINE lines == SafeLines(text)
<1>1. lines # <<>> /\ ~Unsafe(lines) BY DEF SafeText
<1>2. SafeText(text).lines = lines BY <1>1 DEF SafeText
<1> QED BY <1>1, <1>2

\* The hand-off made of canonical posts that the report counted is safe.
LEMMA SafeHandoff ==
  ASSUME HandoffTypes, NEW keys, NEW counted, keys \subseteq counted,
         \A p \in counted : ParentOf[p] \in counted \union {0}
  PROVE  PaperIsSafe(HandoffOf(keys, counted))
<1> DEFINE paper == HandoffOf(keys, counted)
<1>1. /\ paper.counted = counted /\ paper.seen = RawPages
      /\ paper.seeds = [p \in Seeded(keys) |-> SafeText(RawText(p)).lines]
  BY DEF HandoffOf
<1> HIDE DEF paper
<1>2. ASSUME NEW p \in Seeded(keys)
      PROVE  /\ p \in counted
             /\ \A page1, page2 \in RawPages :
                  p \in DOMAIN page1 \intersect DOMAIN page2 => page1[p] = page2[p]
             /\ paper.seeds[p] # <<>> /\ ~Unsafe(paper.seeds[p])
  <2>1. p \in keys /\ Cardinality(RawTexts(p)) = 1 /\ SafeText(RawText(p)).kept
    BY DEF Seeded, Undisputed
  <2>2. PICK text : RawTexts(p) = {text} BY <2>1, RawTextsAreFinite, FS_Singleton
  <2>3. paper.seeds[p] = SafeText(RawText(p)).lines BY <1>1
  <2>4. paper.seeds[p] # <<>> /\ ~Unsafe(paper.seeds[p]) BY <2>1, <2>3, KeptTextIsSafe
  <2>5. \A page \in RawPages : p \in DOMAIN page => page[p] = text BY <2>2 DEF RawTexts
  <2> QED BY <2>1, <2>4, <2>5
<1>3. DOMAIN paper.seeds = Seeded(keys) BY <1>1
<1>4. PaperIsSafe(paper) BY <1>1, <1>2, <1>3 DEF PaperIsSafe
<1> QED BY <1>4 DEF paper

\* While every export is trusted or raw, the trusted posts are the listed ones.
LEMMA TrustedAreListed ==
  /\ TrustedPosts \subseteq ListedPosts
  /\ ~Untrusted => TrustedPosts = ListedPosts
<1>1. TrustedPosts \subseteq ListedPosts BY DEF TrustedPosts, ListedPosts, Trusted
<1>2. ASSUME ~Untrusted PROVE ListedPosts \subseteq TrustedPosts
  <2>1. \A i \in DOMAIN exports : exports[i].stage = "complete" => Trusted(exports[i])
    BY <1>2 DEF Untrusted, Trusted
  <2> QED BY <2>1 DEF TrustedPosts, ListedPosts
<1> QED BY <1>1, <1>2

-----------------------------------------------------------------------------
(* The steps                                                               *)

\* Exports only come in and get on; what is listed stays listed.
ExportsGrow ==
  /\ HandoffTypes'
  /\ \A i \in DOMAIN exports :
       /\ i \in DOMAIN exports'
       /\ exports'[i].of = exports[i].of /\ exports'[i].page = exports[i].page
       /\ exports[i].stage = "complete" => exports'[i].stage = "complete"

LEMMA ListedPostsStay ==
  ASSUME ExportsGrow PROVE ListedPosts \subseteq ListedPosts'
BY DEF ExportsGrow, ListedPosts

LEMMA ExportsRest ==
  ASSUME HandoffTypes, UNCHANGED exports PROVE ExportsGrow
BY DEF HandoffTypes, ExportsGrow

LEMMA ChangedExportGrows ==
  ASSUME HandoffTypes, NEW i \in DOMAIN exports, NEW e \in ExportRecords,
         e.of = exports[i].of, e.page = exports[i].page,
         exports[i].stage = "complete" => e.stage = "complete",
         exports' = [exports EXCEPT ![i] = e]
  PROVE  ExportsGrow
<1>1. exports' \in Seq(ExportRecords) BY DEF HandoffTypes
<1>2. \A j \in DOMAIN exports : j \in DOMAIN exports' /\ exports'[j] = IF j = i THEN e ELSE exports[j]
  BY DEF HandoffTypes
<1> QED BY <1>1, <1>2 DEF HandoffTypes, ExportsGrow

LEMMA CollectedGrows ==
  ASSUME HandoffTypes, Collected PROVE ExportsGrow
<1>1. ASSUME NEW of \in {"articles", "comments"}, NEW old \in BOOLEAN, NEW page \in ExportPages,
             NewExport(of, page, old)
      PROVE  ExportsGrow
  <2> DEFINE e == Export(of, page, old)
  <2>1. e \in ExportRecords BY DEF Export, ExportRecords
  <2>2. exports' = Append(exports, e) BY <1>1 DEF NewExport
  <2> HIDE DEF e
  <2>3. exports' \in Seq(ExportRecords) BY <2>1, <2>2 DEF HandoffTypes
  <2>4. \A i \in DOMAIN exports : i \in DOMAIN exports' /\ exports'[i] = exports[i]
    BY <2>1, <2>2 DEF HandoffTypes
  <2> QED BY <2>3, <2>4 DEF HandoffTypes, ExportsGrow
<1>2. ASSUME NEW i \in DOMAIN exports, NEW st \in {"sanitized", "complete"},
             exports[i].stage # "complete", exports' = [exports EXCEPT ![i].stage = st]
      PROVE  ExportsGrow
  <2> DEFINE e == [exports[i] EXCEPT !.stage = st]
  <2>1. exports[i] \in ExportRecords BY DEF HandoffTypes
  <2>2. e \in ExportRecords /\ e.of = exports[i].of /\ e.page = exports[i].page
    BY <2>1 DEF ExportRecords
  <2>3. exports' = [exports EXCEPT ![i] = e] BY <1>2
  <2> HIDE DEF e
  <2> QED BY <1>2, <2>2, <2>3, ChangedExportGrows
<1>3. CASE \E page \in Exported, old \in BOOLEAN : NewExport("articles", page, old)
  BY <1>1, <1>3 DEF ExportPages
<1>4. CASE \E p \in Posts : NewExport("comments", [q \in {p} |-> <<"plain">>], FALSE)
  <2>1. PICK p \in Posts : NewExport("comments", [q \in {p} |-> <<"plain">>], FALSE) BY <1>4
  <2> DEFINE page == [q \in {p} |-> <<"plain">>]
  <2>2. page \in ExportPages BY DEF ExportPages
  <2>3. NewExport("comments", page, FALSE) BY <2>1
  <2> HIDE DEF page
  <2> QED BY <1>1, <2>2, <2>3
<1>5. CASE \E i \in DOMAIN exports : SanitizedExport(i) \/ ListedExport(i)
  BY <1>2, <1>5 DEF SanitizedExport, ListedExport
<1> QED BY <1>3, <1>4, <1>5 DEF Collected

LEMMA RepairGrows ==
  ASSUME HandoffTypes, RepairExport PROVE ExportsGrow
<1>1. PICK i : exports' = [exports EXCEPT ![i].repaired = TRUE] BY DEF RepairExport
<1>2. CASE i \in DOMAIN exports
  <2> DEFINE e == [exports[i] EXCEPT !.repaired = TRUE]
  <2>1. exports[i] \in ExportRecords BY <1>2 DEF HandoffTypes
  <2>2. /\ e \in ExportRecords /\ e.of = exports[i].of /\ e.page = exports[i].page
        /\ e.stage = exports[i].stage
    BY <2>1 DEF ExportRecords
  <2>3. exports' = [exports EXCEPT ![i] = e] BY <1>1
  <2> HIDE DEF e
  <2> QED BY <1>2, <2>2, <2>3, ChangedExportGrows
<1>3. CASE i \notin DOMAIN exports
  <2>1. exports' = exports BY <1>1, <1>3 DEF HandoffTypes
  <2> QED BY <2>1, ExportsRest
<1> QED BY <1>2, <1>3

\* The builder and its file, whatever comes in meanwhile.
LEMMA BuilderRests ==
  ASSUME BuilderIsSafe, SeedsAreSafe, ExportsGrow, UNCHANGED <<builder, handoff>>
  PROVE  BuilderIsSafe' /\ SeedsAreSafe'
<1>1. ListedPosts \subseteq ListedPosts' BY ListedPostsStay
<1>2. BuilderIsSafe' BY <1>1 DEF BuilderIsSafe, PaperIsSafe
<1>3. SeedsAreSafe' BY DEF SeedsAreSafe
<1> QED BY <1>2, <1>3

LEMMA BuildIsSafe ==
  ASSUME HandoffTypes, BuilderIsSafe, SeedsAreSafe, Build
  PROVE  BuilderIsSafe' /\ SeedsAreSafe' /\ UNCHANGED exports
<1>1. UNCHANGED exports
  BY DEF Build, LoadCanonical, CheckCommunity, ReadTexts, OpenHandoff, FillHandoff, BuilderOnly
<1>2. ListedPosts' = ListedPosts BY <1>1 DEF ListedPosts
<1>3. ASSUME UNCHANGED handoff PROVE SeedsAreSafe' BY <1>3 DEF SeedsAreSafe
<1>4. ASSUME builder' = Stopped PROVE BuilderIsSafe' BY <1>4 DEF Stopped, BuilderIsSafe
<1>5. CASE LoadCanonical
  <2>1. CASE Untrusted BY <1>3, <1>4, <1>1, <1>5, <2>1 DEF LoadCanonical
  <2>2. CASE ~Untrusted
    <3>1. builder' = [pc |-> "check", keys |-> TrustedPosts] /\ UNCHANGED handoff
      BY <1>5, <2>2 DEF LoadCanonical
    <3>2. BuilderIsSafe' BY <3>1, <1>2, TrustedAreListed DEF BuilderIsSafe
    <3> QED BY <3>1, <3>2, <1>1, <1>3
  <2> QED BY <2>1, <2>2
<1>6. CASE CheckCommunity
  <2>1. CASE ~CommunityIsWhole BY <1>3, <1>4, <1>1, <1>6, <2>1 DEF CheckCommunity
  <2>2. CASE CommunityIsWhole
    <3>1. /\ builder' = [pc |-> "read", keys |-> builder.keys, counted |-> TrustedPosts]
          /\ UNCHANGED handoff /\ builder.pc = "check"
      BY <1>6, <2>2 DEF CheckCommunity
    <3>2. builder.keys \subseteq TrustedPosts
      BY <3>1, <2>2, TrustedAreListed DEF BuilderIsSafe, CommunityIsWhole
    <3>3. \A p \in TrustedPosts : ParentOf[p] \in TrustedPosts \union {0}
      BY <2>2 DEF CommunityIsWhole
    <3>4. BuilderIsSafe' BY <3>1, <3>2, <3>3 DEF BuilderIsSafe
    <3> QED BY <3>1, <3>4, <1>1, <1>3
  <2> QED BY <2>1, <2>2
<1>7. CASE ReadTexts
  <2> DEFINE paper == HandoffOf(builder.keys, builder.counted)
  <2>1. builder' = [pc |-> "open", paper |-> paper] /\ UNCHANGED handoff /\ builder.pc = "read"
    BY <1>7 DEF ReadTexts
  <2>2. PaperIsSafe(paper) BY <2>1, SafeHandoff DEF BuilderIsSafe
  <2> HIDE DEF paper
  <2>3. BuilderIsSafe' BY <2>1, <2>2 DEF BuilderIsSafe, PaperIsSafe
  <2> QED BY <2>1, <2>3, <1>1, <1>3
<1>8. CASE OpenHandoff
  <2>1. builder' = [builder EXCEPT !.pc = "fill"] /\ handoff' = TornPaper /\ builder.pc = "open"
    BY <1>8 DEF OpenHandoff
  <2>2. SeedsAreSafe' BY <2>1 DEF SeedsAreSafe
  <2>3. builder'.pc = "fill" /\ builder'.paper = builder.paper /\ DOMAIN builder' = DOMAIN builder
    BY <2>1 DEF BuilderIsSafe
  <2>4. BuilderIsSafe' BY <2>1, <2>3 DEF BuilderIsSafe, PaperIsSafe
  <2> QED BY <2>2, <2>4, <1>1
<1>9. CASE FillHandoff
  <2>1. handoff' = builder.paper /\ builder' = Stopped /\ builder.pc = "fill" BY <1>9 DEF FillHandoff
  <2>2. SeedsAreSafe' BY <2>1 DEF SeedsAreSafe, BuilderIsSafe, PaperIsSafe
  <2> QED BY <2>1, <2>2, <1>1, <1>4
<1> QED BY <1>5, <1>6, <1>7, <1>8, <1>9 DEF Build


\* The three reports, when nobody writes them.
LEMMA ReporterRests ==
  ASSUME ReporterIsBacked, FindingsAreListed, UNCHANGED <<reporter, reports, scriptFaults>>
  PROVE  ReporterIsBacked' /\ FindingsAreListed'
BY DEF ReporterIsBacked, FindingsAreListed, Passed, FindingsListed, AllFindings, Phase1Findings, Phase2Findings

\* What is written into one report is in it, and the others stay.
LEMMA WrittenReport ==
  ASSUME ReporterIsBacked, NEW name \in {"contract", "consumed", "defects"}, NEW content, NEW next,
         Reports(name, content, next)
  PROVE  /\ DOMAIN reports' = {"contract", "consumed", "defects"}
         /\ reports'[name] = content
         /\ \A other \in {"contract", "consumed", "defects"} \ {name} : reports'[other] = reports[other]
         /\ reporter' = next
BY DEF Reports, ReporterIsBacked

\* An answer is passed on only on fresh citations without a warning.
LEMMA AnswersAreFresh ==
  ASSUME NEW trace \in Traces, Decision(trace) = "ANSWER"
  PROVE  trace.citations = "fresh" /\ trace.warning = "none"
<1>1. /\ trace.citations \in {"none", "fresh", "stale"} /\ trace.warning \in {"none", "stale", "unconfirmed"}
      /\ trace.gated \in BOOLEAN
  BY HandoffAssumption
<1>2. trace.citations # "none" BY DEF Decision
<1>3. ~trace.gated BY <1>2 DEF Decision
<1>4. RequiresHold(trace) \in BOOLEAN BY DEF RequiresHold
<1>5. ~RequiresHold(trace) BY <1>2, <1>3, <1>4 DEF Decision
<1> QED BY <1>1, <1>2, <1>5 DEF RequiresHold, IsStale

LEMMA DecisionIsOne ==
  ASSUME NEW trace \in Traces PROVE Decision(trace) \in Decisions
<1>1. trace.gated \in BOOLEAN BY HandoffAssumption
<1>2. RequiresHold(trace) \in BOOLEAN BY DEF RequiresHold
<1> QED BY <1>1, <1>2 DEF Decision, Decisions

LEMMA ReportIsBacked ==
  ASSUME ReporterIsBacked, FindingsAreListed, Report
  PROVE  ReporterIsBacked' /\ FindingsAreListed'
<1> USE DEF Passed, FindingsListed, AllFindings
<1>1. UNCHANGED scriptFaults
  BY DEF Report, BeginPhase1, WriteContract, WriteDefects, BeginPhase2, WriteConsumed, LoadContract,
         UpdateContract, AppendDefects, Reports, ReporterOnly
<1>2. CASE BeginPhase1
  <2>1. UNCHANGED reports /\ reporter'.pc = "contract" /\ reporter.pc = "idle"
    BY <1>2 DEF BeginPhase1
  <2> QED BY <1>1, <2>1 DEF ReporterIsBacked, FindingsAreListed
<1>3. CASE BeginPhase2
  <2>1. PICK trace \in Traces : reporter' = [pc |-> "consumed", trace |-> trace]
    BY <1>3 DEF BeginPhase2
  <2>2. UNCHANGED reports /\ reporter.pc = "idle" BY <1>3 DEF BeginPhase2
  <2> QED BY <1>1, <2>1, <2>2 DEF ReporterIsBacked, FindingsAreListed
<1>4. CASE WriteContract
  <2> DEFINE content == [counts |-> reporter.counts, status |-> "WAITING_AI_HANDOFF"]
  <2>1. reporter.pc = "contract" /\ Reports("contract", content, [pc |-> "defects"])
    BY <1>4 DEF WriteContract
  <2>2. content.status = "WAITING_AI_HANDOFF" OBVIOUS
  <2> HIDE DEF content
  <2>3. /\ DOMAIN reports' = {"contract", "consumed", "defects"} /\ reports'["contract"] = content
        /\ \A other \in {"contract", "consumed", "defects"} \ {"contract"} : reports'[other] = reports[other]
        /\ reporter' = [pc |-> "defects"]
    BY <2>1, WrittenReport
  <2> QED BY <1>1, <2>1, <2>2, <2>3 DEF ReporterIsBacked, FindingsAreListed
<1>5. CASE WriteDefects
  <2>1. reporter.pc = "defects" /\ Reports("defects", Phase1Findings, Stopped)
    BY <1>5 DEF WriteDefects
  <2>2. /\ DOMAIN reports' = {"contract", "consumed", "defects"} /\ reports'["defects"] = Phase1Findings
        /\ \A other \in {"contract", "consumed", "defects"} \ {"defects"} : reports'[other] = reports[other]
        /\ reporter' = Stopped
    BY <2>1, WrittenReport
  <2> QED BY <1>1, <2>1, <2>2 DEF ReporterIsBacked, FindingsAreListed, Stopped
<1>6. CASE WriteConsumed
  <2> DEFINE trace == reporter.trace
             content == [trace |-> trace, decision |-> Decision(trace)]
  <2>1. reporter.pc = "consumed" /\ Reports("consumed", content, [pc |-> "load"])
    BY <1>6 DEF WriteConsumed
  <2>2. trace \in Traces BY <2>1 DEF ReporterIsBacked
  <2>3. content # NoPaper BY <2>2, DecisionIsOne, PaperAssumption
  <2>4. content.decision = "ANSWER" => content.trace.citations = "fresh" /\ content.trace.warning = "none"
    BY <2>2, AnswersAreFresh
  <2> HIDE DEF content, trace
  <2>5. /\ DOMAIN reports' = {"contract", "consumed", "defects"} /\ reports'["consumed"] = content
        /\ \A other \in {"contract", "consumed", "defects"} \ {"consumed"} : reports'[other] = reports[other]
        /\ reporter' = [pc |-> "load"]
    BY <2>1, WrittenReport
  <2> QED BY <1>1, <2>1, <2>3, <2>4, <2>5 DEF ReporterIsBacked, FindingsAreListed
<1>7. CASE LoadContract
  <2>1. reporter.pc = "load" /\ UNCHANGED reports BY <1>7 DEF LoadContract
  <2>2. \/ reporter' = Stopped
        \/ reporter'.pc = "update" /\ reports["contract"] # NoPaper
    BY <1>7 DEF LoadContract
  <2> QED BY <1>1, <2>1, <2>2 DEF ReporterIsBacked, FindingsAreListed, Stopped
<1>8. CASE UpdateContract
  <2> DEFINE content == [counts |-> reporter.counts, status |-> "PASS"]
  <2>1. reporter.pc = "update" /\ Reports("contract", content, [pc |-> "append"])
    BY <1>8 DEF UpdateContract
  <2> HIDE DEF content
  <2>2. /\ DOMAIN reports' = {"contract", "consumed", "defects"} /\ reports'["contract"] = content
        /\ \A other \in {"contract", "consumed", "defects"} \ {"contract"} : reports'[other] = reports[other]
        /\ reporter' = [pc |-> "append"]
    BY <2>1, WrittenReport
  <2> QED BY <1>1, <2>1, <2>2 DEF ReporterIsBacked, FindingsAreListed
<1>9. CASE AppendDefects
  <2>1. reporter.pc = "append" BY <1>9 DEF AppendDefects
  <2>2. CASE reports["defects"] = NoPaper
    <3>1. reporter' = Stopped /\ UNCHANGED reports BY <1>9, <2>2 DEF AppendDefects
    <3>2. scriptFaults # 0 BY <2>1, <2>2, PaperAssumption DEF FindingsAreListed
    <3> QED BY <1>1, <2>1, <3>1, <3>2 DEF ReporterIsBacked, FindingsAreListed, Stopped
  <2>3. CASE reports["defects"] # NoPaper
    <3> DEFINE content == (IF reports["defects"] = TornPaper THEN {} ELSE reports["defects"]) \union Phase2Findings
    <3>1. Reports("defects", content, Stopped) BY <1>9, <2>3 DEF AppendDefects
    <3>2. scriptFaults = 0 => content = AllFindings
      BY <2>1, PaperAssumption DEF FindingsAreListed
    <3> HIDE DEF content
    <3>3. /\ DOMAIN reports' = {"contract", "consumed", "defects"} /\ reports'["defects"] = content
          /\ \A other \in {"contract", "consumed", "defects"} \ {"defects"} : reports'[other] = reports[other]
          /\ reporter' = Stopped
      BY <3>1, WrittenReport
    <3> QED BY <1>1, <2>1, <3>2, <3>3 DEF ReporterIsBacked, FindingsAreListed, Stopped
  <2> QED BY <2>2, <2>3
<1> QED BY <1>2, <1>3, <1>4, <1>5, <1>6, <1>7, <1>8, <1>9 DEF Report

LEMMA DeathIsBacked ==
  ASSUME ReporterIsBacked, scriptFaults \in Nat, ScriptsDie
  PROVE  ReporterIsBacked' /\ FindingsAreListed' /\ scriptFaults' \in Nat
<1>1. reporter' = Stopped /\ scriptFaults' \in Nat /\ scriptFaults' # 0 BY DEF ScriptsDie
<1>2. PICK torn \in SUBSET Written :
        reports' = [name \in DOMAIN reports |-> IF name \in torn THEN TornPaper ELSE reports[name]]
  BY DEF ScriptsDie
<1>3. NoPaper # TornPaper BY PaperAssumption
<1>4. DOMAIN reports' = {"contract", "consumed", "defects"} BY <1>2 DEF ReporterIsBacked
<1>5. \A name \in DOMAIN reports' : reports'[name] = TornPaper \/ reports'[name] = reports[name]
  BY <1>2
<1>6. Passed' => reports["consumed"] # NoPaper BY <1>4, <1>5 DEF Passed, ReporterIsBacked
<1>7. Passed' => reports'["consumed"] # NoPaper BY <1>3, <1>4, <1>5, <1>6
<1>8. ReporterIsBacked' BY <1>1, <1>4, <1>5, <1>7 DEF ReporterIsBacked, Stopped
<1>9. FindingsAreListed' BY <1>1 DEF FindingsAreListed
<1> QED BY <1>1, <1>8, <1>9

-----------------------------------------------------------------------------
LEMMA HandoffStep ==
  ASSUME HandoffInv, [HandoffNext]_handoffVars PROVE HandoffInv'
<1> USE DEF HandoffInv
<1>1. CASE Collected
  <2>1. UNCHANGED <<builder, handoff>> /\ UNCHANGED <<reporter, reports, scriptFaults>>
    BY <1>1 DEF Collected
  <2> QED BY <2>1, <1>1, CollectedGrows, BuilderRests, ReporterRests DEF ExportsGrow
<1>2. CASE Build
  <2>1. UNCHANGED <<reporter, reports, scriptFaults>>
    BY <1>2 DEF Build, LoadCanonical, CheckCommunity, ReadTexts, OpenHandoff, FillHandoff, BuilderOnly
  <2> QED BY <2>1, <1>2, BuildIsSafe, ExportsRest, ReporterRests DEF ExportsGrow
<1>3. CASE BeginRepair
  <2>1. UNCHANGED exports /\ UNCHANGED <<builder, handoff>> /\ UNCHANGED <<reporter, reports, scriptFaults>>
    BY <1>3 DEF BeginRepair, RepairerOnly
  <2> QED BY <2>1, ExportsRest, BuilderRests, ReporterRests DEF ExportsGrow
<1>4. CASE RepairExport
  <2>1. UNCHANGED <<builder, handoff>> /\ UNCHANGED <<reporter, reports, scriptFaults>>
    BY <1>4 DEF RepairExport
  <2> QED BY <2>1, <1>4, RepairGrows, BuilderRests, ReporterRests DEF ExportsGrow
<1>5. CASE Report
  <2>1. UNCHANGED exports /\ UNCHANGED <<builder, handoff>> /\ UNCHANGED scriptFaults
    BY <1>5 DEF Report, BeginPhase1, WriteContract, WriteDefects, BeginPhase2, WriteConsumed, LoadContract,
                UpdateContract, AppendDefects, Reports, ReporterOnly
  <2> QED BY <2>1, <1>5, ExportsRest, BuilderRests, ReportIsBacked DEF ExportsGrow
<1>6. CASE ScriptsDie
  <2>1. UNCHANGED exports /\ UNCHANGED handoff /\ builder' = Stopped BY <1>6 DEF ScriptsDie
  <2>2. BuilderIsSafe' /\ SeedsAreSafe' BY <2>1 DEF BuilderIsSafe, SeedsAreSafe, Stopped
  <2> QED BY <2>1, <2>2, <1>6, ExportsRest, DeathIsBacked DEF ExportsGrow
<1>7. CASE UNCHANGED handoffVars
  <2>1. UNCHANGED exports /\ UNCHANGED <<builder, handoff>> /\ UNCHANGED <<reporter, reports, scriptFaults>>
    BY <1>7 DEF handoffVars
  <2> QED BY <2>1, ExportsRest, BuilderRests, ReporterRests DEF ExportsGrow
<1> QED BY <1>1, <1>2, <1>3, <1>4, <1>5, <1>6, <1>7 DEF HandoffNext

\* Only text that is safe, undisputed and counted leaves the protected root, and
\* a contract that says PASS is backed by what was consumed and by the findings
\* of both phases, for any exports that come in or are rewritten meanwhile.
THEOREM HandoffsAreBacked == HandoffSpec => []HandoffIsBacked
<1>1. HandoffInit => HandoffInv
  <2> SUFFICES ASSUME HandoffInit PROVE HandoffInv OBVIOUS
  <2>1. HandoffTypes /\ scriptFaults \in Nat BY DEF HandoffInit, HandoffTypes
  <2>2. BuilderIsSafe /\ SeedsAreSafe BY DEF HandoffInit, BuilderIsSafe, SeedsAreSafe, Stopped
  <2>3. /\ DOMAIN reports = {"contract", "consumed", "defects"}
        /\ \A name \in {"contract", "consumed", "defects"} : reports[name] = NoPaper
        /\ reporter.pc = "idle"
    BY DEF HandoffInit, Stopped
  <2>4. ReporterIsBacked /\ FindingsAreListed BY <2>3 DEF ReporterIsBacked, FindingsAreListed, Passed
  <2> QED BY <2>1, <2>2, <2>4 DEF HandoffInv
<1>2. HandoffInv /\ [HandoffNext]_handoffVars => HandoffInv' BY HandoffStep
<1>3. HandoffInv => HandoffIsBacked
  BY DEF HandoffInv, HandoffIsBacked, ContractIsBacked, ReporterIsBacked, FindingsAreListed, Passed,
         AllFindings, Stopped
<1> QED BY <1>1, <1>2, <1>3, PTL DEF HandoffSpec

-----------------------------------------------------------------------------
(* Orders of finite sets                                                   *)

\* What is before p in the order R of S.
Earlier(S, R, p) == {q \in S : <<q, p>> \in R}

StrictOrder(S, R) ==
  /\ R \subseteq S \X S
  /\ \A p \in S : <<p, p>> \notin R
  /\ \A p, q \in S : p # q => <<p, q>> \in R \/ <<q, p>> \in R
  /\ \A p, q, r \in S : <<p, q>> \in R /\ <<q, r>> \in R => <<p, r>> \in R

\* What is later has more before it.
LEMMA LaterHasMore ==
  ASSUME NEW S, IsFiniteSet(S), NEW R, StrictOrder(S, R), NEW p \in S, NEW q \in S, <<p, q>> \in R
  PROVE  Cardinality(Earlier(S, R, p)) < Cardinality(Earlier(S, R, q))
<1>1. PICK A, B : A = Earlier(S, R, p) /\ B = Earlier(S, R, q) OBVIOUS
<1>2. A \in SUBSET B /\ p \in B /\ p \notin A BY <1>1 DEF Earlier, StrictOrder
<1>3. IsFiniteSet(B) BY <1>1, FS_Subset DEF Earlier
<1>4. IsFiniteSet(A) /\ Cardinality(A) <= Cardinality(B) /\ Cardinality(A) # Cardinality(B)
  BY <1>2, <1>3, FS_Subset
<1>5. Cardinality(A) \in Nat /\ Cardinality(B) \in Nat BY <1>3, <1>4, FS_CardinalityType
<1> QED BY <1>1, <1>4, <1>5

LEMMA EarlierIsShort ==
  ASSUME NEW S, IsFiniteSet(S), NEW R, StrictOrder(S, R), NEW p \in S
  PROVE  Cardinality(Earlier(S, R, p)) \in 0 .. Cardinality(S) - 1
<1>1. PICK A : A = Earlier(S, R, p) OBVIOUS
<1>2. A \in SUBSET S /\ p \notin A BY <1>1 DEF Earlier, StrictOrder
<1>3. IsFiniteSet(A) /\ Cardinality(A) <= Cardinality(S) /\ Cardinality(A) # Cardinality(S)
  BY <1>2, FS_Subset
<1>4. Cardinality(A) \in Nat /\ Cardinality(S) \in Nat BY <1>3, FS_CardinalityType
<1> QED BY <1>1, <1>3, <1>4

\* Every position of a strict order is taken, by one element.
LEMMA PositionIsTaken ==
  ASSUME NEW S, IsFiniteSet(S), NEW R, StrictOrder(S, R), NEW i \in 1 .. Cardinality(S)
  PROVE  \E p \in S : Cardinality(Earlier(S, R, p)) = i - 1
<1>1. PICK n : n = Cardinality(S) OBVIOUS
<1>2. n \in Nat BY <1>1, FS_CardinalityType
<1>3. PICK places : places = 0 .. n - 1 OBVIOUS
<1>4. IsFiniteSet(places) /\ Cardinality(places) = n BY <1>2, <1>3, FS_Interval
<1>5. PICK f : f = [p \in S |-> Cardinality(Earlier(S, R, p))] OBVIOUS
<1>6. f \in [S -> places] BY <1>1, <1>3, <1>5, EarlierIsShort
<1>7. ASSUME NEW p \in S, NEW q \in S, f[p] = f[q] PROVE p = q
  <2>1. SUFFICES ASSUME p # q PROVE FALSE OBVIOUS
  <2>2. <<p, q>> \in R \/ <<q, p>> \in R BY <2>1 DEF StrictOrder
  <2>3. f[p] \in Nat /\ f[q] \in Nat BY <1>2, <1>3, <1>6
  <2>4. f[p] < f[q] \/ f[q] < f[p] BY <1>5, <2>2, LaterHasMore
  <2> QED BY <1>7, <2>3, <2>4
<1>8. f \in Injection(S, places) BY <1>6, <1>7 DEF Injection, IsInjective
<1>9. f \in Surjection(S, places) BY <1>1, <1>4, <1>8, FS_Injection
<1>10. i - 1 \in places BY <1>1, <1>2, <1>3
<1>11. PICK p \in S : f[p] = i - 1 BY <1>9, <1>10 DEF Surjection
<1> QED BY <1>5, <1>11

LEMMA PositionIsOnes ==
  ASSUME NEW S, IsFiniteSet(S), NEW R, StrictOrder(S, R), NEW p \in S, NEW q \in S,
         Cardinality(Earlier(S, R, p)) = Cardinality(Earlier(S, R, q))
  PROVE  p = q
<1>1. SUFFICES ASSUME p # q PROVE FALSE OBVIOUS
<1>2. <<p, q>> \in R \/ <<q, p>> \in R BY <1>1 DEF StrictOrder
<1>3. Cardinality(Earlier(S, R, p)) \in 0 .. Cardinality(S) - 1 BY EarlierIsShort
<1>4. Cardinality(S) \in Nat BY FS_CardinalityType
<1> QED BY <1>2, <1>3, <1>4, LaterHasMore

\* The products of a snapshot, in the order of their numbers.
LEMMA NumbersAreOrdered ==
  ASSUME NEW S \in SUBSET Nat
  PROVE  LET R == {r \in S \X S : r[1] < r[2]} IN
         StrictOrder(S, R) /\ \A p \in S : Earlier(S, R, p) = {q \in S : q < p}
BY DEF StrictOrder, Earlier

\* Every case of an experiment is about a product of the snapshot.
LEMMA ChosenAreProducts ==
  ASSUME NEW S \in SUBSET Nat, IsFiniteSet(S), Cardinality(S) >= CaseCount, NEW i \in 1 .. CaseCount
  PROVE  Chosen(S)[i] \in S
<1>1. PICK R : R = {r \in S \X S : r[1] < r[2]} OBVIOUS
<1>2. StrictOrder(S, R) /\ \A p \in S : Earlier(S, R, p) = {q \in S : q < p} BY <1>1, NumbersAreOrdered
<1>3. i \in 1 .. Cardinality(S) BY FS_CardinalityType, EvaluationAssumption
<1>4. PICK p \in S : Cardinality(Earlier(S, R, p)) = i - 1 BY <1>2, <1>3, PositionIsTaken
<1>5. \E q \in S : Cardinality({r \in S : r < q}) = i - 1 BY <1>2, <1>4
<1> QED BY <1>5 DEF Chosen

-----------------------------------------------------------------------------
(* Lists without repetition and the ranks in them                          *)

NoRepeats(list) == \A i, j \in DOMAIN list : i # j => list[i] # list[j]

LEMMA RankedListFacts ==
  ASSUME NEW products, NEW list \in RankedLists(products)
  PROVE  /\ list \in Seq(products) /\ NoRepeats(list) /\ Len(list) \in Nat /\ DOMAIN list = 1 .. Len(list)
         /\ IsFiniteSet(Entries(list)) /\ Entries(list) \subseteq products
<1>1. PICK n \in 0 .. CandidateTop : list \in [1 .. n -> products] BY DEF RankedLists
<1>2. n \in Nat /\ DOMAIN list = 1 .. n BY <1>1
<1>3. list \in Seq(products) BY <1>1, <1>2
<1>4. Len(list) = n BY <1>2, <1>3
<1>5. NoRepeats(list) BY DEF RankedLists, NoRepeats
<1>6. IsFiniteSet(1 .. n) BY <1>2, FS_Interval
<1>7. list \in Surjection(1 .. n, Entries(list)) BY <1>1, <1>2 DEF Surjection, Entries
<1>8. IsFiniteSet(Entries(list)) BY <1>6, <1>7, FS_Surjection
<1>9. Entries(list) \subseteq products BY <1>1 DEF Entries
<1> QED BY <1>2, <1>3, <1>4, <1>5, <1>8, <1>9

\* The rank of what is in a list is its place, and of what is not there it is 0.
LEMMA RankFacts ==
  ASSUME NEW list, NEW n \in Nat, DOMAIN list = 1 .. n, NEW p
  PROVE  /\ RankIn(list, p) \in 0 .. n
         /\ RankIn(list, p) # 0 => list[RankIn(list, p)] = p
         /\ RankIn(list, p) # 0 <=> p \in Entries(list)
<1>1. CASE \E i \in DOMAIN list : list[i] = p
  <2>1. RankIn(list, p) \in DOMAIN list /\ list[RankIn(list, p)] = p BY <1>1 DEF RankIn
  <2>2. p \in Entries(list) BY <1>1 DEF Entries
  <2> QED BY <2>1, <2>2
<1>2. CASE ~\E i \in DOMAIN list : list[i] = p
  BY <1>2 DEF RankIn, Entries
<1> QED BY <1>1, <1>2

LEMMA RankIsPlace ==
  ASSUME NEW list, NEW n \in Nat, DOMAIN list = 1 .. n, NoRepeats(list), NEW i \in 1 .. n
  PROVE  RankIn(list, list[i]) = i
<1>1. list[i] \in Entries(list) BY DEF Entries
<1>2. RankIn(list, list[i]) \in 1 .. n /\ list[RankIn(list, list[i])] = list[i] BY <1>1, RankFacts
<1> QED BY <1>2 DEF NoRepeats

-----------------------------------------------------------------------------
(* The order of a fusion                                                   *)

\* Fractions over positive denominators.
LEMMA FractionsOrdered ==
  ASSUME NEW a \in Nat, NEW b \in Nat, NEW c \in Nat,
         NEW x \in Nat \ {0}, NEW y \in Nat \ {0}, NEW z \in Nat \ {0},
         a * y >= b * x, b * z >= c * y
  PROVE  /\ a * z >= c * x
         /\ a * y > b * x \/ b * z > c * y => a * z > c * x
<1>1. /\ (a * y) * z >= (b * x) * z
      /\ a * y > b * x => (a * y) * z > (b * x) * z
  BY SMT
<1>2. /\ (b * z) * x >= (c * y) * x
      /\ b * z > c * y => (b * z) * x > (c * y) * x
  BY SMT
<1>3. (b * x) * z = (b * z) * x /\ (a * y) * z = (a * z) * y /\ (c * y) * x = (c * x) * y BY SMT
<1>4. /\ (a * z) * y >= (c * x) * y
      /\ a * y > b * x \/ b * z > c * y => (a * z) * y > (c * x) * y
  <2>1. PICK k, l, m, r \in Int : k = (a * y) * z /\ l = (b * x) * z /\ m = (c * y) * x /\ r = (b * z) * x BY SMT
  <2> QED BY <1>1, <1>2, <1>3, <2>1
<1>5. ASSUME NEW k \in Nat, NEW l \in Nat
      PROVE  /\ k * y >= l * y => k >= l
             /\ k * y > l * y => k > l
  <2>1. l >= k => l * y >= k * y BY SMT
  <2>2. l > k => l * y > k * y BY SMT
  <2>3. k * y \in Int /\ l * y \in Int BY SMT
  <2> QED BY <2>1, <2>2, <2>3
<1>6. a * z \in Nat /\ c * x \in Nat BY SMT
<1> QED BY <1>4, <1>5, <1>6

\* A score is a fraction, and as large as both of its shares.
LEMMA ShareFacts ==
  ASSUME NEW list, NEW n \in Nat, DOMAIN list = 1 .. n, NEW p
  PROVE  /\ Share(list, p)[1] \in Nat /\ Share(list, p)[2] \in Nat \ {0}
         /\ RankIn(list, p) = 0 => Share(list, p) = <<0, 1>>
         /\ RankIn(list, p) # 0 => Share(list, p) = <<1, RrfK + RankIn(list, p)>>
<1>1. RankIn(list, p) \in Nat /\ RrfK \in Nat \ {0} BY RankFacts, EvaluationAssumption
<1> QED BY <1>1 DEF Share

LEMMA ScoreFacts ==
  ASSUME NEW a, NEW m \in Nat, DOMAIN a = 1 .. m, NEW b, NEW n \in Nat, DOMAIN b = 1 .. n, NEW p
  PROVE  FusedScore(a, b, p)[1] \in Nat /\ FusedScore(a, b, p)[2] \in Nat \ {0}
<1>1. PICK s, t : s = Share(a, p) /\ t = Share(b, p) OBVIOUS
<1>2. s[1] \in Nat /\ s[2] \in Nat \ {0} /\ t[1] \in Nat /\ t[2] \in Nat \ {0} BY <1>1, ShareFacts
<1>3. FusedScore(a, b, p) = <<s[1] * t[2] + t[1] * s[2], s[2] * t[2]>> BY <1>1 DEF FusedScore
<1>4. ASSUME NEW i \in Nat, NEW j \in Nat \ {0}, NEW k \in Nat, NEW l \in Nat \ {0}
      PROVE  i * l + k * j \in Nat /\ j * l \in Nat \ {0}
  BY SMT
<1>5. s[1] * t[2] + t[1] * s[2] \in Nat /\ s[2] * t[2] \in Nat \ {0} BY <1>2, <1>4
<1> QED BY <1>3, <1>5

\* The best rank of an entry of either list.
LEMMA BestRankFacts ==
  ASSUME NEW a, NEW m \in Nat, DOMAIN a = 1 .. m, NEW b, NEW n \in Nat, DOMAIN b = 1 .. n,
         NEW p \in Entries(a) \union Entries(b)
  PROVE  BestRank(a, b, p) \in Nat
<1>1. PICK s, t : s = RankIn(a, p) /\ t = RankIn(b, p) OBVIOUS
<1>2. s \in Nat /\ t \in Nat /\ (s # 0 \/ t # 0) BY <1>1, RankFacts
<1>3. PICK ranks : ranks = {s, t} \ {0} OBVIOUS
<1>4. ranks \subseteq Nat /\ \E r \in ranks : \A q \in ranks : r <= q BY <1>2, <1>3
<1>5. BestRank(a, b, p) = CHOOSE r \in ranks : \A q \in ranks : r <= q BY <1>1, <1>3 DEF BestRank
<1> QED BY <1>4, <1>5

EitherHas(a, b)      == Entries(a) \union Entries(b)
FusionOrder(a, b) == {r \in EitherHas(a, b) \X EitherHas(a, b) : FusedBefore(a, b, r[1], r[2])}

\* _sort_and_rank is given an order that decides between any two results.
LEMMA FusionIsOrdered ==
  ASSUME NEW products \in SUBSET Nat, NEW a \in RankedLists(products), NEW b \in RankedLists(products)
  PROVE  /\ IsFiniteSet(EitherHas(a, b)) /\ EitherHas(a, b) \subseteq Nat
         /\ StrictOrder(EitherHas(a, b), FusionOrder(a, b))
         /\ \A p \in EitherHas(a, b) : Earlier(EitherHas(a, b), FusionOrder(a, b), p) =
                                    {q \in EitherHas(a, b) : q # p /\ FusedBefore(a, b, q, p)}
<1> DEFINE all == Entries(a) \union Entries(b)
           R   == {r \in all \X all : FusedBefore(a, b, r[1], r[2])}
           m   == Len(a)
           n   == Len(b)
<1>1. /\ m \in Nat /\ DOMAIN a = 1 .. m /\ IsFiniteSet(Entries(a)) /\ Entries(a) \subseteq Nat
      /\ n \in Nat /\ DOMAIN b = 1 .. n /\ IsFiniteSet(Entries(b)) /\ Entries(b) \subseteq Nat
  BY RankedListFacts
<1>2. IsFiniteSet(all) /\ all \subseteq Nat BY <1>1, FS_Union
<1>3. PICK top, low, best : /\ top = [p \in all |-> FusedScore(a, b, p)[1]]
                            /\ low = [p \in all |-> FusedScore(a, b, p)[2]]
                            /\ best = [p \in all |-> BestRank(a, b, p)]
  OBVIOUS
<1> HIDE DEF all
<1>4. /\ \A p \in all : top[p] \in Nat /\ low[p] \in Nat \ {0}
      /\ \A p \in all : best[p] \in Nat
  <2>1. \A p \in all : FusedScore(a, b, p)[1] \in Nat /\ FusedScore(a, b, p)[2] \in Nat \ {0} BY <1>1, ScoreFacts
  <2>2. \A p \in all : BestRank(a, b, p) \in Nat BY <1>1, BestRankFacts DEF all
  <2> QED BY <1>3, <2>1, <2>2
<1>5. \A p, q \in all : FusedBefore(a, b, p, q) <=>
        \/ top[p] * low[q] > top[q] * low[p]
        \/ /\ top[p] * low[q] = top[q] * low[p]
           /\ best[p] < best[q] \/ (best[p] = best[q] /\ p < q)
  BY <1>3 DEF FusedBefore
<1>6. \A p, q \in all : top[p] * low[q] \in Int
  <2>1. ASSUME NEW i \in Nat, NEW j \in Nat PROVE i * j \in Int BY SMT
  <2> QED BY <1>4, <2>1
<1>7. \A p \in all : ~FusedBefore(a, b, p, p) BY <1>2, <1>4, <1>5, <1>6
<1>8. \A p, q \in all : p # q => FusedBefore(a, b, p, q) \/ FusedBefore(a, b, q, p) BY <1>2, <1>4, <1>5, <1>6
<1>9. ASSUME NEW p \in all, NEW q \in all, NEW r \in all, FusedBefore(a, b, p, q), FusedBefore(a, b, q, r)
      PROVE  FusedBefore(a, b, p, r)
  <2>1. top[p] * low[q] >= top[q] * low[p] /\ top[q] * low[r] >= top[r] * low[q] BY <1>5, <1>6, <1>9
  <2>2. /\ top[p] * low[r] >= top[r] * low[p]
        /\ top[p] * low[q] > top[q] * low[p] \/ top[q] * low[r] > top[r] * low[q] => top[p] * low[r] > top[r] * low[p]
    BY <1>4, <2>1, FractionsOrdered
  <2>3. CASE top[p] * low[r] > top[r] * low[p] BY <1>5, <2>3
  <2>4. CASE ~(top[p] * low[r] > top[r] * low[p])
    <3>1. top[p] * low[r] = top[r] * low[p] BY <1>6, <2>2, <2>4
    <3>2. /\ best[p] < best[q] \/ (best[p] = best[q] /\ p < q)
          /\ best[q] < best[r] \/ (best[q] = best[r] /\ q < r)
      BY <1>5, <1>9, <2>2, <2>4
    <3>3. best[p] < best[r] \/ (best[p] = best[r] /\ p < r) BY <1>2, <1>4, <3>2
    <3> QED BY <1>5, <3>1, <3>3
  <2> QED BY <2>3, <2>4
<1>10. StrictOrder(all, R)
  <2>1. \A p, q \in all : <<p, q>> \in R <=> FusedBefore(a, b, p, q) OBVIOUS
  <2>2. R \subseteq all \X all OBVIOUS
  <2> QED BY <1>7, <1>8, <1>9, <2>1, <2>2 DEF StrictOrder
<1>11. \A p \in all : Earlier(all, R, p) = {q \in all : q # p /\ FusedBefore(a, b, q, p)} BY <1>7 DEF Earlier
<1> QED BY <1>2, <1>10, <1>11 DEF all, EitherHas, FusionOrder

\* Larger shares in both lists are a larger score.
LEMMA SumsOrdered ==
  ASSUME NEW i \in Nat, NEW j \in Nat \ {0}, NEW k \in Nat, NEW l \in Nat \ {0},
         NEW m \in Nat, NEW n \in Nat \ {0}, NEW o \in Nat, NEW r \in Nat \ {0},
         i * n > m * j, k * r > o * l
  PROVE  (i * l + k * j) * (n * r) > (m * r + o * n) * (j * l)
<1>1. PICK w \in Nat \ {0} : w = l * r BY SMT
<1>2. PICK z \in Nat \ {0} : z = j * n BY SMT
<1>3. PICK c, d, e, f \in Nat : c = i * n /\ d = m * j /\ e = k * r /\ f = o * l BY SMT
<1>4. c > d /\ e > f BY <1>3
<1>5. c * w > d * w BY <1>4 , SMT
<1>6. e * z > f * z BY <1>4, SMT
<1>7. PICK g, h, s, t \in Int : g = c * w /\ h = d * w /\ s = e * z /\ t = f * z BY SMT
<1>8. g + s > h + t BY <1>5, <1>6, <1>7
<1>9. (i * l + k * j) * (n * r) = c * w + e * z BY <1>1, <1>2, <1>3, SMT
<1>10. (m * r + o * n) * (j * l) = d * w + f * z BY <1>1, <1>2, <1>3, SMT
<1> QED BY <1>7, <1>8, <1>9, <1>10

LEMMA AheadInList ==
  ASSUME NEW list, NEW n \in Nat, DOMAIN list = 1 .. n, NEW p, NEW q,
         RankIn(list, p) # 0, RankIn(list, q) = 0 \/ RankIn(list, p) < RankIn(list, q)
  PROVE  Share(list, p)[1] * Share(list, q)[2] > Share(list, q)[1] * Share(list, p)[2]
<1>1. PICK r, s, k : r = RankIn(list, p) /\ s = RankIn(list, q) /\ k = RrfK OBVIOUS
<1>2. r \in Nat /\ s \in Nat /\ k \in Nat BY <1>1, RankFacts, EvaluationAssumption
<1>3. Share(list, p) = <<1, k + r>> BY <1>1, ShareFacts
<1>4. CASE s = 0
  <2>1. Share(list, q) = <<0, 1>> BY <1>1, <1>4, ShareFacts
  <2> QED BY <1>2, <1>3, <2>1
<1>5. CASE s # 0
  <2>1. Share(list, q) = <<1, k + s>> BY <1>1, <1>5, ShareFacts
  <2>2. r < s BY <1>1, <1>5
  <2> QED BY <1>2, <1>3, <2>1, <2>2
<1> QED BY <1>4, <1>5

LEMMA AheadIsBefore ==
  ASSUME NEW a, NEW m \in Nat, DOMAIN a = 1 .. m, NEW b, NEW n \in Nat, DOMAIN b = 1 .. n, NEW p, NEW q,
         RankIn(a, p) # 0, RankIn(a, q) = 0 \/ RankIn(a, p) < RankIn(a, q),
         RankIn(b, p) # 0, RankIn(b, q) = 0 \/ RankIn(b, p) < RankIn(b, q)
  PROVE  FusedBefore(a, b, p, q)
<1>1. PICK s, t, u, v : s = Share(a, p) /\ t = Share(b, p) /\ u = Share(a, q) /\ v = Share(b, q) OBVIOUS
<1>2. s[1] * u[2] > u[1] * s[2] /\ t[1] * v[2] > v[1] * t[2] BY <1>1, AheadInList
<1>3. /\ s[1] \in Nat /\ s[2] \in Nat \ {0} /\ t[1] \in Nat /\ t[2] \in Nat \ {0}
      /\ u[1] \in Nat /\ u[2] \in Nat \ {0} /\ v[1] \in Nat /\ v[2] \in Nat \ {0}
  BY <1>1, ShareFacts
<1>4. (s[1] * t[2] + t[1] * s[2]) * (u[2] * v[2]) > (u[1] * v[2] + v[1] * u[2]) * (s[2] * t[2])
  BY <1>2, <1>3, SumsOrdered
<1>5. /\ FusedScore(a, b, p) = <<s[1] * t[2] + t[1] * s[2], s[2] * t[2]>>
      /\ FusedScore(a, b, q) = <<u[1] * v[2] + v[1] * u[2], u[2] * v[2]>>
  BY <1>1 DEF FusedScore
<1> QED BY <1>4, <1>5 DEF FusedBefore

\* The fusion lists what either list has, once and in that order.
LEMMA FusedFacts ==
  ASSUME NEW products \in SUBSET Nat, NEW a \in RankedLists(products), NEW b \in RankedLists(products)
  PROVE  LET all == EitherHas(a, b)
             f   == Fused(a, b) IN
         /\ Cardinality(all) \in Nat /\ DOMAIN f = 1 .. Cardinality(all)
         /\ all # {} => f # <<>>
         /\ Entries(f) = all
         /\ \A i, j \in DOMAIN f : i < j => f[i] # f[j] /\ FusedBefore(a, b, f[i], f[j])
         /\ \A p, q \in all : FusedBefore(a, b, p, q) =>
              /\ RankIn(f, p) # 0
              /\ RankIn(f, p) < RankIn(f, q)
<1>1. PICK all, R : all = EitherHas(a, b) /\ R = FusionOrder(a, b) OBVIOUS
<1>2. /\ IsFiniteSet(all) /\ all \subseteq Nat /\ StrictOrder(all, R)
      /\ \A p \in all : Earlier(all, R, p) = {q \in all : q # p /\ FusedBefore(a, b, q, p)}
  BY <1>1, FusionIsOrdered
<1>3. PICK n, f : n = Cardinality(all) /\ f = Fused(a, b) OBVIOUS
<1>4. n \in Nat BY <1>2, <1>3, FS_CardinalityType
<1>5. f = [i \in 1 .. n |-> CHOOSE p \in all : Cardinality({q \in all : q # p /\ FusedBefore(a, b, q, p)}) = i - 1]
  BY <1>1, <1>3 DEF Fused, EitherHas
<1>6. ASSUME NEW i \in 1 .. n PROVE f[i] \in all /\ Cardinality(Earlier(all, R, f[i])) = i - 1
  <2>1. \E p \in all : Cardinality(Earlier(all, R, p)) = i - 1 BY <1>2, <1>3, PositionIsTaken
  <2>2. \E p \in all : Cardinality({q \in all : q # p /\ FusedBefore(a, b, q, p)}) = i - 1 BY <1>2, <2>1
  <2>3. f[i] \in all /\ Cardinality({q \in all : q # f[i] /\ FusedBefore(a, b, q, f[i])}) = i - 1 BY <1>5, <2>2
  <2> QED BY <1>2, <2>3
<1>7. DOMAIN f = 1 .. n BY <1>5
<1>8. NoRepeats(f)
  <2> SUFFICES ASSUME NEW i \in 1 .. n, NEW j \in 1 .. n, f[i] = f[j] PROVE i = j BY <1>7 DEF NoRepeats
  <2> QED BY <1>4, <1>6
<1>9. ASSUME NEW p \in all
      PROVE  RankIn(f, p) = Cardinality(Earlier(all, R, p)) + 1 /\ RankIn(f, p) \in 1 .. n
  <2>1. PICK i \in 1 .. n : i = Cardinality(Earlier(all, R, p)) + 1 BY <1>2, <1>3, <1>4, EarlierIsShort
  <2>2. Cardinality(Earlier(all, R, p)) = Cardinality(Earlier(all, R, f[i])) BY <1>4, <1>6, <2>1, EarlierIsShort, <1>2, <1>3
  <2>3. f[i] = p BY <1>2, <1>6, <2>2, PositionIsOnes
  <2>4. RankIn(f, f[i]) = i BY <1>4, <1>7, <1>8, RankIsPlace
  <2> QED BY <2>1, <2>3, <2>4
<1>10. ASSUME NEW p \in all, NEW q \in all, FusedBefore(a, b, p, q)
       PROVE  RankIn(f, p) # 0 /\ RankIn(f, p) < RankIn(f, q)
  <2>1. <<p, q>> \in R BY <1>1, <1>10 DEF FusionOrder
  <2>2. Cardinality(Earlier(all, R, p)) < Cardinality(Earlier(all, R, q)) BY <1>2, <2>1, LaterHasMore
  <2>3. /\ Cardinality(Earlier(all, R, p)) \in 0 .. n - 1 /\ Cardinality(Earlier(all, R, q)) \in 0 .. n - 1
    BY <1>2, <1>3, EarlierIsShort
  <2> QED BY <1>4, <1>9, <2>2, <2>3
<1>11. all # {} => f # <<>>
  <2>1. all # {} => n # 0 BY <1>2, <1>3, FS_EmptySet
  <2>2. all # {} => 1 \in DOMAIN f BY <1>4, <1>7, <2>1
  <2> QED BY <2>2
<1>12. Entries(f) = all
  <2>1. Entries(f) \subseteq all BY <1>6, <1>7 DEF Entries
  <2>2. ASSUME NEW p \in all PROVE p \in Entries(f)
    <3>1. RankIn(f, p) \in 1 .. n /\ RankIn(f, p) # 0 BY <1>4, <1>9
    <3> QED BY <1>4, <1>7, <3>1, RankFacts
  <2> QED BY <2>1, <2>2
<1>13. ASSUME NEW i \in 1 .. n, NEW j \in 1 .. n, i < j PROVE f[i] # f[j] /\ FusedBefore(a, b, f[i], f[j])
  <2>1. f[i] \in all /\ f[j] \in all /\ f[i] # f[j] BY <1>4, <1>6, <1>7, <1>8, <1>13 DEF NoRepeats
  <2>2. CASE <<f[i], f[j]>> \in R
    <3>1. FusedBefore(a, b, f[i], f[j])
      <4>1. PICK r : r = <<f[i], f[j]>> OBVIOUS
      <4>2. r \in FusionOrder(a, b) /\ r[1] = f[i] /\ r[2] = f[j] BY <1>1, <2>2, <4>1
      <4>3. FusedBefore(a, b, r[1], r[2]) BY <4>2 DEF FusionOrder
      <4> QED BY <4>2, <4>3
    <3> QED BY <2>1, <3>1
  <2>3. CASE <<f[j], f[i]>> \in R
    <3>1. Cardinality(Earlier(all, R, f[j])) < Cardinality(Earlier(all, R, f[i])) BY <1>2, <2>1, <2>3, LaterHasMore
    <3> QED BY <1>4, <1>6, <1>13, <3>1
  <2> QED BY <1>2, <2>1, <2>2, <2>3 DEF StrictOrder
<1> QED BY <1>1, <1>3, <1>4, <1>7, <1>10, <1>11, <1>12, <1>13

-----------------------------------------------------------------------------
(* What is recorded of a case                                              *)

CellStates == {"SUCCEEDED", "ERROR", "BLOCKED"}
Cells      == [status : CellStates, found : BOOLEAN, none : BOOLEAN]

\* A row of the searches, and one of the reranker.
SearchRows ==
  {row \in [answerable : BOOLEAN, bm25 : Cells, dense : Cells, fused : Cells] :
     /\ \A m \in Methods : ~(row[m].found /\ row[m].none)
     /\ row.fused.status = "SUCCEEDED" =>
          /\ ~row.fused.none
          /\ \A n \in {"bm25", "dense"} : row[n].status = "SUCCEEDED" /\ ~row[n].none}

RerankRows ==
  {row \in [status : {"NO_CANDIDATES", "RERANKED", "FALLBACK"}, candidate : BOOLEAN,
            before : 0 .. MetricTop, after : 0 .. MetricTop] :
     /\ row.after > 0 => row.candidate
     /\ row.status = "FALLBACK" => row.after = row.before}

LEMMA FoundFacts ==
  ASSUME NEW list, NEW n \in Nat, DOMAIN list = 1 .. n, NEW case, NEW version
  PROVE  /\ FoundAt(list, case, version) \in 0 .. MetricTop
         /\ FoundAt(list, case, version) > 0 => RankIn(list, case.product) # 0 /\ list # <<>>
         /\ list = <<>> => FoundAt(list, case, version) = 0
<1>1. PICK r, t : r = RankIn(list, case.product) /\ t = MetricTop OBVIOUS
<1>2. r \in 0 .. n /\ t \in Nat BY <1>1, RankFacts, EvaluationAssumption
<1>3. FoundAt(list, case, version) = IF case.version = version /\ r \in 1 .. t THEN r ELSE 0
  BY <1>1 DEF FoundAt
<1>4. FoundAt(list, case, version) \in 0 .. t /\ (FoundAt(list, case, version) > 0 => r # 0) BY <1>2, <1>3
<1>5. r # 0 => list # <<>>
  <2>1. r # 0 => r \in DOMAIN list BY <1>2
  <2> QED BY <2>1
<1> QED BY <1>1, <1>2, <1>3, <1>4, <1>5

LEMMA MeasuredFacts ==
  ASSUME NEW list, NEW n \in Nat, DOMAIN list = 1 .. n, NEW case, NEW version
  PROVE  LET cell == Measured(list, case, version) IN
         /\ cell \in Cells /\ cell.status = "SUCCEEDED" /\ ~(cell.found /\ cell.none)
         /\ cell.none <=> list = <<>>
<1>1. PICK found \in BOOLEAN : found <=> FoundAt(list, case, version) > 0 OBVIOUS
<1>2. PICK none \in BOOLEAN : none <=> list = <<>> OBVIOUS
<1>3. Measured(list, case, version) = [status |-> "SUCCEEDED", found |-> found, none |-> none]
  BY <1>1, <1>2 DEF Measured, Row
<1>4. ~(found /\ none) BY <1>1, <1>2, FoundFacts
<1> QED BY <1>2, <1>3, <1>4 DEF Cells, CellStates

LEMMA RowFacts ==
  ASSUME NEW products \in SUBSET Nat, NEW search \in SearchesOf(products), NEW case, NEW version
  PROVE  LET cell == RowOf(search, case, version) IN
         /\ cell \in Cells /\ ~(cell.found /\ cell.none)
         /\ search.list # <<>> => cell.status = "SUCCEEDED" /\ ~cell.none
<1>1. CASE search = Raised
  BY <1>1 DEF Raised, RowOf, Row, Cells, CellStates
<1>2. CASE \E l \in RankedLists(products) : search = [ok |-> TRUE, list |-> l]
  <2>1. PICK l \in RankedLists(products) : search = [ok |-> TRUE, list |-> l] BY <1>2
  <2>2. Len(l) \in Nat /\ DOMAIN l = 1 .. Len(l) BY RankedListFacts
  <2>3. RowOf(search, case, version) = Measured(l, case, version) BY <2>1 DEF RowOf
  <2> QED BY <2>1, <2>2, <2>3, MeasuredFacts
<1> QED BY <1>1, <1>2 DEF SearchesOf

\* What is recorded of the searches of a case.
LEMMA RowsAreSound ==
  ASSUME NEW products \in SUBSET Nat, NEW bm25 \in SearchesOf(products), NEW dense \in SearchesOf(products),
         NEW raises \in BOOLEAN, NEW case, case.answerable \in BOOLEAN, NEW version
  PROVE  RowsOf(bm25, dense, raises, case, version) \in SearchRows
<1>1. PICK b, d, f : /\ b = RowOf(bm25, case, version) /\ d = RowOf(dense, case, version)
                     /\ f = FusedRow(bm25, dense, raises, case, version)
  OBVIOUS
<1>2. RowsOf(bm25, dense, raises, case, version) = [answerable |-> case.answerable, bm25 |-> b, dense |-> d, fused |-> f]
  BY <1>1 DEF RowsOf
<1>3. b \in Cells /\ ~(b.found /\ b.none) /\ d \in Cells /\ ~(d.found /\ d.none) BY <1>1, RowFacts
<1>4. CASE ~(bm25.list # <<>> /\ dense.list # <<>>)
  <2>1. f = [status |-> "BLOCKED", found |-> FALSE, none |-> FALSE] BY <1>1, <1>4 DEF Row, FusedRow
  <2>2. f \in Cells BY <2>1 DEF Cells, CellStates
  <2> QED BY <1>2, <1>3, <2>1, <2>2 DEF SearchRows, Methods
<1>6. CASE bm25.list # <<>> /\ dense.list # <<>> /\ raises
  <2>1. f = [status |-> "ERROR", found |-> FALSE, none |-> FALSE] BY <1>1, <1>6 DEF Row, FusedRow
  <2>2. f \in Cells BY <2>1 DEF Cells, CellStates
  <2> QED BY <1>2, <1>3, <2>1, <2>2 DEF SearchRows, Methods
<1>5. CASE bm25.list # <<>> /\ dense.list # <<>> /\ ~raises
  <2>1. b.status = "SUCCEEDED" /\ ~b.none /\ d.status = "SUCCEEDED" /\ ~d.none BY <1>1, <1>5, RowFacts
  <2>2. PICK k \in RankedLists(products), l \in RankedLists(products) : bm25.list = k /\ dense.list = l
    BY <1>5 DEF SearchesOf, Raised
  <2>3. PICK g, n : g = Fused(k, l) /\ n = Cardinality(EitherHas(k, l)) OBVIOUS
  <2>4. EitherHas(k, l) # {}
    <3>1. k # <<>> /\ Len(k) \in Nat /\ DOMAIN k = 1 .. Len(k) /\ k \in Seq(products) BY <1>5, <2>2, RankedListFacts
    <3>2. 1 \in DOMAIN k BY <3>1
    <3> QED BY <3>2 DEF EitherHas, Entries
  <2>5. n \in Nat /\ DOMAIN g = 1 .. n /\ g # <<>> BY <2>3, <2>4, FusedFacts
  <2>6. f = Measured(g, case, version) BY <1>1, <1>5, <2>2, <2>3 DEF FusedRow
  <2>7. f \in Cells /\ f.status = "SUCCEEDED" /\ ~(f.found /\ f.none) /\ ~f.none BY <2>5, <2>6, MeasuredFacts
  <2> QED BY <1>2, <1>3, <2>1, <2>7 DEF SearchRows, Methods
<1> QED BY <1>4, <1>5, <1>6

\* What is counted of the rows.
LEMMA SummaryFacts ==
  ASSUME NEW rows \in Seq(SearchRows), NEW m \in Methods
  PROVE  LET s == Summarized(rows)[m] IN
         /\ s.attempted = Len(rows)
         /\ s.succeeded + s.error + s.blocked = Len(rows)
         /\ s.answerable + s.hold = s.succeeded
         /\ s.found <= s.answerable /\ s.found + s.none <= s.succeeded
         /\ m = "fused" => s.none = 0
<1>1. PICK n, D : n = Len(rows) /\ D = DOMAIN rows OBVIOUS
<1>2. n \in Nat /\ D = 1 .. n /\ IsFiniteSet(D) /\ Cardinality(D) = n
  <2>1. n \in Nat /\ D = 1 .. n BY <1>1
  <2>2. IsFiniteSet(1 .. n) /\ Cardinality(1 .. n) = IF 1 > n THEN 0 ELSE n - 1 + 1 BY <2>1, FS_Interval
  <2> QED BY <2>1, <2>2
<1>3. \A i \in D : rows[i] \in SearchRows BY <1>1, <1>2
<1>4. \A i \in D : rows[i][m] \in Cells /\ ~(rows[i][m].found /\ rows[i][m].none)
  BY <1>3 DEF SearchRows, Methods
<1>5. PICK A, B, C : A = With(rows, m, "SUCCEEDED") /\ B = With(rows, m, "ERROR") /\ C = With(rows, m, "BLOCKED") OBVIOUS
<1>6. D = (A \union B) \union C /\ A \intersect B = {} /\ (A \union B) \intersect C = {}
  BY <1>1, <1>4, <1>5 DEF With, Cells, CellStates
<1>7. IsFiniteSet(A) /\ IsFiniteSet(B) /\ IsFiniteSet(C) BY <1>2, <1>6, FS_Subset
<1>8. Cardinality({}) = 0 BY FS_EmptySet
<1>9. IsFiniteSet(A \union B) /\ Cardinality(A \union B) = Cardinality(A) + Cardinality(B) - Cardinality(A \intersect B)
  BY <1>7, FS_Union
<1>10. Cardinality(D) = Cardinality(A \union B) + Cardinality(C) - Cardinality((A \union B) \intersect C)
  BY <1>6, <1>7, <1>9, FS_Union
<1>11. /\ Cardinality(A) \in Nat /\ Cardinality(B) \in Nat /\ Cardinality(C) \in Nat
       /\ Cardinality(A) + Cardinality(B) + Cardinality(C) = n
  <2>1. Cardinality(A \intersect B) = 0 /\ Cardinality((A \union B) \intersect C) = 0 BY <1>6, <1>8
  <2>2. PICK a, b, c, u, d : /\ a = Cardinality(A) /\ b = Cardinality(B) /\ c = Cardinality(C)
                             /\ u = Cardinality(A \union B) /\ d = Cardinality(D)
    OBVIOUS
  <2>3. a \in Nat /\ b \in Nat /\ c \in Nat BY <1>7, <2>2, FS_CardinalityType
  <2>4. u = a + b - 0 /\ d = u + c - 0 /\ d = n BY <1>2, <1>9, <1>10, <2>1, <2>2
  <2> QED BY <2>2, <2>3, <2>4
<1>12. PICK W, H, F, N : /\ W = {i \in A : rows[i].answerable} /\ H = A \ W
                         /\ F = {i \in W : rows[i][m].found} /\ N = {i \in A : rows[i][m].none}
  OBVIOUS
<1>13. F \intersect N = {} /\ F \union N \in SUBSET A /\ F \in SUBSET A /\ N \in SUBSET A
  BY <1>4, <1>6, <1>12
<1>22. /\ F \in SUBSET W /\ W \in SUBSET A /\ H \in SUBSET A /\ W \union H = A /\ W \intersect H = {} BY <1>12
<1>23. IsFiniteSet(W) /\ IsFiniteSet(H) BY <1>7, <1>22, FS_Subset
<1>24. Cardinality(F) <= Cardinality(W) BY <1>22, <1>23, FS_Subset
<1>25. Cardinality(W) + Cardinality(H) = Cardinality(A)
  <2>1. Cardinality(W \union H) = Cardinality(W) + Cardinality(H) - Cardinality(W \intersect H) BY <1>23, FS_Union
  <2>2. PICK w, h, a : w = Cardinality(W) /\ h = Cardinality(H) /\ a = Cardinality(A) OBVIOUS
  <2>3. w \in Nat /\ h \in Nat BY <1>23, <2>2, FS_CardinalityType
  <2>4. a = w + h - 0 BY <1>8, <1>22, <2>1, <2>2
  <2> QED BY <2>2, <2>3, <2>4
<1>14. /\ IsFiniteSet(F) /\ IsFiniteSet(N) /\ Cardinality(F \union N) <= Cardinality(A) BY <1>7, <1>13, FS_Subset
<1>15. Cardinality(F \union N) = Cardinality(F) + Cardinality(N) - Cardinality(F \intersect N) BY <1>14, FS_Union
<1>16. Cardinality(F) + Cardinality(N) <= Cardinality(A)
  <2>1. PICK f, k, u : f = Cardinality(F) /\ k = Cardinality(N) /\ u = Cardinality(F \union N) OBVIOUS
  <2>2. f \in Nat /\ k \in Nat BY <1>14, <2>1, FS_CardinalityType
  <2>3. u = f + k - 0 BY <1>8, <1>13, <1>15, <2>1
  <2> QED BY <1>14, <2>1, <2>2, <2>3
<1>17. m = "fused" => N = {} BY <1>3, <1>5, <1>6, <1>12 DEF SearchRows, With
<1>18. Summarized(rows)[m] = [attempted |-> n, succeeded |-> Cardinality(A), error |-> Cardinality(B),
                              blocked |-> Cardinality(C), answerable |-> Cardinality(W), hold |-> Cardinality(H),
                              found |-> Cardinality(F), none |-> Cardinality(N)]
  BY <1>1, <1>5, <1>12 DEF Summarized
<1>19. PICK s : s = Summarized(rows)[m] OBVIOUS
<1>20. /\ s.attempted = n /\ s.succeeded = Cardinality(A) /\ s.error = Cardinality(B) /\ s.blocked = Cardinality(C)
       /\ s.answerable = Cardinality(W) /\ s.hold = Cardinality(H)
       /\ s.found = Cardinality(F) /\ s.none = Cardinality(N)
  BY <1>18, <1>19
<1>21. m = "fused" => s.none = 0 BY <1>8, <1>17, <1>20
<1> QED BY <1>1, <1>11, <1>16, <1>19, <1>20, <1>21, <1>24, <1>25

-----------------------------------------------------------------------------
(* What a reranker may do to the candidates                                *)

LEMMA CutFacts ==
  ASSUME NEW products, NEW list \in Seq(products)
  PROVE  LET n == IF Len(list) < MetricTop THEN Len(list) ELSE MetricTop IN
         /\ n \in Nat /\ DOMAIN Cut(list) = 1 .. n
         /\ \A i \in 1 .. n : i \in 1 .. Len(list) /\ Cut(list)[i] = list[i]
<1>1. PICK n : n = IF Len(list) < MetricTop THEN Len(list) ELSE MetricTop OBVIOUS
<1>2. n \in Nat /\ n <= Len(list) BY <1>1, EvaluationAssumption
<1>3. Cut(list) = SubSeq(list, 1, n) BY <1>1 DEF Cut
<1>4. SubSeq(list, 1, n) = [i \in 1 .. n |-> list[i]] BY <1>2
<1> QED BY <1>1, <1>2, <1>3, <1>4

\* Cutting off what a metric does not look at changes no metric.
LEMMA CutIsSeen ==
  ASSUME NEW products, NEW list \in Seq(products), NoRepeats(list), NEW case, NEW version
  PROVE  FoundAt(Cut(list), case, version) = FoundAt(list, case, version)
<1>1. PICK n, m, t, p : /\ n = Len(list) /\ t = MetricTop /\ p = case.product
                        /\ m = IF Len(list) < MetricTop THEN Len(list) ELSE MetricTop
  OBVIOUS
<1>2. n \in Nat /\ t \in Nat /\ DOMAIN list = 1 .. n /\ m \in Nat /\ (m = n \/ m = t) /\ m <= n /\ m <= t
  BY <1>1, EvaluationAssumption
<1>3. PICK cut : cut = Cut(list) OBVIOUS
<1>4. DOMAIN cut = 1 .. m /\ \A i \in 1 .. m : i \in 1 .. n /\ cut[i] = list[i] BY <1>1, <1>3, CutFacts
<1>5. NoRepeats(cut) BY <1>2, <1>4 DEF NoRepeats
<1>6. PICK r, s : r = RankIn(list, p) /\ s = RankIn(cut, p) OBVIOUS
<1>7. /\ r \in 0 .. n /\ (r # 0 => list[r] = p) /\ (r # 0 <=> p \in Entries(list))
      /\ s \in 0 .. m /\ (s # 0 => cut[s] = p) /\ (s # 0 <=> p \in Entries(cut))
  BY <1>2, <1>4, <1>6, RankFacts
<1>8. ASSUME s # 0 PROVE r = s
  <2>1. s \in 1 .. m /\ list[s] = p /\ s \in 1 .. n BY <1>4, <1>7, <1>8, <1>2
  <2> QED BY <1>2, <1>6, <2>1, RankIsPlace
<1>9. ASSUME r \in 1 .. t PROVE r = s
  <2>1. r \in 1 .. m /\ list[r] = p BY <1>2, <1>7, <1>9
  <2>2. cut[r] = p BY <1>4, <2>1
  <2> QED BY <1>2, <1>4, <1>5, <1>6, <2>1, <2>2, RankIsPlace
<1>10. r \in 1 .. t <=> s \in 1 .. t BY <1>2, <1>7, <1>8, <1>9
<1> QED BY <1>1, <1>3, <1>6, <1>9, <1>10 DEF FoundAt

\* What is recorded of a case that was reranked, fell back or had no candidates.
LEMMA RerankRowFacts ==
  ASSUME NEW products, NEW last \in RankedLists(products), NEW case, NEW version, NEW status, NEW list,
         \/ last = <<>> /\ status = "NO_CANDIDATES" /\ list = <<>>
         \/ status = "RERANKED" /\ list \in Orders(last)
         \/ status = "FALLBACK" /\ list = last
  PROVE  RerankRow(last, status, list, case, version) \in RerankRows
<1>1. PICK n, p : n = Len(last) /\ p = case.product OBVIOUS
<1>2. n \in Nat /\ DOMAIN last = 1 .. n /\ last \in Seq(products) /\ NoRepeats(last) BY <1>1, RankedListFacts
<1>3. list \in Seq(products) /\ Entries(list) \subseteq Entries(last)
  <2>1. CASE list = <<>> BY <2>1 DEF Entries
  <2>2. CASE list \in Orders(last)
    <3>1. Entries(last) \subseteq products BY RankedListFacts
    <3>2. list \in [1 .. n -> Entries(last)] /\ Entries(list) = Entries(last) BY <1>2, <2>2 DEF Orders
    <3>3. list \in [1 .. n -> products] BY <3>1, <3>2
    <3> QED BY <1>2, <3>2, <3>3
  <2>3. CASE list = last BY <1>2, <2>3
  <2> QED BY <2>1, <2>2, <2>3
<1>4. PICK cut, k : /\ cut = Cut(list)
                    /\ k = IF Len(list) < MetricTop THEN Len(list) ELSE MetricTop
  OBVIOUS
<1>5. /\ k \in Nat /\ DOMAIN cut = 1 .. k
      /\ \A i \in 1 .. k : i \in 1 .. Len(list) /\ cut[i] = list[i]
  BY <1>3, <1>4, CutFacts
<1>6. Entries(cut) \subseteq Entries(last) BY <1>3, <1>5 DEF Entries
<1>7. PICK b, a : b = FoundAt(last, case, version) /\ a = FoundAt(cut, case, version) OBVIOUS
<1>8. b \in 0 .. MetricTop /\ a \in 0 .. MetricTop /\ (a > 0 => RankIn(cut, p) # 0)
  BY <1>1, <1>2, <1>5, <1>7, FoundFacts
<1>9. PICK candidate \in BOOLEAN : candidate <=> RankIn(last, p) > 0 OBVIOUS
<1>10. a > 0 => candidate
  <2>1. RankIn(last, p) \in 0 .. n BY <1>2, RankFacts
  <2>2. a > 0 => p \in Entries(last) BY <1>5, <1>6, <1>8, RankFacts
  <2>3. a > 0 => RankIn(last, p) # 0 BY <1>2, <2>2, RankFacts
  <2> QED BY <1>2, <1>9, <2>1, <2>3
<1>11. status = "FALLBACK" => a = b BY <1>2, <1>4, <1>7, CutIsSeen
<1>12. RerankRow(last, status, list, case, version) = [status |-> status, candidate |-> candidate, before |-> b, after |-> a]
  BY <1>1, <1>4, <1>7, <1>9 DEF RerankRow
<1> QED BY <1>8, <1>10, <1>11, <1>12 DEF RerankRows

\* What is counted of the reranked cases: only those that did not fall back can
\* have gained or lost their evidence.
LEMMA RerankSummaryFacts ==
  ASSUME NEW rows \in Seq(RerankRows)
  PROVE  LET s == RerankSummarized(rows) IN
         /\ s.after + s.missed <= Len(rows)
         /\ s.after + s.fallbacks <= s.before + Len(rows)
         /\ s.before + s.fallbacks <= s.after + Len(rows)
<1>1. PICK n, D : n = Len(rows) /\ D = DOMAIN rows OBVIOUS
<1>2. n \in Nat /\ D = 1 .. n /\ IsFiniteSet(D) /\ Cardinality(D) = n
  <2>1. n \in Nat /\ D = 1 .. n BY <1>1
  <2>2. IsFiniteSet(1 .. n) /\ Cardinality(1 .. n) = IF 1 > n THEN 0 ELSE n - 1 + 1 BY <2>1, FS_Interval
  <2> QED BY <2>1, <2>2
<1>3. \A i \in D : /\ rows[i].after > 0 => rows[i].candidate
                   /\ rows[i].status = "FALLBACK" => rows[i].after = rows[i].before
  BY <1>1, <1>2 DEF RerankRows
<1>4. PICK M, F, B, A : /\ M = {i \in D : ~rows[i].candidate} /\ F = {i \in D : rows[i].status = "FALLBACK"}
                        /\ B = {i \in D : rows[i].before > 0} /\ A = {i \in D : rows[i].after > 0}
  OBVIOUS
<1>5. ASSUME NEW S \in SUBSET D, NEW T \in SUBSET D
      PROVE  /\ Cardinality(S) \in Nat /\ Cardinality(T) \in Nat /\ Cardinality(S \intersect T) \in Nat
             /\ Cardinality(S) + Cardinality(T) - Cardinality(S \intersect T) <= n
             /\ S \intersect T = {} => Cardinality(S) + Cardinality(T) <= n
             /\ S \subseteq T => Cardinality(S) <= Cardinality(T)
  <2>1. IsFiniteSet(S) /\ IsFiniteSet(T) BY <1>2, FS_Subset
  <2>2. IsFiniteSet(S \union T) /\ Cardinality(S \union T) = Cardinality(S) + Cardinality(T) - Cardinality(S \intersect T)
    BY <2>1, FS_Union
  <2>3. Cardinality(S \union T) <= n BY <1>2, FS_Subset
  <2>4. IsFiniteSet(S \intersect T) BY <2>1, FS_Intersection
  <2>5. S \subseteq T => Cardinality(S) <= Cardinality(T) BY <2>1, FS_Subset
  <2>6. PICK a, b, c, u : /\ a = Cardinality(S) /\ b = Cardinality(T) /\ c = Cardinality(S \intersect T)
                          /\ u = Cardinality(S \union T)
    OBVIOUS
  <2>7. a \in Nat /\ b \in Nat /\ c \in Nat BY <2>1, <2>4, <2>6, FS_CardinalityType
  <2>8. S \intersect T = {} => c = 0 BY <2>6, FS_EmptySet
  <2> QED BY <2>2, <2>3, <2>5, <2>6, <2>7, <2>8
<1>6. M \in SUBSET D /\ F \in SUBSET D /\ B \in SUBSET D /\ A \in SUBSET D BY <1>4
<1>7. A \intersect M = {} /\ A \intersect F = B \intersect F BY <1>3, <1>4
<1>8. PICK m, f, b, a, c : /\ m = Cardinality(M) /\ f = Cardinality(F) /\ b = Cardinality(B) /\ a = Cardinality(A)
                           /\ c = Cardinality(A \intersect F)
  OBVIOUS
<1>9. a \in Nat /\ f \in Nat /\ c \in Nat /\ a + f - c <= n BY <1>5, <1>6, <1>8
<1>10. b \in Nat /\ b + f - c <= n BY <1>5, <1>6, <1>7, <1>8
<1>11. m \in Nat /\ a + m <= n BY <1>5, <1>6, <1>7, <1>8
<1>12. c <= a /\ c <= b
  <2>1. A \intersect F \in SUBSET D /\ A \intersect F \subseteq A /\ A \intersect F \subseteq B BY <1>6, <1>7
  <2> QED BY <1>5, <1>6, <1>8, <2>1
<1>13. RerankSummarized(rows) = [missed |-> m, fallbacks |-> f, before |-> b, after |-> a]
  BY <1>1, <1>4, <1>8 DEF RerankSummarized
<1> QED BY <1>1, <1>2, <1>9, <1>10, <1>11, <1>12, <1>13

-----------------------------------------------------------------------------
(* ProductEvaluation: the inductive invariant                              *)

Numbers(S) == S \subseteq Nat /\ IsFiniteSet(S)

\* An export in the shelf is one that collections may leave.
ShelfTypes ==
  /\ shelf \in Seq([kind : Kinds, full : BOOLEAN, rows : {s.rows : s \in Shelves}, whole : BOOLEAN])
  /\ \A i \in DOMAIN shelf : \E s \in Shelves :
       shelf[i].kind = s.kind /\ shelf[i].full = s.full /\ shelf[i].rows = s.rows

\* A snapshot with enough products was pinned: there is one set of cases, and one
\* review that approves of them.
IsPinned    == /\ pins.snapshot # NoSheet /\ Numbers(DOMAIN pins.snapshot.rows)
               /\ Cardinality(DOMAIN pins.snapshot.rows) >= CaseCount
PinnedCases == Drafted(Chosen(DOMAIN pins.snapshot.rows))
ReviewsOf(decisions) == [cases : {PinnedCases}, decision : decisions, held : SUBSET Holdable]
Approvals   == ReviewsOf({"APPROVE"})
OfPinned(x) == /\ IsPinned
               /\ x.review \in Approvals /\ x.cases = Reviewed(PinnedCases, x.review) /\ x.version = pins.snapshot.version

\* What a file holds, or a script is about to write to it.
PaperIsSound(name, x) ==
  /\ name = "snapshot" => Numbers(DOMAIN x.rows)
  /\ name = "draft"    => IsPinned /\ x = PinnedCases
  /\ name = "review"   => IsPinned /\ x \in ReviewsOf({"blank", "APPROVE", "REJECT"})
  /\ name = "final"    => IsPinned /\ x.review \in Approvals /\ x.cases = Reviewed(PinnedCases, x.review)
  /\ name = "result"   => /\ OfPinned(x) /\ x.rows \in Seq(SearchRows) /\ Len(x.rows) = CaseCount
                          /\ x.summary = Summarized(x.rows)
  /\ name = "summary"  => OfPinned(x) /\ x.rows \in Seq(RerankRows) /\ Len(x.rows) = CaseCount
                          /\ x.summary = RerankSummarized(x.rows)

PapersAreSound == DOMAIN papers = PaperNames /\ \A name \in PaperNames : Whole(name) => PaperIsSound(name, papers[name])

PinsAreSound == /\ DOMAIN pins = {"snapshot", "final"}
                /\ pins.snapshot # NoSheet => Numbers(DOMAIN pins.snapshot.rows)

Lists == {<<"snapshot">>, <<"draft", "review">>, <<"review">>, <<"final">>, <<"result">>, <<"summary">>}

LabWrites(l) ==
  /\ {"open", "left"} \subseteq DOMAIN l /\ l.left \in Lists
  /\ \A i \in DOMAIN l.left : PaperIsSound(l.left[i], l.content[l.left[i]])

LabRuns(l) ==
  /\ {"pc", "cases", "review", "version", "products", "rows", "last", "attempts"} \subseteq DOMAIN l
  /\ OfPinned(l) /\ l.products = DOMAIN pins.snapshot.rows

LabSearches(l) ==
  /\ LabRuns(l) /\ l.rows \in Seq(SearchRows) /\ Len(l.rows) <= CaseCount
  /\ l.last # <<>> => l.last \in SearchesOf(l.products) \X SearchesOf(l.products) /\ Len(l.rows) < CaseCount

LabReranks(l) ==
  /\ LabRuns(l) /\ l.rows \in Seq(RerankRows) /\ Len(l.rows) <= CaseCount
  /\ l.pc = "score" => Len(l.rows) < CaseCount /\ l.last \in RankedLists(l.products)

LabIsSound ==
  /\ lab.pc \in {"idle", "categories", "relations", "write", "search", "rerank", "score"}
  /\ lab.pc \in {"categories", "relations"} => Numbers(lab.products)
  /\ lab.pc = "write" => LabWrites(lab)
  /\ lab.pc = "search" => LabSearches(lab)
  /\ lab.pc \in {"rerank", "score"} => LabReranks(lab)

EvaluationInv == ShelfTypes /\ PinsAreSound /\ PapersAreSound /\ LabIsSound

-----------------------------------------------------------------------------
(* The shelf                                                               *)

\* Exports are added and completed, and never change.
ShelfGrows ==
  /\ Len(shelf) <= Len(shelf')
  /\ \A i \in DOMAIN shelf : /\ i \in DOMAIN shelf' /\ shelf'[i].kind = shelf[i].kind /\ shelf'[i].full = shelf[i].full
                             /\ shelf'[i].rows = shelf[i].rows /\ (shelf[i].whole => shelf'[i].whole)

LEMMA ShelfSize ==
  ASSUME ShelfTypes
  PROVE  Len(shelf) \in Nat /\ DOMAIN shelf = 1 .. Len(shelf)
BY DEF ShelfTypes

LEMMA ShelvedGrows ==
  ASSUME ShelfTypes, Shelved
  PROVE  ShelfTypes' /\ ShelfGrows
<1> DEFINE Records == [kind : Kinds, full : BOOLEAN, rows : {s.rows : s \in Shelves}, whole : BOOLEAN]
<1>1. shelf \in Seq(Records) /\ DOMAIN shelf = 1 .. Len(shelf) /\ Len(shelf) \in Nat BY DEF ShelfTypes
<1> HIDE DEF Records
<1>2. CASE \E s \in Shelves : shelf' = Append(shelf, [kind |-> s.kind, full |-> s.full, rows |-> s.rows, whole |-> FALSE])
  <2>1. PICK s \in Shelves : shelf' = Append(shelf, [kind |-> s.kind, full |-> s.full, rows |-> s.rows, whole |-> FALSE])
    BY <1>2
  <2>2. PICK r, n : r = [kind |-> s.kind, full |-> s.full, rows |-> s.rows, whole |-> FALSE] /\ n = Len(shelf) OBVIOUS
  <2>3. s.kind \in Kinds /\ s.full \in BOOLEAN BY CatalogAssumption
  <2>4. r \in Records /\ r.kind = s.kind /\ r.full = s.full /\ r.rows = s.rows BY <2>2, <2>3 DEF Records
  <2>5. /\ shelf' \in Seq(Records) /\ Len(shelf') = n + 1 /\ DOMAIN shelf' = 1 .. n + 1
        /\ shelf'[n + 1] = r /\ \A i \in 1 .. n : shelf'[i] = shelf[i]
    BY <1>1, <2>1, <2>2, <2>4
  <2>6. \A i \in 1 .. n : \E t \in Shelves : shelf[i].kind = t.kind /\ shelf[i].full = t.full /\ shelf[i].rows = t.rows
    BY <1>1, <2>2 DEF ShelfTypes
  <2>7. \A i \in 1 .. n + 1 : \E t \in Shelves : shelf'[i].kind = t.kind /\ shelf'[i].full = t.full /\ shelf'[i].rows = t.rows
    <3> TAKE i \in 1 .. n + 1
    <3>1. CASE i = n + 1 BY <2>4, <2>5, <3>1
    <3>2. CASE i \in 1 .. n BY <2>5, <2>6, <3>2
    <3> QED BY <1>1, <2>2, <3>1, <3>2
  <2>8. ShelfTypes' BY <2>5, <2>7 DEF ShelfTypes, Records
  <2>9. ShelfGrows BY <1>1, <2>2, <2>5 DEF ShelfGrows
  <2> QED BY <2>8, <2>9
<1>3. CASE \E i \in DOMAIN shelf : shelf' = [shelf EXCEPT ![i].whole = TRUE]
  <2>1. PICK i \in DOMAIN shelf : shelf' = [shelf EXCEPT ![i].whole = TRUE] BY <1>3
  <2>2. PICK r : r = [shelf[i] EXCEPT !.whole = TRUE] OBVIOUS
  <2>3. shelf[i] \in Records BY <1>1
  <2>4. /\ r \in Records /\ r.kind = shelf[i].kind /\ r.full = shelf[i].full /\ r.rows = shelf[i].rows /\ r.whole
    BY <2>2, <2>3 DEF Records
  <2>5. shelf' = [shelf EXCEPT ![i] = r] BY <2>1, <2>2
  <2>6. shelf' \in Seq(Records) /\ Len(shelf') = Len(shelf) /\ DOMAIN shelf' = DOMAIN shelf BY <1>1, <2>4, <2>5
  <2>7. \A j \in DOMAIN shelf : shelf'[j] = IF j = i THEN r ELSE shelf[j] BY <1>1, <2>5
  <2>8. \A j \in DOMAIN shelf : shelf'[j].kind = shelf[j].kind /\ shelf'[j].full = shelf[j].full
          /\ shelf'[j].rows = shelf[j].rows /\ (shelf[j].whole => shelf'[j].whole)
    BY <2>4, <2>7
  <2>9. \A j \in DOMAIN shelf : \E t \in Shelves : shelf'[j].kind = t.kind /\ shelf'[j].full = t.full /\ shelf'[j].rows = t.rows
    BY <2>8 DEF ShelfTypes
  <2>10. ShelfTypes' BY <2>6, <2>9 DEF ShelfTypes, Records
  <2>11. ShelfGrows BY <1>1, <2>6, <2>8 DEF ShelfGrows
  <2> QED BY <2>10, <2>11
<1> QED BY <1>2, <1>3 DEF Shelved

\* The rows of an export are a list, of products with their numbers.
LEMMA RowsAreListed ==
  ASSUME ShelfTypes, NEW i \in DOMAIN shelf
  PROVE  /\ Len(shelf[i].rows) \in Nat /\ DOMAIN shelf[i].rows = 1 .. Len(shelf[i].rows)
         /\ \A n \in DOMAIN shelf[i].rows :
              /\ shelf[i].rows[n].updated \in Nat
              /\ shelf[i].kind = "products" => shelf[i].rows[n].id \in Nat
<1>1. PICK s \in Shelves : shelf[i].kind = s.kind /\ shelf[i].rows = s.rows BY DEF ShelfTypes
<1>2. /\ s.rows \in Seq({s.rows[n] : n \in DOMAIN s.rows})
      /\ \A n \in DOMAIN s.rows : s.rows[n].updated \in Nat /\ (s.kind = "products" => s.rows[n].id \in Nat)
  BY CatalogAssumption
<1>3. Len(s.rows) \in Nat /\ DOMAIN s.rows = 1 .. Len(s.rows) BY <1>2
<1> QED BY <1>1, <1>2, <1>3

LEMMA ImagesAreFinite ==
  ASSUME NEW f, IsFiniteSet(DOMAIN f)
  PROVE  IsFiniteSet({f[x] : x \in DOMAIN f})
<1>1. PICK S, T : S = DOMAIN f /\ T = {f[x] : x \in DOMAIN f} OBVIOUS
<1>2. \A x \in S : f[x] \in T BY <1>1
<1>3. [x \in S |-> f[x]] \in Surjection(S, T) BY <1>1, <1>2 DEF Surjection
<1> QED BY <1>1, <1>3, FS_Surjection

\* An export holds finitely many observations.
LEMMA ObservationsAreFinite ==
  ASSUME ShelfTypes
  PROVE  /\ \A i \in DOMAIN shelf : IsFiniteSet(ObservationsIn(i))
         /\ \A K \in SUBSET DOMAIN shelf : IsFiniteSet(UNION {ObservationsIn(i) : i \in K})
<1>1. ASSUME NEW i \in DOMAIN shelf PROVE IsFiniteSet(ObservationsIn(i))
  <2>1. PICK f : f = [n \in DOMAIN shelf[i].rows |->
                        [row |-> shelf[i].rows[n], batch |-> i, sequence |-> n,
                         at |-> IF shelf[i].rows[n].updated = 0 THEN i ELSE shelf[i].rows[n].updated]]
    OBVIOUS
  <2>2. ObservationsIn(i) = {f[n] : n \in DOMAIN f} BY <2>1 DEF ObservationsIn
  <2>3. Len(shelf[i].rows) \in Nat /\ DOMAIN f = 1 .. Len(shelf[i].rows) BY <2>1, RowsAreListed
  <2>4. IsFiniteSet(DOMAIN f) BY <2>3, FS_Interval
  <2> QED BY <2>2, <2>4, ImagesAreFinite
<1>2. ASSUME NEW K \in SUBSET DOMAIN shelf PROVE IsFiniteSet(UNION {ObservationsIn(i) : i \in K})
  <2>1. PICK f : f = [i \in K |-> ObservationsIn(i)] OBVIOUS
  <2>2. IsFiniteSet(DOMAIN shelf) BY ShelfSize, FS_Interval
  <2>3. IsFiniteSet(DOMAIN f) BY <2>1, <2>2, FS_Subset
  <2>4. IsFiniteSet({f[i] : i \in DOMAIN f}) BY <2>3, ImagesAreFinite
  <2>5. {f[i] : i \in DOMAIN f} = {ObservationsIn(i) : i \in K} BY <2>1
  <2>6. \A T \in {ObservationsIn(i) : i \in K} : IsFiniteSet(T) BY <1>1
  <2> QED BY <2>4, <2>5, <2>6, FS_UNION
<1> QED BY <1>1, <1>2

\* The products of a projection are finitely many numbers.
LEMMA SourceRowsAreNumbers ==
  ASSUME ShelfTypes
  PROVE  Numbers(SourceRows)
<1>1. PICK all : all = UNION {ObservationsIn(i) : i \in FullOf("products")} OBVIOUS
<1>2. IsFiniteSet(all) BY <1>1, ObservationsAreFinite DEF FullOf
<1>3. PICK f : f = [o \in all |-> o.row.id] OBVIOUS
<1>4. SourceRows = {f[o] : o \in DOMAIN f} BY <1>1, <1>3 DEF SourceRows
<1>5. IsFiniteSet(SourceRows) BY <1>2, <1>3, <1>4, ImagesAreFinite
<1>6. ASSUME NEW o \in all PROVE o.row.id \in Nat
  <2>1. PICK i \in FullOf("products") : o \in ObservationsIn(i) BY <1>1
  <2>2. i \in DOMAIN shelf /\ shelf[i].kind = "products" BY <2>1 DEF FullOf
  <2>3. PICK n \in DOMAIN shelf[i].rows : o.row = shelf[i].rows[n] BY <2>1 DEF ObservationsIn
  <2> QED BY <2>2, <2>3, RowsAreListed
<1>7. SourceRows \subseteq Nat BY <1>1, <1>6 DEF SourceRows
<1> QED BY <1>5, <1>7 DEF Numbers

-----------------------------------------------------------------------------
(* The steps of the experiment                                             *)

\* A hash is pinned once.
PinsStay == pins.snapshot # NoSheet => pins'.snapshot = pins.snapshot

LEMMA PaperStaysSound ==
  ASSUME PinsStay, NEW name, NEW x, PaperIsSound(name, x)
  PROVE  PaperIsSound(name, x)'
<1>1. PICK s : s = pins.snapshot OBVIOUS
<1>2. CASE s = NoSheet
  BY <1>1, <1>2 DEF PaperIsSound, IsPinned, OfPinned
<1>3. CASE s # NoSheet
  <2>1. pins.snapshot = pins'.snapshot BY <1>1, <1>3 DEF PinsStay
  <2> QED BY <2>1 DEF PaperIsSound, IsPinned, OfPinned, PinnedCases, Approvals, ReviewsOf, Drafted
<1> QED BY <1>2, <1>3

\* The script or the file that a step leaves alone.
LEMMA LabRests ==
  ASSUME LabIsSound, PinsStay, UNCHANGED lab
  PROVE  LabIsSound'
<1>1. PICK l : l = lab /\ l = lab' OBVIOUS
<1>2. CASE l.pc \in {"idle", "categories", "relations"} BY <1>1, <1>2 DEF LabIsSound
<1>3. CASE l.pc = "write"
  <2>1. LabWrites(l) BY <1>1, <1>3 DEF LabIsSound
  <2>2. \A i \in DOMAIN l.left : PaperIsSound(l.left[i], l.content[l.left[i]])'
    BY <2>1, PaperStaysSound DEF LabWrites
  <2> QED BY <1>1, <1>3, <2>1, <2>2 DEF LabIsSound, LabWrites
<1>4. CASE l.pc \in {"search", "rerank", "score"}
  <2>1. OfPinned(l) /\ pins.snapshot # NoSheet BY <1>1, <1>4 DEF LabIsSound, LabSearches, LabReranks, LabRuns, OfPinned, IsPinned
  <2>2. pins.snapshot = pins'.snapshot BY <2>1 DEF PinsStay
  <2>3. OfPinned(l)' BY <2>1, <2>2 DEF OfPinned, IsPinned, PinnedCases, Approvals, ReviewsOf, Drafted
  <2>4. LabRuns(l) => LabRuns(l)' BY <2>2, <2>3 DEF LabRuns
  <2> QED BY <1>1, <1>4, <2>4 DEF LabIsSound, LabSearches, LabReranks
<1> QED BY <1>1, <1>2, <1>3, <1>4 DEF LabIsSound

LEMMA PapersRest ==
  ASSUME PapersAreSound, PinsStay, UNCHANGED papers
  PROVE  PapersAreSound'
<1> SUFFICES ASSUME NEW name \in PaperNames, Whole(name)' PROVE PaperIsSound(name, papers[name])'
  BY DEF PapersAreSound
<1>1. PICK x : x = papers[name] /\ x = papers'[name] OBVIOUS
<1>2. PaperIsSound(name, x) BY <1>1 DEF PapersAreSound, Whole
<1> QED BY <1>1, <1>2, PaperStaysSound

LEMMA PaperIsWritten ==
  ASSUME PapersAreSound, UNCHANGED pins, NEW name \in PaperNames, NEW x, papers' = [papers EXCEPT ![name] = x],
         x \notin {NoSheet, TornSheet} => PaperIsSound(name, x)
  PROVE  PapersAreSound'
<1>1. PinsStay BY DEF PinsStay
<1>2. DOMAIN papers' = PaperNames BY DEF PapersAreSound
<1> SUFFICES ASSUME NEW n \in PaperNames, Whole(n)' PROVE PaperIsSound(n, papers[n])'
  BY <1>2 DEF PapersAreSound
<1>3. PICK y : y = papers'[n] OBVIOUS
<1>4. PaperIsSound(n, y) BY <1>3 DEF PapersAreSound, Whole
<1> QED BY <1>1, <1>3, <1>4, PaperStaysSound

\* A script that begins to write what is sound.
LEMMA WritingBegins ==
  ASSUME UNCHANGED pins, NEW names \in Lists, NEW content, Writes(names, content),
         \A i \in DOMAIN names : PaperIsSound(names[i], content[names[i]])
  PROVE  LabIsSound'
<1>1. PinsStay BY DEF PinsStay
<1>2. PICK l : l = [pc |-> "write", open |-> FALSE, left |-> names, content |-> content] OBVIOUS
<1>3. lab' = l /\ l.pc = "write" /\ {"open", "left"} \subseteq DOMAIN l BY <1>2 DEF Writes
<1>4. \A i \in DOMAIN names : PaperIsSound(names[i], content[names[i]])' BY <1>1, PaperStaysSound
<1>5. l.left = names /\ l.content = content /\ l.open = FALSE BY <1>2
<1>6. LabWrites(l)' BY <1>3, <1>4, <1>5 DEF LabWrites
<1> QED BY <1>3, <1>6 DEF LabIsSound

LEMMA LabEnds ==
  ASSUME Ends PROVE LabIsSound'
BY DEF Ends, Idle, LabIsSound

LEMMA ListFacts ==
  ASSUME NEW l \in Lists
  PROVE  /\ Head(l) = l[1] /\ 1 \in DOMAIN l /\ l[1] \in PaperNames
         /\ Len(l) # 1 => Tail(l) \in Lists /\ DOMAIN Tail(l) = {1} /\ Tail(l)[1] = l[2] /\ 2 \in DOMAIN l
<1>1. CASE Len(l) = 1 BY <1>1 DEF Lists, PaperNames
<1>2. CASE l = <<"draft", "review">>
  <2>1. Tail(l) = <<"review">> /\ Head(l) = "draft" BY <1>2
  <2> QED BY <1>2, <2>1 DEF Lists, PaperNames
<1> QED BY <1>1, <1>2 DEF Lists

LEMMA WritePaperStep ==
  ASSUME PapersAreSound, LabIsSound, WritePaper
  PROVE  PapersAreSound' /\ LabIsSound'
<1>1. PICK l, name, content : l = lab.left /\ name = l[1] /\ content = lab.content OBVIOUS
<1>2. /\ l \in Lists /\ {"open", "left"} \subseteq DOMAIN lab /\ lab.pc = "write"
      /\ \A i \in DOMAIN l : PaperIsSound(l[i], content[l[i]])
  BY <1>1 DEF WritePaper, LabIsSound, LabWrites
<1>3. Head(l) = name /\ name \in PaperNames /\ PaperIsSound(name, content[name]) BY <1>1, <1>2, ListFacts
<1>4. UNCHANGED pins /\ PinsStay BY DEF WritePaper, PinsStay
<1>5. CASE ~lab.open
  <2>1. papers' = [papers EXCEPT ![name] = TornSheet] /\ lab' = [lab EXCEPT !.open = TRUE]
    BY <1>1, <1>3, <1>5 DEF WritePaper
  <2>2. PapersAreSound' BY <1>3, <1>4, <2>1, PaperIsWritten
  <2>3. PICK k : k = lab' OBVIOUS
  <2>4. k.pc = "write" /\ k.left = l /\ k.content = content /\ {"open", "left"} \subseteq DOMAIN k
    BY <1>1, <1>2, <2>1, <2>3
  <2>5. \A i \in DOMAIN l : PaperIsSound(l[i], content[l[i]])' BY <1>2, <1>4, PaperStaysSound
  <2>6. LabWrites(k)' BY <1>2, <2>4, <2>5 DEF LabWrites
  <2> QED BY <2>2, <2>3, <2>4, <2>6 DEF LabIsSound
<1>6. CASE lab.open
  <2>1. papers' = [papers EXCEPT ![name] = content[name]] BY <1>1, <1>3, <1>6 DEF WritePaper
  <2>2. PapersAreSound' BY <1>3, <1>4, <2>1, PaperIsWritten
  <2>3. CASE Len(l) = 1
    <3>1. Ends BY <1>1, <1>6, <2>3 DEF WritePaper
    <3> QED BY <2>2, <3>1, LabEnds
  <2>4. CASE Len(l) # 1
    <3>1. lab' = [lab EXCEPT !.open = FALSE, !.left = Tail(@)] BY <1>1, <1>6, <2>4 DEF WritePaper
    <3>2. PICK r : r = Tail(l) OBVIOUS
    <3>3. r \in Lists /\ DOMAIN r = {1} /\ r[1] = l[2] /\ 2 \in DOMAIN l BY <1>2, <2>4, <3>2, ListFacts
    <3>4. PICK k : k = lab' OBVIOUS
    <3>5. k.left = r BY <1>1, <1>2, <3>1, <3>2, <3>4
    <3>6. k.pc = "write" /\ k.content = content /\ {"open", "left"} \subseteq DOMAIN k BY <1>1, <1>2, <3>1, <3>4
    <3>7. \A i \in DOMAIN r : PaperIsSound(r[i], content[r[i]]) BY <1>2, <3>3
    <3>8. \A i \in DOMAIN r : PaperIsSound(r[i], content[r[i]])' BY <1>4, <3>7, PaperStaysSound
    <3>9. LabWrites(k)' BY <3>3, <3>5, <3>6, <3>8 DEF LabWrites
    <3> QED BY <2>2, <3>4, <3>6, <3>9 DEF LabIsSound
  <2> QED BY <2>3, <2>4
<1> QED BY <1>5, <1>6

\* Projections.
LEMMA ProjectionSteps ==
  ASSUME ShelfTypes, PapersAreSound, LabIsSound, BeginProjection \/ ProjectCategories \/ ProjectRelations
  PROVE  PapersAreSound' /\ LabIsSound' /\ UNCHANGED pins
<1>1. UNCHANGED papers /\ UNCHANGED pins /\ PinsStay BY DEF BeginProjection, ProjectCategories, ProjectRelations, PinsStay
<1>2. PapersAreSound' BY <1>1, PapersRest
<1>3. CASE Ends BY <1>1, <1>2, <1>3, LabEnds
<1>4. CASE lab' = [pc |-> "categories", files |-> FullOf("products"), products |-> SourceRows, twice |-> ListedTwice]
  <2>1. PICK l, products : /\ products = SourceRows
                           /\ l = [pc |-> "categories", files |-> FullOf("products"), products |-> products, twice |-> ListedTwice]
    OBVIOUS
  <2>2. lab' = l /\ l.pc = "categories" /\ l.products = products BY <1>4, <2>1
  <2>3. Numbers(products) BY <2>1, SourceRowsAreNumbers
  <2> QED BY <1>1, <1>2, <2>2, <2>3 DEF LabIsSound
<1>6. CASE lab.pc = "categories" /\ \E listed : lab' = [pc |-> "relations", files |-> lab.files, products |-> lab.products,
                                                        twice |-> lab.twice, listed |-> listed]
  <2>1. lab'.pc = "relations" /\ lab'.products = lab.products BY <1>6
  <2>2. Numbers(lab.products) BY <1>6 DEF LabIsSound
  <2> QED BY <1>1, <1>2, <2>1, <2>2 DEF LabIsSound
<1>5. CASE lab.pc = "relations" /\ \E members : Writes(<<"snapshot">>, [snapshot |-> SnapshotOf(lab.files, lab.products, members)])
  <2>1. PICK members : Writes(<<"snapshot">>, [snapshot |-> SnapshotOf(lab.files, lab.products, members)]) BY <1>5
  <2>2. PICK x, content : x = SnapshotOf(lab.files, lab.products, members) /\ content = [snapshot |-> x] OBVIOUS
  <2>3. DOMAIN x.rows = lab.products BY <2>2 DEF SnapshotOf
  <2>4. PaperIsSound("snapshot", x) BY <1>5, <2>3 DEF LabIsSound, PaperIsSound
  <2>5. PICK names : names = <<"snapshot">> OBVIOUS
  <2>6. names \in Lists /\ DOMAIN names = {1} /\ names[1] = "snapshot" BY <2>5 DEF Lists
  <2>7. content["snapshot"] = x BY <2>2
  <2>8. \A i \in DOMAIN names : PaperIsSound(names[i], content[names[i]]) BY <2>4, <2>6, <2>7
  <2>9. Writes(names, content) BY <2>1, <2>2, <2>5
  <2> QED BY <1>1, <1>2, <2>6, <2>8, <2>9, WritingBegins
<1> QED BY <1>3, <1>4, <1>5, <1>6 DEF BeginProjection, ProjectCategories, ProjectRelations

LEMMA PinStep ==
  ASSUME PinsAreSound, PapersAreSound, LabIsSound, NEW name \in {"snapshot", "final"}, Pin(name)
  PROVE  PinsAreSound' /\ PapersAreSound' /\ LabIsSound'
<1>1. UNCHANGED lab /\ UNCHANGED papers /\ pins' = [pins EXCEPT ![name] = papers[name]] /\ pins[name] = NoSheet
      /\ name \in PaperNames /\ Whole(name)
  BY DEF Pin, PaperNames
<1>2. DOMAIN pins = {"snapshot", "final"} BY DEF PinsAreSound
<1>3. PinsStay BY <1>1, <1>2 DEF PinsStay
<1>4. name = "snapshot" => Numbers(DOMAIN papers["snapshot"].rows) BY <1>1 DEF PapersAreSound, PaperIsSound
<1>5. PinsAreSound' BY <1>1, <1>2, <1>4 DEF PinsAreSound
<1> QED BY <1>1, <1>3, <1>5, LabRests, PapersRest

\* The cases and their review.
LEMMA CaseSteps ==
  ASSUME PinsAreSound, PapersAreSound, LabIsSound, BuildDraft \/ FillReview \/ FinalizeCases
  PROVE  PapersAreSound' /\ LabIsSound' /\ UNCHANGED pins
<1>1. CASE BuildDraft
  <2>1. UNCHANGED papers /\ UNCHANGED pins /\ PinsStay BY <1>1 DEF BuildDraft, PinsStay
  <2>2. IsPinned
    <3>1. pins.snapshot # NoSheet BY <1>1 DEF BuildDraft, Whole
    <3> QED BY <1>1, <3>1 DEF BuildDraft, IsPinned, PinsAreSound
  <2>3. PICK d, v, content : d = PinnedCases /\ v = BlankReview(d) /\ content = [draft |-> d, review |-> v] OBVIOUS
  <2>4. PICK names : names = <<"draft", "review">> OBVIOUS
  <2>5. Writes(names, content) BY <1>1, <2>3, <2>4 DEF BuildDraft, PinnedCases
  <2>6. v = [cases |-> d, decision |-> "blank", held |-> {}] BY <2>3 DEF BlankReview
  <2>7. v \in ReviewsOf({"blank", "APPROVE", "REJECT"}) BY <2>3, <2>6 DEF ReviewsOf
  <2>8. PaperIsSound("draft", d) /\ PaperIsSound("review", v) BY <2>2, <2>3, <2>7 DEF PaperIsSound
  <2>9. names \in Lists /\ DOMAIN names = {1, 2} /\ names[1] = "draft" /\ names[2] = "review" BY <2>4 DEF Lists
  <2>10. content["draft"] = d /\ content["review"] = v BY <2>3
  <2>11. \A i \in DOMAIN names : PaperIsSound(names[i], content[names[i]]) BY <2>8, <2>9, <2>10
  <2> QED BY <2>1, <2>5, <2>9, <2>11, WritingBegins, PapersRest
<1>2. CASE FillReview
  <2>1. UNCHANGED lab /\ UNCHANGED pins /\ PinsStay BY <1>2 DEF FillReview, PinsStay
  <2>2. PICK decision \in {"APPROVE", "REJECT"}, held \in SUBSET Holdable :
          papers' = [papers EXCEPT !["review"].decision = decision, !["review"].held = held]
    BY <1>2 DEF FillReview
  <2>3. PICK v, x : v = papers["review"] /\ x = [v EXCEPT !.decision = decision, !.held = held] OBVIOUS
  <2>4. PaperIsSound("review", v) BY <1>2, <2>3 DEF FillReview, PapersAreSound, PaperNames
  <2>5. IsPinned /\ v \in ReviewsOf({"blank", "APPROVE", "REJECT"}) BY <2>4 DEF PaperIsSound
  <2>6. x \in ReviewsOf({"blank", "APPROVE", "REJECT"}) BY <2>3, <2>5 DEF ReviewsOf
  <2>7. PaperIsSound("review", x) BY <2>5, <2>6 DEF PaperIsSound
  <2>8. papers' = [papers EXCEPT !["review"] = x]
    <3>1. "review" \in DOMAIN papers BY DEF PapersAreSound, PaperNames
    <3> QED BY <2>2, <2>3, <3>1
  <2>9. "review" \in PaperNames BY DEF PaperNames
  <2> QED BY <2>1, <2>7, <2>8, <2>9, PaperIsWritten, LabRests
<1>3. CASE FinalizeCases
  <2>1. UNCHANGED papers /\ UNCHANGED pins /\ PinsStay BY <1>3 DEF FinalizeCases, PinsStay
  <2>2. PICK d, v, c, x : /\ d = papers["draft"] /\ v = papers["review"] /\ c = Reviewed(d, v)
                          /\ x = [cases |-> c, review |-> v]
    OBVIOUS
  <2>3. PaperIsSound("draft", d) /\ PaperIsSound("review", v)
    BY <1>3, <2>2 DEF FinalizeCases, PapersAreSound, PaperNames
  <2>4. IsPinned /\ d = PinnedCases /\ v \in ReviewsOf({"blank", "APPROVE", "REJECT"})
    BY <2>3 DEF PaperIsSound
  <2>5. v.decision = "APPROVE" BY <1>3, <2>2 DEF FinalizeCases, Takes
  <2>6. v \in Approvals BY <2>4, <2>5 DEF Approvals, ReviewsOf
  <2>7. PaperIsSound("final", x) BY <2>2, <2>4, <2>6 DEF PaperIsSound
  <2>8. PICK names, content : names = <<"final">> /\ content = [final |-> x] OBVIOUS
  <2>9. Writes(names, content) BY <1>3, <2>2, <2>8 DEF FinalizeCases
  <2>10. names \in Lists /\ DOMAIN names = {1} /\ names[1] = "final" /\ content["final"] = x BY <2>8 DEF Lists
  <2>11. \A i \in DOMAIN names : PaperIsSound(names[i], content[names[i]]) BY <2>7, <2>10
  <2> QED BY <2>1, <2>9, <2>10, <2>11, WritingBegins, PapersRest
<1> QED BY <1>1, <1>2, <1>3

\* An evaluation begins with what was pinned.
LEMMA EvaluationBegins ==
  ASSUME PinsAreSound, PapersAreSound, LabIsSound, NEW kind \in {"search", "rerank"}, BeginEvaluation(kind)
  PROVE  PapersAreSound' /\ LabIsSound' /\ UNCHANGED pins
<1>1. UNCHANGED papers /\ UNCHANGED pins /\ PinsStay BY DEF BeginEvaluation, PinsStay
<1>2. PapersAreSound' BY <1>1, PapersRest
<1>3. CASE Ends BY <1>1, <1>2, <1>3, LabEnds
<1>4. CASE ~Ends
  <2>1. PICK f, s : f = papers["final"] /\ s = papers["snapshot"] OBVIOUS
  <2>2. Whole("final") /\ s = pins.snapshot BY <1>4, <2>1 DEF BeginEvaluation
  <2>3. PaperIsSound("final", f) BY <2>1, <2>2 DEF PapersAreSound, PaperNames
  <2>4. IsPinned /\ f.review \in Approvals /\ f.cases = Reviewed(PinnedCases, f.review) BY <2>3 DEF PaperIsSound
  <2>5. PICK l : l = [pc |-> kind, cases |-> f.cases, review |-> f.review, version |-> s.version,
                      products |-> DOMAIN s.rows, rows |-> <<>>, last |-> <<>>, attempts |-> 0]
    OBVIOUS
  <2>6. lab' = l BY <1>4, <2>1, <2>5 DEF BeginEvaluation
  <2>7. /\ l.pc = kind /\ l.cases = f.cases /\ l.review = f.review /\ l.version = s.version
        /\ l.products = DOMAIN s.rows /\ l.rows = <<>> /\ l.last = <<>>
        /\ {"pc", "cases", "review", "version", "products", "rows", "last", "attempts"} \subseteq DOMAIN l
    BY <2>5
  <2>8. OfPinned(l) BY <2>2, <2>4, <2>7 DEF OfPinned
  <2>9. LabRuns(l) BY <2>2, <2>7, <2>8 DEF LabRuns
  <2>10. PinnedCases' = PinnedCases /\ (IsPinned <=> IsPinned') BY <1>1 DEF PinnedCases, Drafted, IsPinned
  <2>11. LabRuns(l)' BY <1>1, <2>9, <2>10 DEF LabRuns, OfPinned, Approvals, ReviewsOf
  <2>12. l.rows \in Seq(SearchRows) /\ Len(l.rows) = 0 /\ l.rows \in Seq(RerankRows) BY <2>7
  <2>13. CaseCount \in Nat BY EvaluationAssumption
  <2>14. l.pc # "score" BY <2>7
  <2>15. LabSearches(l)' /\ LabReranks(l)' BY <2>7, <2>11, <2>12, <2>13, <2>14 DEF LabSearches, LabReranks
  <2> QED BY <1>1, <1>2, <2>6, <2>7, <2>15 DEF LabIsSound
<1> QED BY <1>3, <1>4

\* A run goes on: it keeps what it is of.
LEMMA RunGoesOn ==
  ASSUME UNCHANGED pins, NEW l, NEW k, LabRuns(l),
         {"pc", "cases", "review", "version", "products", "rows", "last", "attempts"} \subseteq DOMAIN k,
         k.cases = l.cases, k.review = l.review, k.version = l.version, k.products = l.products
  PROVE  LabRuns(k)'
<1>1. PinnedCases' = PinnedCases /\ (IsPinned <=> IsPinned') BY DEF PinnedCases, Drafted, IsPinned
<1> QED BY <1>1 DEF LabRuns, OfPinned, Approvals, ReviewsOf

LEMMA ProductsAreNumbers ==
  ASSUME NEW l, LabRuns(l) PROVE l.products \in SUBSET Nat
BY DEF LabRuns, OfPinned, IsPinned, Numbers

LEMMA SearchSteps ==
  ASSUME PapersAreSound, LabIsSound, SearchCase \/ RecordCase
  PROVE  PapersAreSound' /\ LabIsSound' /\ UNCHANGED pins
<1>1. UNCHANGED papers /\ UNCHANGED pins /\ PinsStay BY DEF SearchCase, RecordCase, PinsStay
<1>2. PapersAreSound' BY <1>1, PapersRest
<1>3. PICK l, k : l = lab /\ k = lab' OBVIOUS
<1>4. l.pc = "search" /\ LabSearches(l) BY <1>3 DEF SearchCase, RecordCase, LabIsSound
<1>5. /\ LabRuns(l) /\ l.rows \in Seq(SearchRows)
      /\ {"pc", "cases", "review", "version", "products", "rows", "last", "attempts"} \subseteq DOMAIN l
  BY <1>4 DEF LabSearches, LabRuns
<1>6. CaseCount \in Nat /\ Len(l.rows) \in Nat BY <1>5, EvaluationAssumption
<1>7. CASE SearchCase
  <2>1. PICK bm25 \in SearchesOf(l.products), dense \in SearchesOf(l.products) : k = [l EXCEPT !.last = <<bm25, dense>>]
    BY <1>3, <1>7 DEF SearchCase
  <2>2. Len(l.rows) < CaseCount BY <1>3, <1>7 DEF SearchCase, MoreCases
  <2>3. /\ k.pc = "search" /\ k.cases = l.cases /\ k.review = l.review /\ k.version = l.version
        /\ k.products = l.products /\ k.rows = l.rows /\ k.last = <<bm25, dense>> /\ DOMAIN k = DOMAIN l
    BY <1>4, <1>5, <2>1
  <2>4. LabRuns(k)' BY <1>1, <1>5, <2>3, RunGoesOn
  <2>5. LabSearches(k)' BY <1>5, <1>6, <2>1, <2>2, <2>3, <2>4 DEF LabSearches
  <2> QED BY <1>1, <1>2, <1>3, <2>3, <2>5 DEF LabIsSound
<1>8. CASE RecordCase
  <2>1. PICK bm25 \in SearchesOf(l.products), dense \in SearchesOf(l.products) : l.last = <<bm25, dense>>
    <3>1. l.last \in SearchesOf(l.products) \X SearchesOf(l.products) BY <1>3, <1>4, <1>8 DEF RecordCase, LabSearches
    <3>2. PICK S : S = SearchesOf(l.products) OBVIOUS
    <3>3. \E x \in S, y \in S : l.last = <<x, y>> BY <3>1, <3>2
    <3> QED BY <3>2, <3>3
  <2>10. Len(l.rows) < CaseCount BY <1>3, <1>4, <1>8 DEF RecordCase, LabSearches
  <2>11. NextCase.answerable \in BOOLEAN
    <3>1. Len(l.rows) + 1 \in 1 .. CaseCount BY <1>6, <2>10
    <3>2. DOMAIN PinnedCases = 1 .. CaseCount BY DEF PinnedCases, Drafted
    <3>3. l.cases = Reviewed(PinnedCases, l.review) BY <1>5 DEF LabRuns, OfPinned
    <3>4. PICK i, d : i = Len(l.rows) + 1 /\ d = PinnedCases OBVIOUS
    <3>5. i \in DOMAIN d BY <3>1, <3>2, <3>4
    <3>6. l.cases[i] = [product |-> d[i].product, version |-> d[i].version, answerable |-> i \notin l.review.held]
      BY <3>3, <3>4, <3>5 DEF Reviewed
    <3>7. NextCase = l.cases[i] BY <1>3, <3>4 DEF NextCase
    <3> QED BY <3>6, <3>7
  <2>2. PICK raises, row : /\ raises \in BOOLEAN /\ row = RowsOf(l.last[1], l.last[2], raises, NextCase, l.version)
                            /\ lab' = [lab EXCEPT !.rows = Append(@, row), !.last = <<>>]
    BY <1>3, <1>8 DEF RecordCase
  <2>3. row \in SearchRows BY <1>5, <2>1, <2>2, <2>11, ProductsAreNumbers, RowsAreSound
  <2>4. k = [l EXCEPT !.rows = Append(l.rows, row), !.last = <<>>] BY <1>3, <2>2
  <2>5. /\ k.pc = "search" /\ k.cases = l.cases /\ k.review = l.review /\ k.version = l.version
        /\ k.products = l.products /\ k.rows = Append(l.rows, row) /\ k.last = <<>> /\ DOMAIN k = DOMAIN l
    BY <1>4, <1>5, <2>4
  <2>7. k.rows \in Seq(SearchRows) /\ Len(k.rows) = Len(l.rows) + 1 BY <1>5, <2>3, <2>5
  <2>8. LabRuns(k)' BY <1>1, <1>5, <2>5, RunGoesOn
  <2>9. LabSearches(k)' BY <1>6, <2>5, <2>7, <2>8, <2>10 DEF LabSearches
  <2> QED BY <1>1, <1>2, <1>3, <2>5, <2>9 DEF LabIsSound
<1> QED BY <1>7, <1>8

LEMMA RerankSteps ==
  ASSUME PapersAreSound, LabIsSound, SearchForRerank \/ ScoreOnce
  PROVE  PapersAreSound' /\ LabIsSound' /\ UNCHANGED pins
<1>1. UNCHANGED papers /\ UNCHANGED pins /\ PinsStay BY DEF SearchForRerank, ScoreOnce, PinsStay
<1>2. PapersAreSound' BY <1>1, PapersRest
<1>3. PICK l, k : l = lab /\ k = lab' OBVIOUS
<1>4. l.pc \in {"rerank", "score"} /\ LabReranks(l) BY <1>3 DEF SearchForRerank, ScoreOnce, LabIsSound
<1>5. /\ LabRuns(l) /\ l.rows \in Seq(RerankRows)
      /\ {"pc", "cases", "review", "version", "products", "rows", "last", "attempts"} \subseteq DOMAIN l
  BY <1>4 DEF LabReranks, LabRuns
<1>6. CaseCount \in Nat /\ Len(l.rows) \in Nat BY <1>5, EvaluationAssumption
<1>7. CASE SearchForRerank
  <2>1. PICK list \in RankedLists(l.products) : k = [l EXCEPT !.pc = "score", !.last = list]
    BY <1>3, <1>7 DEF SearchForRerank
  <2>2. Len(l.rows) < CaseCount BY <1>3, <1>7 DEF SearchForRerank, MoreCases
  <2>3. /\ k.pc = "score" /\ k.cases = l.cases /\ k.review = l.review /\ k.version = l.version
        /\ k.products = l.products /\ k.rows = l.rows /\ k.last = list /\ DOMAIN k = DOMAIN l
    BY <1>5, <2>1
  <2>4. LabRuns(k)' BY <1>1, <1>5, <2>3, RunGoesOn
  <2>5. LabReranks(k)' BY <1>5, <1>6, <2>1, <2>2, <2>3, <2>4 DEF LabReranks
  <2> QED BY <1>1, <1>2, <1>3, <2>3, <2>5 DEF LabIsSound
<1>8. CASE ScoreOnce
  <2>1. l.pc = "score" BY <1>3, <1>8 DEF ScoreOnce
  <2>5. l.last \in RankedLists(l.products) /\ Len(l.rows) < CaseCount BY <1>4, <2>1 DEF LabReranks
  <2>2. ASSUME NEW status, NEW list, Reranked(status, list),
               \/ l.last = <<>> /\ status = "NO_CANDIDATES" /\ list = <<>>
               \/ status = "RERANKED" /\ list \in Orders(l.last)
               \/ status = "FALLBACK" /\ list = l.last
        PROVE  LabIsSound'
    <3>1. PICK case, row : case = NextCase /\ row = RerankRow(l.last, status, list, case, l.version) OBVIOUS
    <3>2. row \in RerankRows BY <2>5, <2>2, <3>1, RerankRowFacts
    <3>3. k = [l EXCEPT !.pc = "rerank", !.last = <<>>, !.attempts = 0, !.rows = Append(l.rows, row)]
      BY <1>3, <2>2, <3>1 DEF Reranked
    <3>4. /\ k.pc = "rerank" /\ k.cases = l.cases /\ k.review = l.review /\ k.version = l.version
          /\ k.products = l.products /\ k.rows = Append(l.rows, row) /\ DOMAIN k = DOMAIN l
      BY <1>5, <3>3
    <3>5. k.rows \in Seq(RerankRows) /\ Len(k.rows) = Len(l.rows) + 1 BY <1>5, <3>2, <3>4
    <3>6. LabRuns(k)' BY <1>1, <1>5, <3>4, RunGoesOn
    <3>7. LabReranks(k)' BY <1>6, <2>5, <3>4, <3>5, <3>6 DEF LabReranks
    <3> QED BY <1>3, <3>4, <3>7 DEF LabIsSound
  <2>3. CASE NotScored
    <3>1. k = [l EXCEPT !.attempts = @ + 1] BY <1>3, <2>3 DEF NotScored
    <3>2. /\ k.pc = l.pc /\ k.cases = l.cases /\ k.review = l.review /\ k.version = l.version
          /\ k.products = l.products /\ k.rows = l.rows /\ k.last = l.last /\ DOMAIN k = DOMAIN l
      BY <3>1
    <3>3. LabRuns(k)' BY <1>1, <1>5, <3>2, RunGoesOn
    <3>4. LabReranks(k)' BY <1>5, <2>5, <3>2, <3>3, <1>6 DEF LabReranks
    <3> QED BY <1>1, <1>2, <1>3, <2>1, <3>2, <3>4 DEF LabIsSound
  <2>4. CASE NoCandidates \/ Scored \/ FallsBack
    <3>1. LabIsSound' BY <1>3, <2>2, <2>4 DEF NoCandidates, Scored, FallsBack
    <3> QED BY <1>1, <1>2, <3>1
  <2> QED BY <1>8, <2>3, <2>4 DEF ScoreOnce
<1> QED BY <1>7, <1>8

\* A run is published when every case was recorded.
LEMMA Publications ==
  ASSUME PapersAreSound, LabIsSound, PublishSearches \/ PublishReranked
  PROVE  PapersAreSound' /\ LabIsSound' /\ UNCHANGED pins
<1>1. UNCHANGED papers /\ UNCHANGED pins /\ PinsStay BY DEF PublishSearches, PublishReranked, PinsStay
<1>2. PapersAreSound' BY <1>1, PapersRest
<1>3. ASSUME NEW counts
      PROVE  LET c == ConfigurationOf(lab, counts) IN
             c.cases = lab.cases /\ c.review = lab.review /\ c.version = lab.version /\ c.rows = lab.rows /\ c.summary = counts
  BY DEF ConfigurationOf
<1>4. OfPinned(lab) /\ CaseCount \in Nat
  BY EvaluationAssumption DEF PublishSearches, PublishReranked, LabIsSound, LabSearches, LabReranks, LabRuns
<1>5. CASE PublishSearches
  <2>1. PICK x : x = ConfigurationOf(lab, Summarized(lab.rows)) OBVIOUS
  <2>2. lab.rows \in Seq(SearchRows) /\ Len(lab.rows) <= CaseCount /\ ~(Len(lab.rows) < CaseCount)
    BY <1>5 DEF PublishSearches, LabIsSound, LabSearches, MoreCases
  <2>3. Len(lab.rows) = CaseCount BY <1>4, <2>2
  <2>4. PaperIsSound("result", x) BY <1>3, <1>4, <2>1, <2>2, <2>3 DEF PaperIsSound, OfPinned
  <2>5. PICK names, content : names = <<"result">> /\ content = [result |-> x] OBVIOUS
  <2>6. Writes(names, content) BY <1>5, <2>1, <2>5 DEF PublishSearches
  <2>7. names \in Lists /\ DOMAIN names = {1} /\ names[1] = "result" /\ content["result"] = x BY <2>5 DEF Lists
  <2>8. \A i \in DOMAIN names : PaperIsSound(names[i], content[names[i]]) BY <2>4, <2>7
  <2> QED BY <1>1, <1>2, <2>6, <2>7, <2>8, WritingBegins
<1>6. CASE PublishReranked
  <2>1. PICK x : x = ConfigurationOf(lab, RerankSummarized(lab.rows)) OBVIOUS
  <2>2. lab.rows \in Seq(RerankRows) /\ Len(lab.rows) <= CaseCount /\ ~(Len(lab.rows) < CaseCount)
    BY <1>6 DEF PublishReranked, LabIsSound, LabReranks, MoreCases
  <2>3. Len(lab.rows) = CaseCount BY <1>4, <2>2
  <2>4. PaperIsSound("summary", x) BY <1>3, <1>4, <2>1, <2>2, <2>3 DEF PaperIsSound, OfPinned
  <2>5. PICK names, content : names = <<"summary">> /\ content = [summary |-> x] OBVIOUS
  <2>6. Writes(names, content) BY <1>6, <2>1, <2>5 DEF PublishReranked
  <2>7. names \in Lists /\ DOMAIN names = {1} /\ names[1] = "summary" /\ content["summary"] = x BY <2>5 DEF Lists
  <2>8. \A i \in DOMAIN names : PaperIsSound(names[i], content[names[i]]) BY <2>4, <2>7
  <2> QED BY <1>1, <1>2, <2>6, <2>7, <2>8, WritingBegins
<1> QED BY <1>5, <1>6

\* Every step of the experiment, and the exports that arrive around it, keep the invariant.
LEMMA EvaluationStep ==
  ASSUME EvaluationInv, \/ LabNext /\ UNCHANGED shelf
                        \/ Shelved /\ UNCHANGED labVars
                        \/ UNCHANGED <<labVars, shelf>>
  PROVE  EvaluationInv'
<1>1. ShelfTypes /\ PinsAreSound /\ PapersAreSound /\ LabIsSound BY DEF EvaluationInv
<1>2. ShelfTypes'
  <2>1. CASE UNCHANGED shelf BY <1>1, <2>1 DEF ShelfTypes
  <2>2. CASE Shelved BY <1>1, <2>2, ShelvedGrows
  <2> QED BY <2>1, <2>2
<1>3. CASE UNCHANGED labVars
  <2>1. UNCHANGED lab /\ UNCHANGED papers /\ UNCHANGED pins /\ PinsStay BY <1>3 DEF labVars, PinsStay
  <2>2. PinsAreSound' BY <1>1, <2>1 DEF PinsAreSound
  <2> QED BY <1>1, <1>2, <2>1, <2>2, LabRests, PapersRest DEF EvaluationInv
<1>4. CASE LabNext
  <2>1. UNCHANGED pins => PinsAreSound' BY <1>1 DEF PinsAreSound
  <2>2. CASE BeginProjection \/ ProjectCategories \/ ProjectRelations BY <1>1, <1>2, <2>1, <2>2, ProjectionSteps DEF EvaluationInv
  <2>3. CASE WritePaper
    <3>1. UNCHANGED pins BY <2>3 DEF WritePaper
    <3> QED BY <1>1, <1>2, <2>1, <2>3, <3>1, WritePaperStep DEF EvaluationInv
  <2>4. CASE \E name \in {"snapshot", "final"} : Pin(name) BY <1>1, <1>2, <2>4, PinStep DEF EvaluationInv
  <2>5. CASE BuildDraft \/ FillReview \/ FinalizeCases BY <1>1, <1>2, <2>1, <2>5, CaseSteps DEF EvaluationInv
  <2>6. CASE \E kind \in {"search", "rerank"} : BeginEvaluation(kind)
    BY <1>1, <1>2, <2>1, <2>6, EvaluationBegins DEF EvaluationInv
  <2>7. CASE SearchCase \/ RecordCase BY <1>1, <1>2, <2>1, <2>7, SearchSteps DEF EvaluationInv
  <2>8. CASE SearchForRerank \/ ScoreOnce BY <1>1, <1>2, <2>1, <2>8, RerankSteps DEF EvaluationInv
  <2>9. CASE PublishSearches \/ PublishReranked BY <1>1, <1>2, <2>1, <2>9, Publications DEF EvaluationInv
  <2>10. CASE LabDies
    <3>1. Ends /\ UNCHANGED papers /\ UNCHANGED pins /\ PinsStay BY <2>10 DEF LabDies, PinsStay
    <3> QED BY <1>1, <1>2, <2>1, <3>1, LabEnds, PapersRest DEF EvaluationInv
  <2> QED BY <1>4, <2>2, <2>3, <2>4, <2>5, <2>6, <2>7, <2>8, <2>9, <2>10 DEF LabNext
<1> QED BY <1>3, <1>4 DEF labVars

\* The invariant says what the evaluations promise.
LEMMA EvaluationImplied ==
  ASSUME EvaluationInv PROVE EvaluationIsAccounted
<1>1. ASSUME NEW name \in PaperNames, Whole(name) PROVE PaperIsSound(name, papers[name])
  BY <1>1 DEF EvaluationInv, PapersAreSound
<1>2. EvaluationIsOfReviewed
  <2> SUFFICES ASSUME NEW name \in {"result", "summary"}, Whole(name)
               PROVE  LET paper == papers[name] IN
                      /\ paper.version = pins.snapshot.version
                      /\ \A i \in 1..CaseCount : /\ paper.cases[i].version = paper.version
                                                 /\ paper.cases[i].product \in DOMAIN pins.snapshot.rows
                      /\ paper.review.decision = "APPROVE"
                      /\ paper.cases = Reviewed(paper.review.cases, paper.review)
    BY DEF EvaluationIsOfReviewed
  <2>1. PICK paper : paper = papers[name] OBVIOUS
  <2>2. OfPinned(paper) BY <1>1, <2>1 DEF PaperNames, PaperIsSound
  <2>3. PICK products : products = DOMAIN pins.snapshot.rows OBVIOUS
  <2>4. /\ paper.version = pins.snapshot.version /\ paper.review \in Approvals
        /\ paper.cases = Reviewed(Drafted(Chosen(products)), paper.review)
        /\ products \in SUBSET Nat /\ IsFiniteSet(products) /\ Cardinality(products) >= CaseCount
    BY <2>2, <2>3 DEF OfPinned, IsPinned, Numbers, PinnedCases
  <2>5. ASSUME NEW i \in 1 .. CaseCount
        PROVE  paper.cases[i].version = paper.version /\ paper.cases[i].product \in products
    <3>1. Chosen(products)[i] \in products BY <2>4, ChosenAreProducts
    <3>2. PICK draft : draft = Drafted(Chosen(products)) OBVIOUS
    <3>3. DOMAIN draft = 1 .. CaseCount /\ draft[i] = [product |-> Chosen(products)[i], version |-> pins.snapshot.version]
      BY <3>2 DEF Drafted
    <3>4. paper.cases[i] = [product |-> draft[i].product, version |-> draft[i].version, answerable |-> i \notin paper.review.held]
      BY <2>4, <3>2, <3>3 DEF Reviewed
    <3> QED BY <2>4, <3>1, <3>3, <3>4
  <2>6. paper.review.decision = "APPROVE" /\ paper.cases = Reviewed(paper.review.cases, paper.review)
    <3>1. paper.review.decision = "APPROVE" /\ paper.review.cases = PinnedCases BY <2>4 DEF Approvals, ReviewsOf
    <3> QED BY <2>2, <3>1 DEF OfPinned
  <2> QED BY <2>1, <2>3, <2>4, <2>5, <2>6
<1>3. SearchesAreAccounted
  <2> SUFFICES ASSUME Whole("result")
               PROVE  LET rows == papers["result"].rows IN
                      /\ Len(rows) = CaseCount
                      /\ \A i \in With(rows, "fused", "SUCCEEDED") : \A n \in {"bm25", "dense"} :
                           rows[i][n].status = "SUCCEEDED" /\ ~rows[i][n].none
                      /\ \A m \in Methods : LET s == papers["result"].summary[m] IN
                           /\ s.attempted = CaseCount /\ s.succeeded + s.error + s.blocked = CaseCount
                           /\ s.answerable + s.hold = s.succeeded
                           /\ s.found <= s.answerable /\ s.found + s.none <= s.succeeded
                           /\ m = "fused" => s.none = 0
    BY DEF SearchesAreAccounted
  <2>1. PICK x, rows : x = papers["result"] /\ rows = x.rows OBVIOUS
  <2>2. rows \in Seq(SearchRows) /\ Len(rows) = CaseCount /\ x.summary = Summarized(rows)
    BY <1>1, <2>1 DEF PaperNames, PaperIsSound
  <2>3. ASSUME NEW m \in Methods
        PROVE  LET s == x.summary[m] IN
               /\ s.attempted = CaseCount /\ s.succeeded + s.error + s.blocked = CaseCount
               /\ s.answerable + s.hold = s.succeeded
               /\ s.found <= s.answerable /\ s.found + s.none <= s.succeeded
               /\ m = "fused" => s.none = 0
    <3>1. PICK s : s = Summarized(rows)[m] OBVIOUS
    <3> QED BY <2>2, <3>1, SummaryFacts
  <2>5. ASSUME NEW i \in With(rows, "fused", "SUCCEEDED"), NEW n \in {"bm25", "dense"}
        PROVE  rows[i][n].status = "SUCCEEDED" /\ ~rows[i][n].none
    <3>1. i \in DOMAIN rows /\ rows[i]["fused"].status = "SUCCEEDED" BY <2>5 DEF With
    <3>2. rows[i] \in SearchRows BY <2>2, <3>1
    <3> QED BY <3>1, <3>2 DEF SearchRows
  <2> QED BY <2>1, <2>2, <2>3, <2>5
<1>4. ASSUME lab.pc = "search", lab.last # <<>>
      PROVE  LET a     == lab.last[1].list
                 b     == lab.last[2].list
                 fused == Fused(a, b)
                 Ahead(list, p, q) == RankIn(list, p) # 0 /\ (RankIn(list, q) = 0 \/ RankIn(list, p) < RankIn(list, q)) IN
             /\ Entries(fused) = Entries(a) \union Entries(b)
             /\ \A i, j \in DOMAIN fused : i < j => fused[i] # fused[j] /\ FusedBefore(a, b, fused[i], fused[j])
             /\ \A p, q \in Entries(fused) : Ahead(a, p, q) /\ Ahead(b, p, q) => Ahead(fused, p, q)
  <2>1. PICK products, a, b, f : /\ products = lab.products /\ a = lab.last[1].list /\ b = lab.last[2].list
                                 /\ f = Fused(a, b)
    OBVIOUS
  <2>2. products \in SUBSET Nat /\ lab.last \in SearchesOf(products) \X SearchesOf(products)
    BY <1>4, <2>1, ProductsAreNumbers DEF EvaluationInv, LabIsSound, LabSearches
  <2>3. ASSUME NEW s \in SearchesOf(products) PROVE s.list \in RankedLists(products)
    <3>1. CASE s = Raised
      <4>1. s.list = <<>> BY <3>1 DEF Raised
      <4>2. <<>> \in [1 .. 0 -> products] /\ 0 \in 0 .. CandidateTop BY EvaluationAssumption
      <4>3. <<>> \in UNION {[1 .. n -> products] : n \in 0 .. CandidateTop} BY <4>2
      <4> QED BY <4>1, <4>3 DEF RankedLists
    <3>2. CASE s # Raised BY <3>2 DEF SearchesOf
    <3> QED BY <3>1, <3>2
  <2>4. a \in RankedLists(products) /\ b \in RankedLists(products) BY <2>1, <2>2, <2>3
  <2>5. PICK m, n : m = Len(a) /\ n = Len(b) OBVIOUS
  <2>6. m \in Nat /\ DOMAIN a = 1 .. m /\ n \in Nat /\ DOMAIN b = 1 .. n BY <2>4, <2>5, RankedListFacts
  <2>7. ASSUME NEW p \in Entries(f), NEW q \in Entries(f),
               RankIn(a, p) # 0, RankIn(a, q) = 0 \/ RankIn(a, p) < RankIn(a, q),
               RankIn(b, p) # 0, RankIn(b, q) = 0 \/ RankIn(b, p) < RankIn(b, q)
        PROVE  RankIn(f, p) # 0 /\ RankIn(f, p) < RankIn(f, q)
    <3>1. FusedBefore(a, b, p, q) BY <2>6, <2>7, AheadIsBefore
    <3>2. p \in EitherHas(a, b) /\ q \in EitherHas(a, b) BY <2>1, <2>2, <2>4, <2>7, FusedFacts
    <3> QED BY <2>1, <2>2, <2>4, <3>1, <3>2, FusedFacts
  <2>8. /\ Entries(f) = Entries(a) \union Entries(b)
        /\ \A i, j \in DOMAIN f : i < j => f[i] # f[j] /\ FusedBefore(a, b, f[i], f[j])
    <3>1. /\ Entries(Fused(a, b)) = EitherHas(a, b)
          /\ \A i, j \in DOMAIN Fused(a, b) :
               i < j => Fused(a, b)[i] # Fused(a, b)[j] /\ FusedBefore(a, b, Fused(a, b)[i], Fused(a, b)[j])
      BY <2>2, <2>4, FusedFacts
    <3> QED BY <2>1, <3>1 DEF EitherHas
  <2> QED BY <2>1, <2>7, <2>8
<1>5. FusionIsComplete BY <1>4 DEF FusionIsComplete
<1>6. RerankingIsAccounted
  <2> SUFFICES ASSUME Whole("summary")
               PROVE  /\ Len(papers["summary"].rows) = CaseCount
                      /\ \A i \in DOMAIN papers["summary"].rows : LET row == papers["summary"].rows[i] IN
                           /\ row.after > 0 => row.candidate
                           /\ row.status = "FALLBACK" => row.after = row.before
                      /\ LET s == papers["summary"].summary IN
                           /\ s.after + s.missed <= CaseCount
                           /\ s.after + s.fallbacks <= s.before + CaseCount
                           /\ s.before + s.fallbacks <= s.after + CaseCount
    BY DEF RerankingIsAccounted
  <2>1. PICK x, rows : x = papers["summary"] /\ rows = x.rows OBVIOUS
  <2>2. rows \in Seq(RerankRows) /\ Len(rows) = CaseCount /\ x.summary = RerankSummarized(rows)
    BY <1>1, <2>1 DEF PaperNames, PaperIsSound
  <2>3. \A i \in DOMAIN rows : rows[i] \in RerankRows BY <2>2
  <2> QED BY <2>1, <2>2, <2>3, RerankSummaryFacts DEF RerankRows
<1> QED BY <1>2, <1>3, <1>5, <1>6 DEF EvaluationIsAccounted

-----------------------------------------------------------------------------
(* CatalogHandoff: the inductive invariant                                 *)

\* Every product was observed at its time, in a file of the pattern it was read
\* by, and later observations change nothing about that.
TimeOf(i, n) == IF shelf[i].rows[n].updated = 0 THEN i ELSE shelf[i].rows[n].updated

Observed(full, products) ==
  \A p \in DOMAIN products : \E i \in DOMAIN shelf :
    /\ shelf[i].kind = "products" /\ (full => shelf[i].full)
    /\ \E n \in DOMAIN shelf[i].rows : shelf[i].rows[n].id = p /\ TimeOf(i, n) = products[p].at

\* Products read by the same pattern are all listed again, and not as of earlier.
NotBefore(full, products) ==
  Readable("artifact") /\ sheets["artifact"].full = full =>
    \A p \in DOMAIN sheets["artifact"].products :
      p \in DOMAIN products /\ products[p].at >= sheets["artifact"].products[p].at

SheetLists == {SheetNames, <<"validation", "manifest">>, <<"manifest">>}

CatalogerIsSound ==
  /\ cataloger.pc \in {"idle", "categories", "relations", "write"}
  /\ cataloger.pc \in {"categories", "relations"} =>
       Observed(cataloger.full, cataloger.latest) /\ NotBefore(cataloger.full, cataloger.latest)
  /\ cataloger.pc = "write" =>
       /\ {"open", "left"} \subseteq DOMAIN cataloger /\ cataloger.left \in SheetLists
       /\ Observed(cataloger.catalog.full, cataloger.catalog.products)
       /\ CategoriesAreListed(cataloger.catalog)
       /\ cataloger.left = SheetNames => NotBefore(cataloger.catalog.full, cataloger.catalog.products)
       /\ cataloger.left # SheetNames => sheets["artifact"] = cataloger.catalog
       /\ cataloger.left = <<"manifest">> => sheets["validation"].of = cataloger.catalog

SheetsAreSound ==
  /\ DOMAIN sheets = {"artifact", "validation", "manifest"}
  /\ Readable("artifact") => /\ Observed(sheets["artifact"].full, sheets["artifact"].products)
                             /\ CategoriesAreListed(sheets["artifact"])
  /\ Readable("manifest") => sheets["manifest"].validation.of = sheets["manifest"].artifact

CatalogInv == ShelfTypes /\ CatalogerIsSound /\ SheetsAreSound

-----------------------------------------------------------------------------
(* The latest observations                                                 *)

LEMMA ObservationFacts ==
  ASSUME ShelfTypes, NEW i \in DOMAIN shelf, NEW o \in ObservationsIn(i)
  PROVE  /\ o.batch = i /\ o.batch \in Nat /\ o.sequence \in Nat /\ o.at \in Nat
         /\ o.sequence \in DOMAIN shelf[i].rows /\ o.row = shelf[i].rows[o.sequence] /\ o.at = TimeOf(i, o.sequence)
<1>1. PICK n \in DOMAIN shelf[i].rows :
        o = [row |-> shelf[i].rows[n], batch |-> i, sequence |-> n,
             at |-> IF shelf[i].rows[n].updated = 0 THEN i ELSE shelf[i].rows[n].updated]
  BY DEF ObservationsIn
<1>2. i \in Nat BY ShelfSize
<1>3. n \in Nat /\ shelf[i].rows[n].updated \in Nat BY RowsAreListed
<1> QED BY <1>1, <1>2, <1>3 DEF TimeOf

\* _latest_by_identity finds for every identity an observation of it that no other
\* of it is later than.
LEMMA LatestFacts ==
  ASSUME ShelfTypes, NEW kind, NEW id \in DOMAIN LatestByIdentity(Observations(kind))
  PROVE  LET o == LatestByIdentity(Observations(kind))[id] IN
         /\ o \in Observations(kind) /\ o.row.id = id
         /\ \A p \in Observations(kind) : p.row.id = id => o.at >= p.at
<1>1. PICK K, all, S : K = FilesOf(kind) /\ all = Observations(kind) /\ S = {o \in all : o.row.id = id} OBVIOUS
<1>2. K \in SUBSET DOMAIN shelf BY <1>1 DEF FilesOf, FullOf
<1>3. all = UNION {ObservationsIn(i) : i \in K} BY <1>1 DEF Observations
<1>4. IsFiniteSet(S)
  <2>1. IsFiniteSet(all) BY <1>2, <1>3, ObservationsAreFinite
  <2> QED BY <1>1, <2>1, FS_Subset
<1>5. S # {} BY <1>1 DEF LatestByIdentity
<1>6. \A o \in S : o.at \in Nat /\ o.batch \in Nat /\ o.sequence \in Nat BY <1>1, <1>2, <1>3, ObservationFacts
<1>7. ASSUME NEW o \in S, NEW p \in S, o.batch = p.batch, o.sequence = p.sequence PROVE o = p
  <2>1. PICK i \in K, j \in K : o \in ObservationsIn(i) /\ p \in ObservationsIn(j) BY <1>1, <1>3
  <2>2. i = j BY <1>2, <1>7, <2>1, ObservationFacts
  <2>3. PICK n \in DOMAIN shelf[i].rows :
        o = [row |-> shelf[i].rows[n], batch |-> i, sequence |-> n,
             at |-> IF shelf[i].rows[n].updated = 0 THEN i ELSE shelf[i].rows[n].updated]
    BY <2>1 DEF ObservationsIn
  <2>4. PICK m \in DOMAIN shelf[i].rows :
        p = [row |-> shelf[i].rows[m], batch |-> i, sequence |-> m,
             at |-> IF shelf[i].rows[m].updated = 0 THEN i ELSE shelf[i].rows[m].updated]
    BY <2>1, <2>2 DEF ObservationsIn
  <2>5. o.sequence = n /\ p.sequence = m BY <2>3, <2>4
  <2>6. n = m BY <1>7, <2>5
  <2> QED BY <2>3, <2>4, <2>6
<1>8. PICK R : R = {r \in S \X S : IsLater(r[1], r[2])} OBVIOUS
<1>9. /\ \A o \in S : ~IsLater(o, o)
      /\ \A o, p \in S : o # p => IsLater(o, p) \/ IsLater(p, o)
      /\ \A o, p, q \in S : IsLater(o, p) /\ IsLater(p, q) => IsLater(o, q)
      /\ \A o, p \in S : IsLater(o, p) => o.at >= p.at
  BY <1>6, <1>7 DEF IsLater
<1>10. StrictOrder(S, R)
  <2>1. \A o, p \in S : <<o, p>> \in R <=> IsLater(o, p) BY <1>8
  <2>2. R \subseteq S \X S BY <1>8
  <2> QED BY <1>9, <2>1, <2>2 DEF StrictOrder
<1>11. PICK o \in S : \A p \in S : p # o => IsLater(o, p)
  <2>1. 1 \in 1 .. Cardinality(S) BY <1>4, <1>5, FS_EmptySet, FS_CardinalityType
  <2>2. PICK o \in S : Cardinality(Earlier(S, R, o)) = 1 - 1 BY <1>4, <1>10, <2>1, PositionIsTaken
  <2>3. IsFiniteSet(Earlier(S, R, o)) BY <1>4, FS_Subset DEF Earlier
  <2>4. Earlier(S, R, o) = {} BY <2>2, <2>3, FS_EmptySet
  <2>5. \A p \in S : ~IsLater(p, o) BY <1>8, <2>4 DEF Earlier
  <2> QED BY <1>9, <2>5
<1>12. PICK latest : latest = LatestByIdentity(all)[id] OBVIOUS
<1>13. latest = CHOOSE x \in all : x.row.id = id /\ \A p \in all : p.row.id = id /\ p # x => IsLater(x, p)
  BY <1>1, <1>12 DEF LatestByIdentity
<1>14. \E x \in all : x.row.id = id /\ \A p \in all : p.row.id = id /\ p # x => IsLater(x, p)
  BY <1>1, <1>11
<1>15. latest \in all /\ latest.row.id = id /\ \A p \in all : p.row.id = id /\ p # latest => IsLater(latest, p)
  BY <1>13, <1>14
<1>16. \A p \in all : p.row.id = id => latest.at >= p.at
  <2> TAKE p \in all
  <2> HAVE p.row.id = id
  <2>1. p \in S /\ latest \in S BY <1>1, <1>15
  <2> QED BY <1>6, <1>9, <1>15, <2>1
<1> QED BY <1>1, <1>12, <1>15, <1>16

\* What a run has read of the products was observed, and not before what an
\* artifact of the same pattern tells.
LEMMA ReadProductsFacts ==
  ASSUME ShelfTypes, SheetsAreSound
  PROVE  LET full   == FullOf("products") # {}
             latest == LatestByIdentity(Observations("products")) IN
         Observed(full, latest) /\ NotBefore(full, latest)
<1>1. PICK full, latest, all : /\ full = (FullOf("products") # {}) /\ all = Observations("products")
                               /\ latest = LatestByIdentity(all)
  OBVIOUS
<1>2. \A i \in FilesOf("products") : i \in DOMAIN shelf /\ shelf[i].kind = "products" /\ (full => shelf[i].full)
  BY <1>1 DEF FilesOf, FullOf
<1>3. ASSUME NEW p \in DOMAIN latest
      PROVE  \E i \in DOMAIN shelf : /\ shelf[i].kind = "products" /\ (full => shelf[i].full)
               /\ \E n \in DOMAIN shelf[i].rows : shelf[i].rows[n].id = p /\ TimeOf(i, n) = latest[p].at
  <2>1. PICK o : o = latest[p] OBVIOUS
  <2>2. o \in all /\ o.row.id = p BY <1>1, <2>1, LatestFacts
  <2>3. PICK i \in FilesOf("products") : o \in ObservationsIn(i) BY <1>1, <2>2 DEF Observations
  <2>4. i \in DOMAIN shelf /\ shelf[i].kind = "products" /\ (full => shelf[i].full) BY <1>2
  <2>5. o.sequence \in DOMAIN shelf[i].rows /\ o.row = shelf[i].rows[o.sequence] /\ o.at = TimeOf(i, o.sequence)
    BY <2>3, <2>4, ObservationFacts
  <2> QED BY <2>1, <2>2, <2>4, <2>5
<1>4. Observed(full, latest) BY <1>3 DEF Observed
<1>5. ASSUME Readable("artifact"), sheets["artifact"].full = full, NEW p \in DOMAIN sheets["artifact"].products
      PROVE  p \in DOMAIN latest /\ latest[p].at >= sheets["artifact"].products[p].at
  <2>1. PICK old : old = sheets["artifact"] OBVIOUS
  <2>2. PICK i \in DOMAIN shelf : /\ shelf[i].kind = "products" /\ (full => shelf[i].full)
               /\ \E n \in DOMAIN shelf[i].rows : shelf[i].rows[n].id = p /\ TimeOf(i, n) = old.products[p].at
    BY <1>5, <2>1 DEF SheetsAreSound, Observed
  <2>3. PICK n \in DOMAIN shelf[i].rows : shelf[i].rows[n].id = p /\ TimeOf(i, n) = old.products[p].at BY <2>2
  <2>4. i \in FilesOf("products") BY <1>1, <2>2 DEF FilesOf, FullOf
  <2>5. PICK o : o = [row |-> shelf[i].rows[n], batch |-> i, sequence |-> n,
                      at |-> IF shelf[i].rows[n].updated = 0 THEN i ELSE shelf[i].rows[n].updated]
    OBVIOUS
  <2>6. o \in all /\ o.row.id = p /\ o.at = old.products[p].at
    BY <1>1, <2>3, <2>4, <2>5 DEF Observations, ObservationsIn, TimeOf
  <2>7. p \in DOMAIN latest BY <1>1, <2>6 DEF LatestByIdentity
  <2>8. latest[p].at >= o.at BY <1>1, <2>6, <2>7, LatestFacts
  <2> QED BY <2>1, <2>6, <2>7, <2>8
<1>6. NotBefore(full, latest) BY <1>5 DEF NotBefore
<1> QED BY <1>1, <1>4, <1>6

-----------------------------------------------------------------------------
(* The steps of the catalog hand-off                                       *)

\* What was observed stays so, whatever arrives.
LEMMA ObservedStays ==
  ASSUME ShelfGrows \/ UNCHANGED shelf, NEW full, NEW products, Observed(full, products)
  PROVE  Observed(full, products)'
<1> SUFFICES ASSUME NEW p \in DOMAIN products
             PROVE  \E i \in DOMAIN shelf' : /\ shelf'[i].kind = "products" /\ (full => shelf'[i].full)
                      /\ \E n \in DOMAIN shelf'[i].rows : shelf'[i].rows[n].id = p /\ TimeOf(i, n)' = products[p].at
  BY DEF Observed
<1>1. PICK i \in DOMAIN shelf : /\ shelf[i].kind = "products" /\ (full => shelf[i].full)
                                /\ \E n \in DOMAIN shelf[i].rows : shelf[i].rows[n].id = p /\ TimeOf(i, n) = products[p].at
  BY DEF Observed
<1>2. /\ i \in DOMAIN shelf' /\ shelf'[i].kind = shelf[i].kind /\ shelf'[i].full = shelf[i].full
      /\ shelf'[i].rows = shelf[i].rows
  BY <1>1 DEF ShelfGrows
<1>3. \A n : TimeOf(i, n)' = TimeOf(i, n) BY <1>2 DEF TimeOf
<1> QED BY <1>1, <1>2, <1>3

LEMMA SheetsRest ==
  ASSUME ShelfGrows \/ UNCHANGED shelf, UNCHANGED sheets, SheetsAreSound
  PROVE  SheetsAreSound' /\ \A full, products : NotBefore(full, products) <=> NotBefore(full, products)'
<1>1. PICK a : a = sheets["artifact"] /\ a = sheets'["artifact"] OBVIOUS
<1>2. Readable("artifact") => Observed(a.full, a.products)' BY <1>1, ObservedStays DEF SheetsAreSound
<1>3. SheetsAreSound' BY <1>1, <1>2 DEF SheetsAreSound, Readable, CategoriesAreListed
<1> QED BY <1>3 DEF NotBefore, Readable

LEMMA CatalogerRests ==
  ASSUME ShelfGrows \/ UNCHANGED shelf, UNCHANGED sheets, UNCHANGED cataloger, SheetsAreSound, CatalogerIsSound
  PROVE  CatalogerIsSound'
<1>1. PICK c : c = cataloger /\ c = cataloger' OBVIOUS
<1>2. CASE c.pc = "idle" BY <1>1, <1>2 DEF CatalogerIsSound
<1>3. CASE c.pc \in {"categories", "relations"}
  <2>1. Observed(c.full, c.latest) /\ NotBefore(c.full, c.latest) BY <1>1, <1>3 DEF CatalogerIsSound
  <2>2. Observed(c.full, c.latest)' /\ NotBefore(c.full, c.latest)' BY <2>1, ObservedStays, SheetsRest
  <2> QED BY <1>1, <1>3, <2>2 DEF CatalogerIsSound
<1>4. CASE c.pc = "write"
  <2>1. PICK x : x = c.catalog OBVIOUS
  <2>2. Observed(x.full, x.products) BY <1>1, <1>4, <2>1 DEF CatalogerIsSound
  <2>3. Observed(x.full, x.products)' BY <2>2, ObservedStays
  <2>4. NotBefore(x.full, x.products) => NotBefore(x.full, x.products)' BY SheetsRest
  <2> QED BY <1>1, <1>4, <2>1, <2>3, <2>4 DEF CatalogerIsSound, CategoriesAreListed
<1> QED BY <1>1, <1>2, <1>3, <1>4 DEF CatalogerIsSound

LEMMA CatalogerFails ==
  ASSUME Fails PROVE CatalogerIsSound'
BY DEF Fails, CatalogerIsSound

LEMMA ReadingSteps ==
  ASSUME CatalogInv, ReadProducts \/ ReadCategories
  PROVE  CatalogerIsSound' /\ SheetsAreSound' /\ UNCHANGED shelf
<1>1. UNCHANGED shelf /\ UNCHANGED sheets BY DEF ReadProducts, ReadCategories, CatalogerOnly
<1>2. SheetsAreSound' BY <1>1, SheetsRest DEF CatalogInv
<1>3. ASSUME NEW pc \in {"categories", "relations"}, cataloger'.pc = pc, NEW full, NEW latest,
             cataloger'.full = full, cataloger'.latest = latest, Observed(full, latest), NotBefore(full, latest)
      PROVE  CatalogerIsSound'
  <2>1. Observed(full, latest)' /\ NotBefore(full, latest)' BY <1>1, <1>3, ObservedStays, SheetsRest DEF CatalogInv
  <2>2. PICK c : c = cataloger' OBVIOUS
  <2>3. c.pc \in {"categories", "relations"} /\ c.full = full /\ c.latest = latest BY <1>3, <2>2
  <2> QED BY <2>1, <2>2, <2>3 DEF CatalogerIsSound
<1>4. CASE Fails BY <1>1, <1>2, <1>4, CatalogerFails
<1>5. CASE ReadProducts /\ ~Fails
  <2>1. PICK full, latest : full = (FullOf("products") # {}) /\ latest = LatestByIdentity(Observations("products")) OBVIOUS
  <2>2. cataloger' = [pc |-> "categories", full |-> full, latest |-> latest] BY <1>5, <2>1 DEF ReadProducts
  <2>3. Observed(full, latest) /\ NotBefore(full, latest) BY <2>1, ReadProductsFacts DEF CatalogInv
  <2> QED BY <1>1, <1>2, <1>3, <2>2, <2>3
<1>6. CASE ReadCategories /\ ~Fails
  <2>1. PICK full, latest : full = cataloger.full /\ latest = cataloger.latest OBVIOUS
  <2>2. cataloger'.pc = "relations" /\ cataloger'.full = full /\ cataloger'.latest = latest
    BY <1>6, <2>1 DEF ReadCategories
  <2>3. Observed(full, latest) /\ NotBefore(full, latest)
    BY <1>6, <2>1 DEF ReadCategories, CatalogInv, CatalogerIsSound
  <2> QED BY <1>1, <1>2, <1>3, <2>2, <2>3
<1> QED BY <1>4, <1>5, <1>6

LEMMA RelationsStep ==
  ASSUME CatalogInv, ReadRelations
  PROVE  CatalogerIsSound' /\ SheetsAreSound' /\ UNCHANGED shelf
<1>1. UNCHANGED shelf /\ UNCHANGED sheets BY DEF ReadRelations, CatalogerOnly
<1>2. SheetsAreSound' BY <1>1, SheetsRest DEF CatalogInv
<1>3. CASE Fails BY <1>1, <1>2, <1>3, CatalogerFails
<1>4. CASE ~Fails
  <2>1. PICK full, latest, tree, members :
          /\ full = cataloger.full /\ latest = cataloger.latest /\ tree = cataloger.tree
          /\ members = DOMAIN LatestByIdentity(Observations("relations"))
    OBVIOUS
  <2>2. PICK products, x : products = ProjectedProducts(latest, members) /\ x = CatalogOf(full, products, tree, members)
    OBVIOUS
  <2>3. ~Dangling(latest, tree, members) BY <1>4, <2>1 DEF ReadRelations, Refuses
  <2>4. PICK c : c = cataloger' OBVIOUS
  <2>5. c = [pc |-> "write", open |-> FALSE, left |-> SheetNames, catalog |-> x]
    BY <1>4, <2>1, <2>2, <2>4 DEF ReadRelations
  <2>6. c.pc = "write" /\ c.left = SheetNames /\ c.catalog = x /\ {"open", "left"} \subseteq DOMAIN c BY <2>5
  <2>7. x.full = full /\ x.products = products /\ x.tree = tree BY <2>2 DEF CatalogOf
  <2>8. /\ DOMAIN products = DOMAIN latest
        /\ \A p \in DOMAIN latest : /\ products[p].at = latest[p].at
                                    /\ products[p].categories = {m[1] : m \in {n \in members : n[2] = p}}
    BY <2>2 DEF ProjectedProducts
  <2>9. Observed(full, latest) /\ NotBefore(full, latest) BY <2>1 DEF ReadRelations, CatalogInv, CatalogerIsSound
  <2>10. Observed(full, products) /\ NotBefore(full, products) BY <2>8, <2>9 DEF Observed, NotBefore
  <2>11. Observed(full, products)' /\ NotBefore(full, products)'
    BY <1>1, <2>10, ObservedStays, SheetsRest DEF CatalogInv
  <2>12. CategoriesAreListed(x) BY <2>3, <2>7, <2>8 DEF CategoriesAreListed, Dangling
  <2>13. SheetNames # <<"manifest">> BY DEF SheetNames
  <2> QED BY <1>1, <1>2, <2>4, <2>6, <2>7, <2>11, <2>12, <2>13 DEF CatalogerIsSound, SheetLists, CategoriesAreListed
<1> QED BY <1>3, <1>4

\* A file that is opened is no longer readable; one that is filled holds what the
\* run has put together.
LEMMA WriteSheetStep ==
  ASSUME CatalogInv, WriteSheet
  PROVE  CatalogerIsSound' /\ SheetsAreSound' /\ UNCHANGED shelf
<1>1. UNCHANGED shelf BY DEF WriteSheet
<1>2. PICK l, x, c : l = cataloger.left /\ x = cataloger.catalog /\ c = cataloger' OBVIOUS
<1>3. /\ cataloger.pc = "write" /\ {"open", "left"} \subseteq DOMAIN cataloger /\ l \in SheetLists
      /\ Observed(x.full, x.products) /\ CategoriesAreListed(x)
      /\ l = SheetNames => NotBefore(x.full, x.products)
      /\ l # SheetNames => sheets["artifact"] = x
      /\ l = <<"manifest">> => sheets["validation"].of = x
  BY <1>2 DEF WriteSheet, CatalogInv, CatalogerIsSound
<1>4. Observed(x.full, x.products)' BY <1>1, <1>3, ObservedStays
<1>5. /\ DOMAIN sheets = {"artifact", "validation", "manifest"}
      /\ Readable("artifact") => /\ Observed(sheets["artifact"].full, sheets["artifact"].products)
                                 /\ CategoriesAreListed(sheets["artifact"])
      /\ Readable("manifest") => sheets["manifest"].validation.of = sheets["manifest"].artifact
  BY DEF CatalogInv, SheetsAreSound
<1>6. PICK name : name = Head(l) OBVIOUS
<1>7. /\ l = SheetNames <=> name = "artifact"
      /\ l = <<"validation", "manifest">> <=> name = "validation"
      /\ l = <<"manifest">> <=> name = "manifest"
      /\ name \in {"artifact", "validation", "manifest"}
  BY <1>3, <1>6 DEF SheetLists, SheetNames
<1>8. PICK old, new : old = sheets["artifact"] /\ new = sheets'["artifact"] OBVIOUS
<1>9. new = old => (Readable("artifact") => Observed(new.full, new.products)' /\ CategoriesAreListed(new))
  BY <1>1, <1>5, <1>8, ObservedStays
<1>10. CASE ~cataloger.open
  <2>1. sheets' = [sheets EXCEPT ![name] = TornSheet] /\ c = [cataloger EXCEPT !.open = TRUE]
    BY <1>2, <1>6, <1>10 DEF WriteSheet
  <2>2. c.pc = "write" /\ c.left = l /\ c.catalog = x /\ DOMAIN c = DOMAIN cataloger BY <1>2, <1>3, <2>1
  <2>3. /\ name # "artifact" => new = old
        /\ name # "validation" => sheets'["validation"] = sheets["validation"]
        /\ name # "manifest" => sheets'["manifest"] = sheets["manifest"]
        /\ DOMAIN sheets' = DOMAIN sheets /\ sheets'[name] = TornSheet
    BY <1>5, <1>7, <1>8, <2>1
  <2>4. name = "artifact" => ~Readable("artifact")' BY <2>3 DEF Readable
  <2>5. SheetsAreSound' BY <1>5, <1>8, <1>9, <2>3, <2>4 DEF SheetsAreSound, Readable, CategoriesAreListed
  <2>6. l = SheetNames => NotBefore(x.full, x.products)' BY <1>7, <2>4 DEF NotBefore
  <2>7. CatalogerIsSound'
    BY <1>2, <1>3, <1>4, <1>7, <1>8, <2>2, <2>3, <2>6 DEF CatalogerIsSound, CategoriesAreListed
  <2> QED BY <1>1, <2>5, <2>7
<1>11. CASE cataloger.open
  <2>1. sheets' = [sheets EXCEPT ![name] = SheetOf(name, x)] BY <1>2, <1>6, <1>11 DEF WriteSheet
  <2>2. /\ name # "artifact" => new = old
        /\ name # "validation" => sheets'["validation"] = sheets["validation"]
        /\ name # "manifest" => sheets'["manifest"] = sheets["manifest"]
        /\ DOMAIN sheets' = DOMAIN sheets
    BY <1>5, <1>7, <1>8, <2>1
  <2>3. /\ name = "artifact" => new = x
        /\ name = "validation" => sheets'["validation"].of = x
        /\ name = "manifest" => /\ sheets'["manifest"].artifact = sheets["artifact"]
                                /\ sheets'["manifest"].validation = sheets["validation"]
    BY <1>5, <1>8, <2>1 DEF SheetOf
  <2>4. name = "manifest" => sheets'["manifest"].validation.of = sheets'["manifest"].artifact
    <3>1. name = "manifest" => l = <<"manifest">> /\ l # SheetNames BY <1>7 DEF SheetNames
    <3> QED BY <1>3, <2>3, <3>1
  <2>5. Readable("artifact")' => Observed(new.full, new.products)' /\ CategoriesAreListed(new)
    BY <1>3, <1>4, <1>8, <1>9, <2>2, <2>3 DEF Readable
  <2>6. SheetsAreSound' BY <1>5, <1>8, <2>2, <2>4, <2>5 DEF SheetsAreSound, Readable, CategoriesAreListed
  <2>7. CASE Len(l) = 1
    <3>1. Fails BY <1>2, <1>11, <2>7 DEF WriteSheet
    <3> QED BY <1>1, <2>6, <3>1, CatalogerFails
  <2>8. CASE Len(l) # 1
    <3>1. c = [cataloger EXCEPT !.open = FALSE, !.left = Tail(@)] BY <1>2, <1>11, <2>8 DEF WriteSheet
    <3>2. PICK r : r = Tail(l) OBVIOUS
    <3>3. /\ l = SheetNames => r = <<"validation", "manifest">>
          /\ l = <<"validation", "manifest">> => r = <<"manifest">>
          /\ l = SheetNames \/ l = <<"validation", "manifest">>
      <4>1. l = <<"manifest">> => Len(l) = 1 OBVIOUS
      <4>2. l = SheetNames \/ l = <<"validation", "manifest">> BY <1>3, <2>8, <4>1 DEF SheetLists
      <4>3. l = <<"validation", "manifest">> => r = <<"manifest">> BY <3>2
      <4>4. l = SheetNames => r = <<"validation", "manifest">> BY <3>2 DEF SheetNames
      <4> QED BY <4>2, <4>3, <4>4
    <3>4. r \in SheetLists /\ r # SheetNames /\ (r = <<"manifest">> => name = "validation") /\ name # "manifest"
      <4>1. r \in {<<"validation", "manifest">>, <<"manifest">>} BY <3>3
      <4>2. r \in SheetLists /\ r # SheetNames BY <4>1 DEF SheetLists, SheetNames
      <4>3. l = SheetNames => r # <<"manifest">> BY <3>3
      <4> QED BY <1>7, <3>3, <4>2, <4>3
    <3>5. c.pc = "write" /\ c.left = r /\ c.catalog = x /\ {"open", "left"} \subseteq DOMAIN c
      BY <1>2, <1>3, <3>1, <3>2
    <3>6. sheets'["artifact"] = x BY <1>3, <1>7, <1>8, <2>2, <2>3
    <3>7. CatalogerIsSound'
      BY <1>2, <1>3, <1>4, <2>3, <3>4, <3>5, <3>6 DEF CatalogerIsSound, CategoriesAreListed
    <3> QED BY <1>1, <2>6, <3>7
  <2> QED BY <2>7, <2>8
<1> QED BY <1>10, <1>11

LEMMA CatalogStep ==
  ASSUME CatalogInv, CatalogNext \/ Shelved \/ UNCHANGED <<shelf, cataloger, sheets>>
  PROVE  CatalogInv'
<1>1. ShelfTypes /\ CatalogerIsSound /\ SheetsAreSound BY DEF CatalogInv
<1>2. UNCHANGED shelf => ShelfTypes' BY <1>1 DEF ShelfTypes
<1>3. CASE Shelved
  <2>1. ShelfTypes' /\ ShelfGrows BY <1>1, <1>3, ShelvedGrows
  <2>2. UNCHANGED sheets /\ UNCHANGED cataloger BY <1>3 DEF Shelved
  <2> QED BY <1>1, <2>1, <2>2, SheetsRest, CatalogerRests DEF CatalogInv
<1>4. CASE ReadProducts \/ ReadCategories BY <1>2, <1>4, ReadingSteps DEF CatalogInv
<1>5. CASE ReadRelations BY <1>2, <1>5, RelationsStep DEF CatalogInv
<1>6. CASE WriteSheet BY <1>2, <1>6, WriteSheetStep DEF CatalogInv
<1>7. CASE CatalogerDies
  <2>1. Fails /\ UNCHANGED shelf /\ UNCHANGED sheets BY <1>7 DEF CatalogerDies
  <2> QED BY <1>1, <1>2, <2>1, CatalogerFails, SheetsRest DEF CatalogInv
<1>8. CASE UNCHANGED <<shelf, cataloger, sheets>>
  <2>1. UNCHANGED shelf /\ UNCHANGED sheets /\ UNCHANGED cataloger BY <1>8
  <2> QED BY <1>1, <1>2, <2>1, SheetsRest, CatalogerRests DEF CatalogInv
<1> QED BY <1>3, <1>4, <1>5, <1>6, <1>7, <1>8 DEF CatalogNext

LEMMA CatalogImplied ==
  ASSUME CatalogInv PROVE CatalogIsSound
<1>1. CatalogerIsSound /\ SheetsAreSound BY DEF CatalogInv
<1>2. CatalogIsClosed BY <1>1 DEF CatalogIsClosed, SheetsAreSound
<1>3. CatalogGoesForward BY <1>1 DEF CatalogGoesForward, CatalogerIsSound, NotBefore
<1>4. ManifestIsBacked
  <2> SUFFICES ASSUME Readable("manifest"),
                      sheets["manifest"] = [artifact |-> sheets["artifact"], validation |-> sheets["validation"]]
               PROVE  sheets["validation"].of = sheets["artifact"]
    BY DEF ManifestIsBacked
  <2>1. PICK a, v, m : a = sheets["artifact"] /\ v = sheets["validation"] /\ m = sheets["manifest"] OBVIOUS
  <2>2. m.validation.of = m.artifact BY <1>1, <2>1 DEF SheetsAreSound
  <2>3. m.artifact = a /\ m.validation = v BY <2>1
  <2> QED BY <2>1, <2>2, <2>3
<1> QED BY <1>2, <1>3, <1>4 DEF CatalogIsSound

-----------------------------------------------------------------------------
(* The exchange                                                            *)

\* What each of the three does leaves the files of the others alone.
LEMMA ExchangeStep ==
  ASSUME [ExchangeNext]_exchangeVars
  PROVE  /\ [HandoffNext]_handoffVars
         /\ CatalogNext \/ Shelved \/ UNCHANGED <<shelf, cataloger, sheets>>
         /\ \/ LabNext /\ UNCHANGED shelf
            \/ Shelved /\ UNCHANGED labVars
            \/ UNCHANGED <<labVars, shelf>>
<1>1. CASE Inquiries BY <1>1 DEF Inquiries, catalogVars
<1>2. CASE CatalogFocus
  <2>1. CatalogNext /\ UNCHANGED <<handoffVars, labVars>> BY <1>2 DEF CatalogFocus
  <2>2. Shelved \/ UNCHANGED shelf
    BY <2>1 DEF CatalogNext, ReadProducts, ReadCategories, ReadRelations, WriteSheet, CatalogerDies, CatalogerOnly
  <2> QED BY <2>1, <2>2
<1>3. CASE Experiment BY <1>3 DEF Experiment, catalogVars
<1>4. CASE UNCHANGED exchangeVars BY <1>4 DEF exchangeVars, catalogVars
<1> QED BY <1>1, <1>2, <1>3, <1>4 DEF ExchangeNext

\* A snapshot of exports, the hand-off of inquiries and the experiment go on side
\* by side: the hand-off of inquiries is what its own specification says.
LEMMA ExchangeHandsOff == ExchangeSpec => HandoffSpec
<1>1. ExchangeInit => HandoffInit BY DEF ExchangeInit
<1>2. [ExchangeNext]_exchangeVars => [HandoffNext]_handoffVars BY ExchangeStep
<1> QED BY <1>1, <1>2, PTL DEF ExchangeSpec, HandoffSpec

\* Only text that is safe, undisputed and counted leaves the protected root, also
\* while the catalog is handed off and products are experimented with.
THEOREM InquiriesAreBacked == ExchangeSpec => []HandoffIsBacked
BY ExchangeHandsOff, HandoffsAreBacked, PTL

\* For any exports, whenever they arrive and wherever the hand-off dies: a catalog
\* lists the categories of its products, is never replaced by one of the same
\* pattern that lost a product or tells of an earlier time, and is what the
\* validation beside it is of if the manifest fits both.
THEOREM CatalogsAreSound == ExchangeSpec => []CatalogIsSound
<1>1. ExchangeInit => CatalogInv
  <2> SUFFICES ASSUME ExchangeInit PROVE CatalogInv OBVIOUS
  <2>1. /\ shelf = <<>> /\ cataloger = [pc |-> "idle"]
        /\ sheets = [name \in {"artifact", "validation", "manifest"} |-> NoSheet]
    BY DEF ExchangeInit, CatalogInit
  <2>2. ShelfTypes BY <2>1 DEF ShelfTypes
  <2>3. CatalogerIsSound BY <2>1 DEF CatalogerIsSound
  <2>4. SheetsAreSound BY <2>1 DEF SheetsAreSound, Readable
  <2> QED BY <2>2, <2>3, <2>4 DEF CatalogInv
<1>2. CatalogInv /\ [ExchangeNext]_exchangeVars => CatalogInv' BY ExchangeStep, CatalogStep
<1>3. CatalogInv => CatalogIsSound BY CatalogImplied
<1> QED BY <1>1, <1>2, <1>3, PTL DEF ExchangeSpec

\* For any products, cases, rankings, retries and crashes: a published evaluation
\* is of the pinned snapshot and of cases a person approved, has a row for every
\* case and counts that add up, and never finds by reranking what was not a
\* candidate; a fused list has all either search returned, by falling score, in an
\* order both searches agree with.
THEOREM EvaluationsAreAccounted == ExchangeSpec => []EvaluationIsAccounted
<1>1. ExchangeInit => EvaluationInv
  <2> SUFFICES ASSUME ExchangeInit PROVE EvaluationInv OBVIOUS
  <2>1. /\ shelf = <<>> /\ lab = Idle /\ papers = [name \in PaperNames |-> NoSheet]
        /\ pins = [snapshot |-> NoSheet, final |-> NoSheet]
    BY DEF ExchangeInit, CatalogInit, EvaluationInit
  <2>2. ShelfTypes BY <2>1 DEF ShelfTypes
  <2>3. PinsAreSound BY <2>1 DEF PinsAreSound
  <2>4. PapersAreSound BY <2>1 DEF PapersAreSound, Whole
  <2>5. LabIsSound BY <2>1 DEF LabIsSound, Idle
  <2> QED BY <2>2, <2>3, <2>4, <2>5 DEF EvaluationInv
<1>2. EvaluationInv /\ [ExchangeNext]_exchangeVars => EvaluationInv' BY ExchangeStep, EvaluationStep
<1>3. EvaluationInv => EvaluationIsAccounted BY EvaluationImplied
<1> QED BY <1>1, <1>2, <1>3, PTL DEF ExchangeSpec
=============================================================================
