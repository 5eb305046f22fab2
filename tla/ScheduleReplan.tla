--------------------------- MODULE ScheduleReplan ---------------------------
(***************************************************************************)
(* What a late delivery does to the schedule.  delay_impact.py finds the   *)
(* items that wait for it and moves them by whole hours;                   *)
(* schedule_replan.py turns that into a proposal whose id is a digest of   *)
(* the change; POST /demo/schedule/replan-proposals/draft takes the impact *)
(* from its client, who may have calculated it or not, and keeps the       *)
(* proposal in app.state, unless one with its id is there.  Times are      *)
(* minutes.                                                                *)
(***************************************************************************)
EXTENDS Integers, Sequences, FiniteSets, SequencesExt

CONSTANTS
  Drafters,      \* threads of the pool
  TypeOf,        \* item of the schedule -> "TASK", "RESERVATION" or "LAUNCH_EVENT"
  Waits,         \* the items that depend on the delivery
  Boards,        \* the schedules clients send: item -> time
  Changes,       \* changes of the delivery's date
  SentImpacts,   \* impacts that clients send without having calculated them
  Confidences,
  MaxDrafts,     \* bound: drafts asked for
  NoDate

ASSUME ReplanAssumption ==
  /\ Waits \subseteq DOMAIN TypeOf
  /\ Boards \subseteq [DOMAIN TypeOf -> Nat]
  /\ Changes \subseteq [before : Nat \union {NoDate}, after : Nat \union {NoDate}, blocked : BOOLEAN]
  /\ \A m \in SentImpacts :
       \A t \in DOMAIN m.path \intersect DOMAIN TypeOf : m.path[t] \in Nat

VARIABLES
  stored,      \* schedule_replan_proposals
  drafting,    \* drafter -> the proposal it is about to append, if any
  drafted,     \* the drafts that were answered: what was asked and what came back
  asked,       \* number of drafts asked for
  draftsMet    \* history: two drafts were under way at once

replanVars == <<stored, drafting, drafted, asked, draftsMet>>

-----------------------------------------------------------------------------
\* Whole hours, rounded down: a delay below one hour is none.
DelayHours(c) == (c.after - c.before) \div 60

ImpactBlocked(c) == NoDate \in {c.before, c.after} \/ c.blocked

\* Tasks and launches move with the delivery, reservations to its new date.
MovedTo(c, seen, t) == IF TypeOf[t] = "RESERVATION" THEN c.after ELSE seen[t] + 60 * DelayHours(c)

\* The impact path: item -> proposed time.
ImpactPath(c, seen) ==
  IF ImpactBlocked(c) THEN <<>>
  ELSE IF DelayHours(c) <= 0 THEN <<>>
  ELSE [t \in Waits |-> MovedTo(c, seen, t)]

\* What calculate_delay_impact answers: the path, and the items it names.
Calculated(c, seen) == [path |-> ImpactPath(c, seen), named |-> DOMAIN ImpactPath(c, seen)]

ProposedSchedule(board, path) ==
  [t \in DOMAIN board |-> IF t \in DOMAIN path THEN path[t] ELSE board[t]]

ScheduleDiff(before, after) == {t \in DOMAIN before : before[t] # after[t]}

\* Mutant: the id stands for the schedule only.
ScheduleOnlyId(before, after) == before

\* The digest's payload: neither the confidence nor the date of the draft is in it.
ProposalId(before, after) == <<before, after>>

\* build_replan_proposal
Proposal(r) ==
  LET after == ProposedSchedule(r.board, r.impact.path) IN
  [id         |-> ProposalId(r.board, after),
   before     |-> r.board,
   proposed   |-> after,
   diff       |-> ScheduleDiff(r.board, after),
   downstream |-> r.impact.named,
   confidence |-> r.confidence]

\* The endpoint takes the impact as it comes: calculated on the schedule that is
\* sent or on another one, or made up.
Requests ==
  [impact : {Calculated(c, seen) : c \in Changes, seen \in Boards} \union SentImpacts,
   board : Boards, confidence : Confidences]

NoDraft == [asked |-> <<>>, proposal |-> <<>>]

ReplanTypeOK ==
  /\ \A i \in DOMAIN stored : stored[i].diff \subseteq DOMAIN TypeOf /\ stored[i].proposed \in [DOMAIN TypeOf -> Nat]
  /\ DOMAIN drafting = Drafters
  /\ \A x \in drafted : x.asked \in Requests
  /\ asked \in 0 .. MaxDrafts
  /\ draftsMet \in BOOLEAN

ReplanInit ==
  /\ stored = <<>>
  /\ drafting = [d \in Drafters |-> NoDraft]
  /\ drafted = {}
  /\ asked = 0
  /\ draftsMet = FALSE

-----------------------------------------------------------------------------
StoredIds == {stored[i].id : i \in DOMAIN stored}

\* The proposal is built and the ids of the list are collected; a proposal whose
\* id is there is answered as built and not stored.
CheckExisting(d) ==
  /\ drafting[d] = NoDraft
  /\ asked < MaxDrafts
  /\ \E r \in Requests :
       LET draft == [asked |-> r, proposal |-> Proposal(r)] IN
       IF draft.proposal.id \in StoredIds
       THEN drafted' = drafted \union {draft} /\ UNCHANGED drafting
       ELSE drafting' = [drafting EXCEPT ![d] = draft] /\ UNCHANGED drafted
  /\ asked' = asked + 1
  /\ draftsMet' = (draftsMet \/ \E e \in Drafters : drafting[e] # NoDraft)
  /\ UNCHANGED stored

AppendProposal(d) ==
  /\ drafting[d] # NoDraft
  /\ stored' = Append(stored, drafting[d].proposal)
  /\ drafted' = drafted \union {drafting[d]}
  /\ drafting' = [drafting EXCEPT ![d] = NoDraft]
  /\ UNCHANGED <<asked, draftsMet>>

ReplanNext == \E d \in Drafters : CheckExisting(d) \/ AppendProposal(d)

ReplanSpec == ReplanInit /\ [][ReplanNext]_replanVars

\* GET /schedule/replan-proposals/{id}: the first proposal of the list with the id.
Found(id) == SelectInSeq(stored, LAMBDA p : p.id = id)

-----------------------------------------------------------------------------
\* An item is where a delay puts it: what does not wait, or waits for a delivery
\* that is no hour late, stays; a reservation takes the new date; the rest moves
\* with the delivery and falls short of it by less than an hour.
IsMoved(c, t, from, to) ==
  IF t \notin Waits \/ ImpactBlocked(c)     THEN to = from
  ELSE IF c.after - c.before < 60           THEN to = from
  ELSE IF TypeOf[t] = "RESERVATION"         THEN to = c.after
  ELSE from + (c.after - c.before) - to \in 0 .. 59

\* Whatever was drafted before, and by whom, the proposal that is found under an
\* id that was answered moves the schedule that was sent as the impact that was
\* sent says, and names exactly the items it moves; if the impact was calculated
\* on that schedule, it moves no item the impact does not name, and every item is
\* where the delay puts it.  As long as no two drafts overlapped, no id is stored
\* twice.
AnsweredReplanIsFound ==
  /\ \A x \in drafted :
       LET r == x.asked
           i == Found(x.proposal.id) IN
       /\ i > 0
       /\ stored[i].before = r.board
       /\ stored[i].proposed = ProposedSchedule(r.board, r.impact.path)
       /\ stored[i].diff = {t \in DOMAIN TypeOf : stored[i].proposed[t] # r.board[t]}
       /\ \A c \in Changes : r.impact = Calculated(c, r.board) =>
            /\ stored[i].diff \subseteq x.proposal.downstream
            /\ \A t \in DOMAIN TypeOf : IsMoved(c, t, r.board[t], stored[i].proposed[t])
  /\ ~draftsMet => \A i, j \in DOMAIN stored : stored[i].id = stored[j].id => i = j
=============================================================================
