--------------------------- MODULE AgentCheckpoint ---------------------------
(***************************************************************************)
(* run_and_checkpoint_reservation_replan: a caller runs the reservation    *)
(* replan graph on an initial state and saves the final state as the next  *)
(* checkpoint of its workflow thread, if nobody saved one since the        *)
(* version the caller expects.  Several callers run at once.               *)
(*                                                                         *)
(* The graph works on the caller's own state; what callers share is the    *)
(* agent_runs row of a (tenant, workflow, thread), here a flow.  The       *)
(* insert, or the compare-and-set update, and its commit are one step:     *)
(* the row lock keeps another writer's update waiting in between, and it   *)
(* then tests the version again.                                           *)
(***************************************************************************)
EXTENDS Naturals

CONSTANTS
  Callers,
  Flows,        \* (tenant, workflow, thread)
  Evidence,
  Inputs,       \* the initial states handed in
  NoInput,
  MaxRuns,      \* bound: runs started
  MaxFaults     \* bound: callers that die, statements that fail

\* An initial state: for which flow; whether it has the required fields, the
\* supported schema and task and no forbidden field; what the rules decided
\* (rule_results may be empty or lack the decision); its evidence_ids; and the
\* proposed_actions it already carries.
InputType ==
  [flow : Flows, named : BOOLEAN, schema : BOOLEAN, task : BOOLEAN, forbidden : BOOLEAN,
   rules : {"none", "undecided", "keep", "replan", "replanWithAssist"},
   evidence : SUBSET Evidence, actions : {"none", "internal", "external"}]

ASSUME InputsAssumption ==
  /\ Inputs \subseteq InputType
  /\ NoInput \notin Inputs
  /\ MaxRuns \in Nat /\ MaxFaults \in Nat

VARIABLES
  rows,               \* the agent_runs row of each flow
  pc, input, expected,  \* a caller's run
  status, actions,    \* of its AgentState
  told,               \* history: versions a caller was told it saved, per flow
  runs, faults

stateVars  == <<input, expected, status, actions>>
vars       == <<rows, pc, stateVars, told, runs, faults>>

-----------------------------------------------------------------------------
Nodes == {"validate_input", "check_rules", "assist_context", "build_proposal", "wait_for_human"}

NoRow == [version |-> 0]
Rows  == [version : Nat \ {0}, status : {"WAITING", "BLOCKED", "COMPLETED"},
          actions : {"none", "internal"}, of : Inputs]

TypeOK ==
  /\ rows \in [Flows -> Rows \union {NoRow}]
  /\ pc \in [Callers -> Nodes \union {"idle", "handOver", "save", "readBack"}]
  /\ input \in [Callers -> Inputs \union {NoInput}]
  /\ expected \in [Callers -> Nat]
  /\ status \in [Callers -> {"RUNNING", "WAITING", "BLOCKED", "COMPLETED"}]
  /\ actions \in [Callers -> {"none", "internal", "external"}]
  /\ \A c \in Callers :
       /\ pc[c] # "idle" => input[c] \in Inputs
       /\ pc[c] \in {"handOver", "save"} => status[c] # "RUNNING"
       /\ pc[c] = "save" => actions[c] # "external"
  /\ told \in [Flows -> SUBSET Nat]
  /\ runs \in 0 .. MaxRuns
  /\ faults \in 0 .. MaxFaults

Init ==
  /\ rows = [f \in Flows |-> NoRow]
  /\ pc = [c \in Callers |-> "idle"]
  /\ input = [c \in Callers |-> NoInput]
  /\ expected = [c \in Callers |-> 0]
  /\ status = [c \in Callers |-> "RUNNING"]
  /\ actions = [c \in Callers |-> "none"]
  /\ told = [f \in Flows |-> {}]
  /\ runs = 0
  /\ faults = 0

-----------------------------------------------------------------------------
\* A caller may expect any version that was once stored, also one it saw long
\* ago: its run may be a retry.
Start(c, i, n) ==
  /\ pc[c] = "idle"
  /\ runs < MaxRuns
  /\ n <= rows[i.flow].version
  /\ runs' = runs + 1
  /\ pc' = [pc EXCEPT ![c] = "validate_input"]
  /\ input' = [input EXCEPT ![c] = i]
  /\ expected' = [expected EXCEPT ![c] = n]
  /\ status' = [status EXCEPT ![c] = "RUNNING"]
  /\ actions' = [actions EXCEPT ![c] = i.actions]
  /\ UNCHANGED <<rows, told, faults>>

\* The caller's run ends, by an answer or an exception.
Finish(c) ==
  /\ pc' = [pc EXCEPT ![c] = "idle"]
  /\ input' = [input EXCEPT ![c] = NoInput]
  /\ expected' = [expected EXCEPT ![c] = 0]
  /\ status' = [status EXCEPT ![c] = "RUNNING"]
  /\ actions' = [actions EXCEPT ![c] = "none"]

(***************************************************************************)
(* The graph.  A node sets the status; its outgoing edge goes on to the    *)
(* next node only while the status is RUNNING.                             *)
(***************************************************************************)
Leave(c, st, successor) ==
  /\ status' = [status EXCEPT ![c] = st]
  /\ pc' = [pc EXCEPT ![c] = IF st = "RUNNING" THEN successor ELSE "handOver"]
  /\ UNCHANGED <<rows, input, expected, told, runs, faults>>

Valid(i) == i.named /\ i.task /\ ~i.forbidden

ValidateInput(c) ==
  /\ pc[c] = "validate_input"
  /\ Leave(c, IF Valid(input[c]) THEN "RUNNING" ELSE "BLOCKED", "check_rules")
  /\ UNCHANGED actions

Decision(i) ==
  CASE i.rules = "keep"                           -> "COMPLETED"
    [] i.rules \in {"replan", "replanWithAssist"} -> "RUNNING"
    [] OTHER                                      -> "BLOCKED"

CheckRules(c) ==
  /\ pc[c] = "check_rules"
  /\ Leave(c, Decision(input[c]), "assist_context")
  /\ UNCHANGED actions

\* No base model runs yet: what the rules and the evidence do not settle blocks.
SettledWithoutEvidence(i) == i.rules # "replanWithAssist"
Settled(i) == i.evidence # {} /\ i.rules # "replanWithAssist"

AssistContext(c) ==
  /\ pc[c] = "assist_context"
  /\ Leave(c, IF Settled(input[c]) THEN "RUNNING" ELSE "BLOCKED", "build_proposal")
  /\ UNCHANGED actions

\* The proposal replaces whatever proposed_actions the state carried.
BuildProposal(c) ==
  /\ pc[c] = "build_proposal"
  /\ Leave(c, "RUNNING", "wait_for_human")
  /\ actions' = [actions EXCEPT ![c] = "internal"]

WaitForHuman(c) ==
  /\ pc[c] = "wait_for_human"
  /\ Leave(c, "WAITING", "handOver")
  /\ UNCHANGED actions

-----------------------------------------------------------------------------
\* The contract and safety checks on the final state; a violation raises.
AcceptableWhateverIsProposed(c) == input[c].named /\ input[c].schema
Acceptable(c) == input[c].named /\ input[c].schema /\ actions[c] # "external"

HandOver(c) ==
  /\ pc[c] = "handOver"
  /\ IF Acceptable(c)
     THEN pc' = [pc EXCEPT ![c] = "save"] /\ UNCHANGED stateVars
     ELSE Finish(c)
  /\ UNCHANGED <<rows, told, runs, faults>>

\* The insert finds no row (expected 0), or the update one of this version.
NotNewer(c) == rows[input[c].flow].version >= expected[c]
Current(c) == rows[input[c].flow].version = expected[c]

Checkpoint(c) ==
  [version |-> expected[c] + 1, status |-> status[c], actions |-> actions[c], of |-> input[c]]

Stores(c) == rows' = [rows EXCEPT ![input[c].flow] = Checkpoint(c)]

\* A version conflict raises.
Save(c) ==
  /\ pc[c] = "save"
  /\ IF Current(c)
     THEN Stores(c) /\ pc' = [pc EXCEPT ![c] = "readBack"] /\ UNCHANGED stateVars
     ELSE Finish(c) /\ UNCHANGED rows
  /\ UNCHANGED <<told, runs, faults>>

\* The row is read again, and the caller is answered with its final state.
ReadBack(c) ==
  /\ pc[c] = "readBack"
  /\ told' = [told EXCEPT ![input[c].flow] = @ \union {expected[c] + 1}]
  /\ Finish(c)
  /\ UNCHANGED <<rows, runs, faults>>

\* The process dies, or a statement fails.
Dies(c) ==
  /\ faults < MaxFaults
  /\ pc[c] # "idle"
  /\ Finish(c)
  /\ faults' = faults + 1
  /\ UNCHANGED <<rows, told, runs>>

\* The commit takes effect and its answer is lost.
CommitAnswerLost(c) ==
  /\ faults < MaxFaults
  /\ pc[c] = "save"
  /\ Current(c)
  /\ Stores(c)
  /\ Finish(c)
  /\ faults' = faults + 1
  /\ UNCHANGED <<told, runs>>

Next ==
  \E c \in Callers :
    \/ \E i \in Inputs : \E n \in 0 .. rows[i.flow].version : Start(c, i, n)
    \/ ValidateInput(c) \/ CheckRules(c) \/ AssistContext(c)
    \/ BuildProposal(c) \/ WaitForHuman(c)
    \/ HandOver(c) \/ Save(c) \/ ReadBack(c)
    \/ Dies(c) \/ CommitAnswerLost(c)

Spec == Init /\ [][Next]_vars

-----------------------------------------------------------------------------
(***************************************************************************)
(* Properties                                                              *)
(***************************************************************************)

\* A stored checkpoint that waits for the human rests on everything the nodes
\* ask for: valid input, a decision of the rules to replan that needs no model,
\* evidence, and the internal proposal the human is to review.
WaitingIsJustified ==
  \A f \in Flows :
    rows[f] # NoRow /\ rows[f].status = "WAITING" =>
      LET i == rows[f].of IN
      /\ Valid(i) /\ i.schema
      /\ i.rules = "replan" /\ i.evidence # {}
      /\ rows[f].actions = "internal"

\* save_agent_checkpoint keeps a stale writer from overwriting the newer state,
\* and tells no two callers that they made the same version, whatever versions
\* they expected, wherever they died and whichever answers were lost.
SavedBy(f)  == {c \in Callers : pc[c] = "readBack" /\ input[c].flow = f}
StoredVersion == [f \in Flows |-> rows[f].version]
UntoldVersions == [f \in Flows |-> {expected[c] + 1 : c \in SavedBy(f)}]

Register == INSTANCE VersionedRegister
  WITH version <- StoredVersion, untold <- UntoldVersions, told <- told

RefinesRegister == Register!Spec
=============================================================================
