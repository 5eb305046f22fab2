----------------------- MODULE AgentCheckpointProofs -----------------------
(***************************************************************************)
(* Proofs about AgentCheckpoint, for any number of callers, flows, inputs  *)
(* and faults: types, that what waits for the human is justified, and that *)
(* the checkpoint rows implement the versioned register.                   *)
(***************************************************************************)
EXTENDS AgentCheckpoint, TLAPS

USE InputsAssumption

\* What the nodes have established of a run when it stands before each of them.
Established(c) ==
  LET i == input[c] IN
  /\ pc[c] \in Nodes => status[c] = "RUNNING"
  /\ pc[c] \in {"check_rules", "assist_context", "build_proposal", "wait_for_human"} => Valid(i)
  /\ pc[c] \in {"assist_context", "build_proposal", "wait_for_human"} =>
       i.rules \in {"replan", "replanWithAssist"}
  /\ pc[c] \in {"build_proposal", "wait_for_human"} => Settled(i)
  /\ pc[c] = "wait_for_human" => actions[c] = "internal"

\* What a run that waits for the human brings along to the save.
Justified(c) ==
  LET i == input[c] IN
  /\ status[c] = "WAITING" =>
       /\ Valid(i) /\ i.rules = "replan" /\ Settled(i)
       /\ actions[c] = "internal"
  /\ pc[c] = "save" => Acceptable(c)

JustifiedInv ==
  /\ \A c \in Callers : Established(c) /\ Justified(c)
  /\ WaitingIsJustified

\* Callers that have saved and are not answered yet made different versions, all
\* stored by now and told to nobody.
AnswersInv ==
  /\ \A f \in Flows : \A v \in told[f] : v <= rows[f].version
  /\ \A c \in Callers : pc[c] = "readBack" =>
       /\ expected[c] + 1 <= rows[input[c].flow].version
       /\ expected[c] + 1 \notin told[input[c].flow]
  /\ \A c, d \in Callers :
       /\ pc[c] = "readBack" /\ pc[d] = "readBack"
       /\ input[c].flow = input[d].flow /\ expected[c] = expected[d]
       => c = d

-----------------------------------------------------------------------------
\* The version stored of a flow is a number; there is none only at 0.
LEMMA VersionIsNat ==
  ASSUME TypeOK
  PROVE  \A f \in Flows : rows[f].version \in Nat
BY DEF TypeOK, Rows, NoRow

\* Every reachable state of the callers and the checkpoint rows has the types its
\* variables are declared with; in particular a run that left the graph is not
\* RUNNING, and no run saves an external_write proposal.
THEOREM TypeCorrect == Spec => []TypeOK
<1> USE DEF TypeOK, Nodes
<1>1. Init => TypeOK
  BY DEF Init, InputType
<1>2. TypeOK /\ [Next]_vars => TypeOK'
  <2> SUFFICES ASSUME TypeOK, [Next]_vars
               PROVE  TypeOK'
    OBVIOUS
  <2>1. ASSUME NEW c \in Callers, NEW i \in Inputs, NEW n \in 0 .. rows[i.flow].version,
               Start(c, i, n)
        PROVE  TypeOK'
    <3>1. /\ i \in InputType
          /\ i.flow \in Flows
          /\ i.actions \in {"none", "internal", "external"}
      BY DEF InputType
    <3>2. n \in Nat
      BY <3>1, VersionIsNat
    <3> QED
      BY <2>1, <3>1, <3>2 DEF Start
  <2>2. ASSUME NEW c \in Callers, ValidateInput(c)
        PROVE  TypeOK'
    BY <2>2 DEF ValidateInput, Leave
  <2>3. ASSUME NEW c \in Callers, CheckRules(c)
        PROVE  TypeOK'
    <3>1. Decision(input[c]) \in {"RUNNING", "BLOCKED", "COMPLETED"}
      BY DEF Decision
    <3> QED
      BY <2>3, <3>1 DEF CheckRules, Leave
  <2>4. ASSUME NEW c \in Callers, AssistContext(c)
        PROVE  TypeOK'
    BY <2>4 DEF AssistContext, Leave
  <2>5. ASSUME NEW c \in Callers, BuildProposal(c)
        PROVE  TypeOK'
    BY <2>5 DEF BuildProposal, Leave
  <2>6. ASSUME NEW c \in Callers, WaitForHuman(c)
        PROVE  TypeOK'
    BY <2>6 DEF WaitForHuman, Leave
  <2>7. ASSUME NEW c \in Callers, HandOver(c)
        PROVE  TypeOK'
    BY <2>7 DEF HandOver, Acceptable, Finish, stateVars
  <2>8. ASSUME NEW c \in Callers, pc[c] = "save", Current(c), Stores(c)
        PROVE  rows' \in [Flows -> Rows \union {NoRow}]
    <3>1. Checkpoint(c) \in Rows
      BY <2>8 DEF Checkpoint, Rows
    <3> QED
      BY <2>8, <3>1 DEF Stores
  <2>9. ASSUME NEW c \in Callers, Save(c)
        PROVE  TypeOK'
    <3>1. CASE Current(c)
      BY <2>9, <3>1, <2>8 DEF Save, stateVars
    <3>2. CASE ~Current(c)
      BY <2>9, <3>2 DEF Save, Finish
    <3> QED
      BY <3>1, <3>2
  <2>10. ASSUME NEW c \in Callers, ReadBack(c)
         PROVE  TypeOK'
    <3>1. input[c].flow \in Flows /\ expected[c] + 1 \in Nat
      BY <2>10 DEF ReadBack, InputType
    <3> QED
      BY <2>10, <3>1 DEF ReadBack, Finish
  <2>11. ASSUME NEW c \in Callers, Dies(c)
         PROVE  TypeOK'
    BY <2>11 DEF Dies, Finish
  <2>12. ASSUME NEW c \in Callers, CommitAnswerLost(c)
         PROVE  TypeOK'
    BY <2>12, <2>8 DEF CommitAnswerLost, Finish
  <2>13. CASE UNCHANGED vars
    BY <2>13 DEF vars, stateVars
  <2> QED
    BY <2>1, <2>2, <2>3, <2>4, <2>5, <2>6, <2>7, <2>9, <2>10, <2>11, <2>12, <2>13 DEF Next
<1> QED
  BY <1>1, <1>2, PTL DEF Spec

-----------------------------------------------------------------------------
\* A stored checkpoint waits for the human only after every node of the graph let
\* it pass: validate_input, check_rules, assist_context and build_proposal.
THEOREM WaitingJustified == Spec => []WaitingIsJustified
<1> USE DEF Nodes
<1>1. Init => JustifiedInv
  BY DEF Init, JustifiedInv, TypeOK, Established, Justified, WaitingIsJustified, InputType
<1>2. TypeOK /\ TypeOK' /\ JustifiedInv /\ [Next]_vars => JustifiedInv'
  <2> SUFFICES ASSUME TypeOK, TypeOK', JustifiedInv, [Next]_vars
               PROVE  JustifiedInv'
    OBVIOUS
  <2> DEFINE Runs(c) == Established(c) /\ Justified(c)
  <2>1. \A c \in Callers : Runs(c)
    BY DEF JustifiedInv
  <2>2. ASSUME NEW c \in Callers,
               \A d \in Callers \ {c} :
                 /\ pc'[d] = pc[d] /\ input'[d] = input[d]
                 /\ status'[d] = status[d] /\ actions'[d] = actions[d],
               Runs(c)', WaitingIsJustified'
        PROVE  JustifiedInv'
    <3>1. ASSUME NEW d \in Callers
          PROVE  Runs(d)'
      <4>1. CASE d = c
        BY <2>2, <4>1
      <4>2. CASE d # c
        BY <2>1, <2>2, <4>2 DEF Established, Justified, Acceptable
      <4> QED
        BY <4>1, <4>2
    <3> QED
      BY <2>2, <3>1 DEF JustifiedInv
  <2>3. UNCHANGED rows => WaitingIsJustified'
    BY DEF JustifiedInv, WaitingIsJustified
  <2>4. ASSUME NEW c \in Callers, pc[c] = "save", Stores(c)
        PROVE  WaitingIsJustified'
    <3>1. Justified(c) /\ Acceptable(c) /\ input[c].flow \in Flows
      BY <2>1, <2>4 DEF Justified, TypeOK, InputType
    <3> QED
      BY <2>4, <3>1
      DEF Stores, Checkpoint, Justified, Acceptable, Settled, JustifiedInv, WaitingIsJustified,
          TypeOK, Rows, InputType, NoRow
  <2>5. ASSUME NEW c \in Callers, Finish(c)
        PROVE  /\ Runs(c)'
               /\ \A d \in Callers \ {c} :
                    /\ pc'[d] = pc[d] /\ input'[d] = input[d]
                    /\ status'[d] = status[d] /\ actions'[d] = actions[d]
    BY <2>5 DEF Finish, TypeOK, Established, Justified
  <2>6. ASSUME NEW c \in Callers, NEW i \in Inputs, NEW n \in 0 .. rows[i.flow].version,
               Start(c, i, n)
        PROVE  JustifiedInv'
    <3>1. Runs(c)'
      BY <2>6 DEF Start, TypeOK, Established, Justified
    <3> QED
      BY <2>2, <2>3, <2>6, <3>1 DEF Start, TypeOK
  <2>7. ASSUME NEW c \in Callers, ValidateInput(c)
        PROVE  JustifiedInv'
    <3>1. Runs(c)'
      BY <2>1, <2>7 DEF ValidateInput, Leave, TypeOK, Established, Justified
    <3> QED
      BY <2>2, <2>3, <2>7, <3>1 DEF ValidateInput, Leave, TypeOK
  <2>8. ASSUME NEW c \in Callers, CheckRules(c)
        PROVE  JustifiedInv'
    <3>1. /\ Decision(input[c]) = "RUNNING" => input[c].rules \in {"replan", "replanWithAssist"}
          /\ Decision(input[c]) # "WAITING"
      BY DEF Decision
    <3>2. Runs(c)'
      BY <2>1, <2>8, <3>1 DEF CheckRules, Leave, TypeOK, Established, Justified
    <3> QED
      BY <2>2, <2>3, <2>8, <3>2 DEF CheckRules, Leave, TypeOK
  <2>9. ASSUME NEW c \in Callers, AssistContext(c)
        PROVE  JustifiedInv'
    <3>1. Runs(c)'
      BY <2>1, <2>9 DEF AssistContext, Leave, TypeOK, Established, Justified
    <3> QED
      BY <2>2, <2>3, <2>9, <3>1 DEF AssistContext, Leave, TypeOK
  <2>10. ASSUME NEW c \in Callers, BuildProposal(c)
         PROVE  JustifiedInv'
    <3>1. Runs(c)'
      BY <2>1, <2>10 DEF BuildProposal, Leave, TypeOK, Established, Justified
    <3> QED
      BY <2>2, <2>3, <2>10, <3>1 DEF BuildProposal, Leave, TypeOK
  <2>11. ASSUME NEW c \in Callers, WaitForHuman(c)
         PROVE  JustifiedInv'
    <3>1. Runs(c)'
      BY <2>1, <2>11 DEF WaitForHuman, Leave, TypeOK, Established, Justified, Settled
    <3> QED
      BY <2>2, <2>3, <2>11, <3>1 DEF WaitForHuman, Leave, TypeOK
  <2>12. ASSUME NEW c \in Callers, HandOver(c)
         PROVE  JustifiedInv'
    <3>1. CASE Acceptable(c)
      <4>1. Runs(c)'
        BY <2>1, <2>12, <3>1 DEF HandOver, TypeOK, Established, Justified, Acceptable, stateVars
      <4> QED
        BY <2>2, <2>3, <2>12, <3>1, <4>1 DEF HandOver, TypeOK, stateVars
    <3>2. CASE ~Acceptable(c)
      BY <2>2, <2>3, <2>5, <2>12, <3>2 DEF HandOver
    <3> QED
      BY <3>1, <3>2
  <2>13. ASSUME NEW c \in Callers, Save(c)
         PROVE  JustifiedInv'
    <3>1. CASE Current(c)
      <4>1. Runs(c)'
        BY <2>1, <2>13, <3>1 DEF Save, TypeOK, Established, Justified, stateVars
      <4> QED
        BY <2>2, <2>4, <2>13, <3>1, <4>1 DEF Save, TypeOK, stateVars
    <3>2. CASE ~Current(c)
      BY <2>2, <2>3, <2>5, <2>13, <3>2 DEF Save
    <3> QED
      BY <3>1, <3>2
  <2>14. ASSUME NEW c \in Callers, ReadBack(c)
         PROVE  JustifiedInv'
    BY <2>2, <2>3, <2>5, <2>14 DEF ReadBack
  <2>15. ASSUME NEW c \in Callers, Dies(c)
         PROVE  JustifiedInv'
    BY <2>2, <2>3, <2>5, <2>15 DEF Dies
  <2>16. ASSUME NEW c \in Callers, CommitAnswerLost(c)
         PROVE  JustifiedInv'
    BY <2>2, <2>4, <2>5, <2>16 DEF CommitAnswerLost
  <2>17. CASE UNCHANGED vars
    BY <2>1, <2>3, <2>17 DEF vars, stateVars, JustifiedInv, Established, Justified, Acceptable
  <2> QED
    BY <2>6, <2>7, <2>8, <2>9, <2>10, <2>11, <2>12, <2>13, <2>14, <2>15, <2>16, <2>17 DEF Next
<1>3. JustifiedInv => WaitingIsJustified
  BY DEF JustifiedInv
<1> QED
  BY <1>1, <1>2, <1>3, TypeCorrect, PTL DEF Spec

-----------------------------------------------------------------------------
Refined == [Register!Next]_(Register!vars)

\* A step of one caller c: the others keep what the answers are about.
OthersKeepTheirs(c) ==
  \A d \in Callers \ {c} : pc'[d] = pc[d] /\ input'[d] = input[d] /\ expected'[d] = expected[d]

\* A step that neither saves nor answers is a stutter, or, if its caller had saved,
\* an answer given up.
LEMMA SilentStep ==
  ASSUME TypeOK, AnswersInv, NEW c \in Callers, OthersKeepTheirs(c),
         UNCHANGED <<rows, told>>, pc'[c] # "readBack"
  PROVE  AnswersInv' /\ Refined
<1> USE DEF OthersKeepTheirs
<1>1. AnswersInv'
  BY DEF AnswersInv
<1>2. StoredVersion' = StoredVersion
  BY DEF StoredVersion
<1>3. CASE pc[c] # "readBack"
  <2>1. UntoldVersions' = UntoldVersions
    BY <1>3 DEF UntoldVersions, SavedBy
  <2> QED
    BY <1>1, <1>2, <2>1 DEF Refined, Register!vars
<1>4. CASE pc[c] = "readBack"
  <2> DEFINE f == input[c].flow
             v == expected[c] + 1
  <2>1. f \in Flows /\ v \in UntoldVersions[f]
    BY <1>4 DEF UntoldVersions, SavedBy, TypeOK, InputType
  <2>2. ASSUME NEW d \in Callers \ {c}, pc[d] = "readBack", input[d].flow = f
        PROVE  expected[d] + 1 # v
    <3>1. expected[d] # expected[c]
      BY <1>4, <2>2 DEF AnswersInv
    <3>2. expected[d] \in Nat /\ expected[c] \in Nat
      BY DEF TypeOK
    <3> QED
      BY <3>1, <3>2
  <2>3. UntoldVersions' = [UntoldVersions EXCEPT ![f] = @ \ {v}]
    <3>1. ASSUME NEW g \in Flows
          PROVE  UntoldVersions'[g] = IF g = f THEN UntoldVersions[f] \ {v} ELSE UntoldVersions[g]
      <4>1. SavedBy(g)' = SavedBy(g) \ {c}
        BY DEF SavedBy
      <4>2. CASE g = f
        BY <1>4, <2>2, <4>1, <4>2 DEF UntoldVersions, SavedBy
      <4>3. CASE g # f
        BY <1>4, <4>1, <4>3 DEF UntoldVersions, SavedBy
      <4> QED
        BY <4>2, <4>3
    <3> QED
      BY <2>1, <3>1 DEF UntoldVersions
  <2>4. Register!Abandon(f)
    BY <1>2, <2>1, <2>3 DEF Register!Abandon
  <2> QED
    BY <1>1, <2>1, <2>4 DEF Refined, Register!Next
<1> QED
  BY <1>3, <1>4

\* Storing a checkpoint makes the next version; its caller awaits an answer only if
\* it survives to read the row back.
LEMMA StoreStep ==
  ASSUME TypeOK, AnswersInv, NEW c \in Callers, OthersKeepTheirs(c),
         pc[c] = "save", Current(c), Stores(c), UNCHANGED told,
         \/ pc'[c] = "readBack" /\ UNCHANGED <<input, expected>>
         \/ pc'[c] = "idle"
  PROVE  AnswersInv' /\ Refined
<1> USE DEF OthersKeepTheirs
<1> DEFINE f == input[c].flow
           v == expected[c] + 1
<1>1. f \in Flows /\ expected[c] \in Nat /\ expected[c] = rows[f].version
  BY DEF TypeOK, InputType, Current
<1>2. /\ rows'[f].version = v
      /\ \A g \in Flows \ {f} : rows'[g].version = rows[g].version
  BY <1>1 DEF Stores, Checkpoint, TypeOK
<1>3. \A d \in Callers : pc[d] = "readBack" /\ input[d].flow = f => expected[d] + 1 < v
  BY <1>1 DEF AnswersInv, TypeOK
<1>4. \A w \in told[f] : w \in Nat /\ w < v
  BY <1>1 DEF AnswersInv, TypeOK
<1>5. AnswersInv'
  <2>1. ASSUME NEW g \in Flows, NEW w \in told'[g]
        PROVE  w <= rows'[g].version
    BY <1>1, <1>2, <1>4, <2>1 DEF AnswersInv, TypeOK
  <2>2. ASSUME NEW d \in Callers, pc'[d] = "readBack"
        PROVE  /\ expected'[d] + 1 <= rows'[input'[d].flow].version
               /\ expected'[d] + 1 \notin told'[input'[d].flow]
    <3>1. CASE d = c
      BY <1>1, <1>2, <1>4, <2>2, <3>1
    <3>2. CASE d # c
      <4>1. input[d].flow \in Flows /\ expected[d] \in Nat
        BY <2>2, <3>2 DEF TypeOK, InputType
      <4>2. CASE input[d].flow = f
        BY <1>1, <1>2, <1>3, <2>2, <3>2, <4>1, <4>2 DEF AnswersInv
      <4>3. CASE input[d].flow # f
        BY <1>2, <2>2, <3>2, <4>1, <4>3 DEF AnswersInv
      <4> QED
        BY <4>2, <4>3
    <3> QED
      BY <3>1, <3>2
  <2>3. ASSUME NEW d \in Callers, NEW e \in Callers, pc'[d] = "readBack", pc'[e] = "readBack",
               input'[d].flow = input'[e].flow, expected'[d] = expected'[e]
        PROVE  d = e
    BY <1>1, <1>3, <2>3 DEF AnswersInv, TypeOK
  <2> QED
    BY <2>1, <2>2, <2>3 DEF AnswersInv
<1>6. StoredVersion' = [StoredVersion EXCEPT ![f] = v]
  BY <1>1, <1>2 DEF StoredVersion
<1>7. StoredVersion[f] + 1 = v
  BY <1>1 DEF StoredVersion
<1>8. \/ UntoldVersions' = [UntoldVersions EXCEPT ![f] = @ \union {v}]
      \/ UntoldVersions' = UntoldVersions
  <2>1. CASE pc'[c] = "idle"
    <3>1. \A g \in Flows : SavedBy(g)' = SavedBy(g)
      BY <2>1 DEF SavedBy
    <3>2. \A g \in Flows : \A d \in SavedBy(g) : expected'[d] = expected[d]
      BY DEF SavedBy
    <3> QED
      BY <3>1, <3>2 DEF UntoldVersions
  <2>2. CASE pc'[c] = "readBack" /\ UNCHANGED <<input, expected>>
    <3>1. \A g \in Flows : SavedBy(g)' = IF g = f THEN SavedBy(g) \union {c} ELSE SavedBy(g)
      BY <2>2 DEF SavedBy
    <3>2. ASSUME NEW g \in Flows
          PROVE  UntoldVersions'[g] = IF g = f THEN UntoldVersions[f] \union {v} ELSE UntoldVersions[g]
      <4>1. UntoldVersions'[g] = {expected[d] + 1 : d \in SavedBy(g)'}
        BY <2>2 DEF UntoldVersions
      <4>2. UntoldVersions[g] = {expected[d] + 1 : d \in SavedBy(g)}
        BY DEF UntoldVersions
      <4> QED
        BY <3>1, <4>1, <4>2
    <3> QED
      BY <1>1, <3>2 DEF UntoldVersions
  <2> QED
    BY <2>1, <2>2
<1>9. Register!Save(f)
  BY <1>6, <1>7, <1>8 DEF Register!Save
<1> QED
  BY <1>1, <1>5, <1>9 DEF Refined, Register!Next

\* The caller that reads its row back is told a version nobody was told before.
LEMMA AnswerStep ==
  ASSUME TypeOK, AnswersInv, NEW c \in Callers, ReadBack(c)
  PROVE  AnswersInv' /\ Refined
<1> DEFINE f == input[c].flow
           v == expected[c] + 1
<1>1. f \in Flows /\ v \in Nat /\ pc[c] = "readBack" /\ pc'[c] = "idle" /\ OthersKeepTheirs(c)
  BY DEF ReadBack, Finish, OthersKeepTheirs, TypeOK, InputType
<1>2. UNCHANGED rows /\ told' = [told EXCEPT ![f] = @ \union {v}]
  BY DEF ReadBack
<1>3. v \in UntoldVersions[f] \ told[f]
  BY <1>1 DEF UntoldVersions, SavedBy, AnswersInv
<1>4. \A d \in Callers \ {c} : pc[d] = "readBack" /\ input[d].flow = f => expected[d] + 1 # v
  BY <1>1 DEF AnswersInv, TypeOK
<1>5. AnswersInv'
  <2>1. ASSUME NEW g \in Flows, NEW w \in told'[g]
        PROVE  w <= rows'[g].version
    BY <1>1, <1>2, <2>1 DEF AnswersInv, TypeOK
  <2>2. ASSUME NEW d \in Callers, pc'[d] = "readBack"
        PROVE  /\ expected'[d] + 1 <= rows'[input'[d].flow].version
               /\ expected'[d] + 1 \notin told'[input'[d].flow]
    <3>1. d # c /\ pc[d] = "readBack" /\ input[d].flow \in Flows
      BY <1>1, <2>2 DEF OthersKeepTheirs, TypeOK, InputType
    <3> QED
      BY <1>1, <1>2, <1>4, <3>1 DEF OthersKeepTheirs, AnswersInv, TypeOK
  <2>3. ASSUME NEW d \in Callers, NEW e \in Callers, pc'[d] = "readBack", pc'[e] = "readBack",
               input'[d].flow = input'[e].flow, expected'[d] = expected'[e]
        PROVE  d = e
    BY <1>1, <2>3 DEF OthersKeepTheirs, AnswersInv
  <2> QED
    BY <2>1, <2>2, <2>3 DEF AnswersInv
<1>6. StoredVersion' = StoredVersion
  BY <1>2 DEF StoredVersion
<1>7. UntoldVersions' = [UntoldVersions EXCEPT ![f] = @ \ {v}]
  <2>1. ASSUME NEW g \in Flows
        PROVE  UntoldVersions'[g] = IF g = f THEN UntoldVersions[f] \ {v} ELSE UntoldVersions[g]
    <3>1. SavedBy(g)' = SavedBy(g) \ {c}
      BY <1>1 DEF SavedBy, OthersKeepTheirs
    <3>2. CASE g = f
      BY <1>1, <1>4, <3>1, <3>2 DEF UntoldVersions, SavedBy, OthersKeepTheirs
    <3>3. CASE g # f
      BY <1>1, <3>1, <3>3 DEF UntoldVersions, SavedBy, OthersKeepTheirs
    <3> QED
      BY <3>2, <3>3
  <2> QED
    BY <1>1, <2>1 DEF UntoldVersions
<1>8. Register!Tell(f)
  BY <1>2, <1>3, <1>6, <1>7 DEF Register!Tell
<1> QED
  BY <1>1, <1>5, <1>8 DEF Refined, Register!Next

LEMMA StepRefines == TypeOK /\ AnswersInv /\ [Next]_vars => AnswersInv' /\ Refined
<1> SUFFICES ASSUME TypeOK, AnswersInv, [Next]_vars
             PROVE  AnswersInv' /\ Refined
  OBVIOUS
<1> USE DEF TypeOK, Nodes, OthersKeepTheirs
<1>1. ASSUME NEW c \in Callers, NEW i \in Inputs, NEW n \in 0 .. rows[i.flow].version,
             Start(c, i, n)
      PROVE  AnswersInv' /\ Refined
  BY <1>1, SilentStep DEF Start
<1>2. ASSUME NEW c \in Callers,
             \/ ValidateInput(c) \/ CheckRules(c) \/ AssistContext(c)
             \/ BuildProposal(c) \/ WaitForHuman(c)
      PROVE  AnswersInv' /\ Refined
  BY <1>2, SilentStep DEF ValidateInput, CheckRules, AssistContext, BuildProposal, WaitForHuman, Leave
<1>3. ASSUME NEW c \in Callers, HandOver(c)
      PROVE  AnswersInv' /\ Refined
  BY <1>3, SilentStep DEF HandOver, Finish, stateVars
<1>4. ASSUME NEW c \in Callers, Save(c)
      PROVE  AnswersInv' /\ Refined
  <2>1. CASE Current(c)
    BY <1>4, <2>1, StoreStep DEF Save, stateVars
  <2>2. CASE ~Current(c)
    BY <1>4, <2>2, SilentStep DEF Save, Finish
  <2> QED
    BY <2>1, <2>2
<1>5. ASSUME NEW c \in Callers, Dies(c)
      PROVE  AnswersInv' /\ Refined
  BY <1>5, SilentStep DEF Dies, Finish
<1>6. ASSUME NEW c \in Callers, CommitAnswerLost(c)
      PROVE  AnswersInv' /\ Refined
  BY <1>6, StoreStep DEF CommitAnswerLost, Finish
<1>7. CASE UNCHANGED vars
  BY <1>7 DEF vars, stateVars, AnswersInv, Refined, Register!vars, StoredVersion, UntoldVersions, SavedBy
<1> QED
  BY <1>1, <1>2, <1>3, <1>4, <1>5, <1>6, <1>7, AnswerStep DEF Next

\* The checkpoint rows implement the versioned register: save_agent_checkpoint
\* issues the versions of a flow one after another, and no two callers are told
\* that they made the same one.
THEOREM ImplementsRegister == Spec => RefinesRegister
<1>1. Init => AnswersInv /\ Register!Init
  BY DEF Init, AnswersInv, Register!Init, StoredVersion, UntoldVersions, SavedBy, NoRow
<1>2. TypeOK /\ AnswersInv /\ [Next]_vars => AnswersInv' /\ [Register!Next]_(Register!vars)
  BY StepRefines DEF Refined
<1> QED
  BY <1>1, <1>2, TypeCorrect, PTL DEF Spec, RefinesRegister, Register!Spec
=============================================================================
