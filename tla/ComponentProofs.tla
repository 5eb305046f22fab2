-------------------------- MODULE ComponentProofs --------------------------
(***************************************************************************)
(* Proofs about eight components that share nothing but the services run,  *)
(* each for any requests, threads, forms, calls and crashes:               *)
(*   OAuthToken     the server does not lose the token pair by itself;     *)
(*   FeedbackForm   an opinion is stored at most once;                     *)
(*   ScheduleReplan what was answered is found, and moves what it should;  *)
(*   MappingReview  a sale is mapped only to a SKU that was in force;      *)
(*   ReadBootstrap  a request is sent with a token of the four read scopes,*)
(*                  and a batch with a manifest is whole;                  *)
(*   PolicyExplanation   what is answered rests on current evidence;       *)
(*   ReservationTasks    the types, the task list, the age of tasks;       *)
(*   ShortageProjection  what is asked for and missing adds up.            *)
(* A part says what a step does to the state (an effect) before it shows   *)
(* that the steps keep the inductive invariant.                            *)
(***************************************************************************)
EXTENDS OAuthToken, FeedbackForm, ScheduleReplan, MappingReview, ReadBootstrap,
        PolicyExplanation, ReservationTasks, ShortageProjection,
        WellFoundedInduction, FiniteSetTheorems, SequenceTheorems, TLAPS

-----------------------------------------------------------------------------
(* OAuthToken: the inductive invariant                                     *)

TokenBusy(r)   == request[r].pc # "idle"
IssuedSoFar     == 0 .. issued
TokenStoring   == \E r \in TokenThreads : request[r].pc = "store"
TokenFilling(r) == request[r].pc \in {"fill", "fillFile", "fillGone"}
TokenSaving(r) == request[r].pc \in {"readMeta", "write", "replace"} \/ TokenFilling(r)

\* No token is used that was not issued.
TokensAreIssued ==
  /\ usable \subseteq 1 .. issued
  /\ memory.token \in IssuedSoFar /\ file.token \in IssuedSoFar /\ fileTmp.token \in IssuedSoFar
  /\ \A r \in TokenThreads : TokenBusy(r) => request[r].token \in IssuedSoFar

\* A token that is still to be stored is usable and nobody else has it.
FreshTokens ==
  \A r \in TokenThreads : request[r].pc = "store" =>
    /\ request[r].token \in usable
    /\ request[r].token # memory.token /\ request[r].token # file.token /\ request[r].token # fileTmp.token
    /\ \A q \in TokenThreads \ {r} : TokenBusy(q) => request[q].token # request[r].token

\* A request that nothing disturbed is the only one, and saves what is in memory.
AloneRequests ==
  \A r \in TokenThreads : (TokenBusy(r) /\ request[r].alone) =>
    /\ \A q \in TokenThreads \ {r} : ~TokenBusy(q)
    /\ TokenSaving(r) => request[r].token = memory.token
    /\ request[r].pc = "read" => memory.meta
    /\ request[r].pc = "readMeta" /\ request[r].op = "restore" => memory.meta
    /\ request[r].pc \in {"write", "fill", "replace"} => request[r].meta
    /\ request[r].pc \notin {"fillFile", "fillGone"}
    /\ request[r].pc = "replace" => fileTmp.token = request[r].token /\ fileTmp.meta

\* A request has the token's file open only after a replacement it disturbed.
OpenFileIsBehind == \A r \in TokenThreads : request[r].pc = "fillFile" => behind

RequestOps ==
  \A r \in TokenThreads :
    /\ request[r].pc = "read" => request[r].op = "restore"
    /\ request[r].pc = "readMeta" => request[r].op \in {"persist", "restore"}

\* A request that saves found a token in memory, and it takes a /start to clear it.
TokenIsHeld ==
  ~forgotten => \A r \in TokenThreads : (request[r].pc \in {"storeMeta", "read"} \/ TokenSaving(r)) => memory.token # 0

\* Either a new token is about to be stored, or the one in memory is usable and,
\* when nothing is behind, so is the one in the file.
TokenIsSomewhere ==
  (issued > 0 /\ ~forgotten) =>
    \/ TokenStoring
    \/ /\ memory.token # 0 => memory.token \in usable
       /\ memory.token = 0 => ~behind
       /\ ~behind => file.token \in usable /\ file.meta

TokenInv == /\ TokenTypeOK /\ TokensAreIssued /\ FreshTokens /\ AloneRequests
            /\ OpenFileIsBehind /\ RequestOps /\ TokenIsHeld /\ TokenIsSomewhere

-----------------------------------------------------------------------------
(* What a step does to the request that takes it and to the three places.  *)

TokenRequests == Serving \union {Resting}
PlacesRest    == UNCHANGED <<memory, file, fileTmp>>
HistoryRests  == UNCHANGED <<behind, forgotten>>

\* The request takes a step, or answers.
OwnStep(r) == /\ request[r] \in Serving /\ request' \in [TokenThreads -> TokenRequests]
              /\ \A q \in TokenThreads \ {r} : request'[q] = request[q]
Goes(r, from, to) ==
  /\ OwnStep(r)
  /\ request[r].pc = from /\ request'[r].pc = to
  /\ request'[r].op = request[r].op /\ request'[r].alone = request[r].alone
Leaves(r) == OwnStep(r) /\ request'[r].pc = "idle"
KeepsToken(r) == request'[r].token = request[r].token
KeepsMeta(r)  == request'[r].meta = request[r].meta

ArrivedStep(r) ==
  /\ request[r].pc = "idle" /\ request' \in [TokenThreads -> TokenRequests]
  /\ request'[r].pc \in {"clear", "take", "use", "readMeta"}
  /\ request'[r].token \in {0, memory.token, file.token}
  /\ request'[r].pc = "readMeta" =>
       request'[r].op = "persist" /\ request'[r].token = memory.token /\ memory.token # 0
  /\ request'[r].alone => \A q \in TokenThreads \ {r} : ~TokenBusy(q)
  /\ \A q \in TokenThreads \ {r} :
       \/ ~TokenBusy(q) /\ request'[q] = request[q]
       \/ /\ TokenBusy(q) /\ request'[q].pc = request[q].pc /\ request'[q].op = request[q].op
          /\ request'[q].token = request[q].token /\ ~request'[q].alone
  /\ UNCHANGED <<usable, issued, lost>> /\ PlacesRest /\ HistoryRests

ClearStep(r) ==
  \/ /\ Goes(r, "clear", "clearMeta")
     /\ memory' \in Tokens /\ memory'.token = 0 /\ memory'.meta = memory.meta
     /\ forgotten' = (forgotten \/ behind \/ \E q \in TokenThreads \ {r} : TokenBusy(q))
     /\ KeepsToken(r)
     /\ UNCHANGED <<usable, issued, lost, file, fileTmp, behind>>
  \/ /\ request[r].pc = "clearMeta" /\ Leaves(r)
     /\ memory' \in Tokens /\ memory'.token = memory.token
     /\ UNCHANGED <<usable, issued, lost, file, fileTmp>> /\ HistoryRests

\* A request that the places do not notice.
QuietStep(r) ==
  /\ \/ Goes(r, "take", "exchange") /\ KeepsToken(r)
     \/ request[r].pc \in {"exchange", "use", "read", "readMeta"} /\ Leaves(r)
     \/ Goes(r, "read", "readMeta") /\ request'[r].token = memory.token /\ memory.token # 0
     \/ /\ Goes(r, "readMeta", "write") /\ KeepsToken(r)
        /\ request'[r].meta = memory.meta /\ (request[r].op = "persist" => memory.meta)
  /\ UNCHANGED <<usable, issued, lost>> /\ PlacesRest /\ HistoryRests

IssueStep(r) ==
  /\ request[r].pc \in {"exchange", "use"}
  /\ issued < MaxTokens /\ issued' = issued + 1
  /\ usable' = (usable \ {request[r].token}) \union {issued + 1}
  /\ PlacesRest /\ UNCHANGED behind
  /\ \/ Goes(r, request[r].pc, "store") /\ request'[r].token = issued + 1 /\ UNCHANGED <<lost, forgotten>>
     \/ Leaves(r) /\ forgotten' = TRUE /\ lost' \in 0 .. MaxLost

StoreStep(r) ==
  \/ /\ Goes(r, "store", "storeMeta") /\ KeepsToken(r)
     /\ memory' \in Tokens /\ memory'.token = request[r].token /\ behind' = TRUE
     /\ UNCHANGED <<usable, issued, lost, file, fileTmp, forgotten>>
  \/ /\ request[r].pc = "storeMeta" /\ ((Goes(r, "storeMeta", "read") /\ request[r].op = "restore") \/ Leaves(r))
     /\ KeepsToken(r) \/ Leaves(r)
     /\ memory' \in Tokens /\ memory'.token = memory.token /\ memory'.meta = TRUE
     /\ UNCHANGED <<usable, issued, lost, file, fileTmp>> /\ HistoryRests

\* What a request fills its file with: what it saves, if it is alone.
SavedBy(r, v) ==
  /\ v \in Tokens /\ v.token \in {0, request[r].token}
  /\ request[r].alone => v.token = request[r].token /\ v.meta = request[r].meta

SaveStep(r) ==
  /\ KeepsToken(r) /\ KeepsMeta(r)
  /\ \/ /\ Goes(r, "write", "fill")
        /\ fileTmp' \in Tokens /\ fileTmp'.token = 0 /\ UNCHANGED file
     \/ Goes(r, "fill", "replace") /\ SavedBy(r, fileTmp') /\ UNCHANGED file
     \/ Goes(r, "fillFile", "replace") /\ SavedBy(r, file') /\ UNCHANGED fileTmp
     \/ Goes(r, "fillGone", "replace") /\ UNCHANGED <<file, fileTmp>>
  /\ UNCHANGED <<usable, issued, lost, memory>> /\ HistoryRests

\* A request ends with a replacement, which moves the file that others have open.
MoveStep(r) ==
  /\ request[r].pc = "replace" /\ request'[r].pc = "idle" /\ request' \in [TokenThreads -> TokenRequests]
  /\ \/ /\ UNCHANGED <<file, behind>>
        /\ \A q \in TokenThreads \ {r} : request'[q] = request[q]
     \/ /\ file' = fileTmp /\ behind' = ~request[r].alone
        /\ \A q \in TokenThreads \ {r} :
             \/ request'[q] = request[q] /\ ~TokenFilling(q)
             \/ /\ TokenFilling(q) /\ request'[q].pc \in {"fillFile", "fillGone"}
                /\ request'[q].op = request[q].op /\ request'[q].token = request[q].token
                /\ request'[q].alone = request[q].alone
  /\ fileTmp' = NoToken
  /\ UNCHANGED <<usable, issued, lost, memory, forgotten>>

\* A restart, or a state of the provider's that expires.
ServerStep ==
  \/ /\ \A r \in TokenThreads : request'[r].pc = "idle"
     /\ request' \in [TokenThreads -> TokenRequests]
     /\ memory' = NoToken /\ lost' \in 0 .. MaxLost
     /\ forgotten' = (forgotten \/ behind \/ \E r \in TokenThreads : TokenBusy(r))
     /\ UNCHANGED <<usable, issued, file, fileTmp, behind>>
  \/ UNCHANGED <<usable, issued, lost, request>> /\ PlacesRest /\ HistoryRests

TokenEffect ==
  /\ pending' \in BOOLEAN
  /\ \/ ServerStep
     \/ \E r \in TokenThreads : \/ ArrivedStep(r) \/ ClearStep(r) \/ QuietStep(r) \/ IssueStep(r)
                                \/ StoreStep(r) \/ SaveStep(r) \/ MoveStep(r)

ServingPcs == {"clear", "clearMeta", "take", "exchange", "read", "use", "store", "storeMeta",
               "readMeta", "write", "fill", "fillFile", "fillGone", "replace"}

\* What becomes of a request that is served.
LEMMA ServedFields ==
  ASSUME NEW s \in Serving
  PROVE  /\ s.pc \in ServingPcs /\ s.pc # "idle" /\ s.op \in {"start", "callback", "refresh", "persist", "restore"}
         /\ s.token \in 0 .. MaxTokens /\ s.meta \in BOOLEAN /\ s.alone \in BOOLEAN
BY DEF Serving, ServingPcs

LEMMA ServedPc ==
  ASSUME NEW s \in Serving, NEW pc \in ServingPcs, NEW a, a = [s EXCEPT !.pc = pc]
  PROVE  a \in Serving /\ a.pc = pc /\ a.op = s.op /\ a.token = s.token /\ a.meta = s.meta /\ a.alone = s.alone
BY DEF Serving, ServingPcs

LEMMA ServedDisturbed ==
  ASSUME NEW s \in Serving, NEW a, a = [s EXCEPT !.alone = FALSE]
  PROVE  a \in Serving /\ a.pc = s.pc /\ a.op = s.op /\ a.token = s.token /\ a.meta = s.meta /\ a.alone = FALSE
BY DEF Serving

\* Every step of the token store has one of the effects.
LEMMA TokenSteps == ASSUME TokenTypeOK, TokenNext PROVE TokenEffect
<1> USE TokenAssumption DEF RequestAt, Op, Answer, RequestTo, ProviderUnchanged,
        TokenFilesUnchanged, HistoryUnchanged, PlacesRest, HistoryRests, TokenRequests
<1>0. /\ request \in [TokenThreads -> TokenRequests] /\ Resting.pc = "idle" /\ NoToken \in Tokens
      /\ memory \in Tokens /\ file \in Tokens /\ fileTmp \in Tokens /\ pending \in BOOLEAN
      /\ lost \in 0 .. MaxLost /\ issued \in 0 .. MaxTokens
      /\ memory.token \in 0 .. MaxTokens /\ file.token \in 0 .. MaxTokens
      /\ memory.meta \in BOOLEAN
  BY DEF TokenTypeOK, Resting, NoToken, Tokens
<1>1. CASE Expired BY <1>0, <1>1 DEF Expired, TokenEffect, ServerStep
<1>2. CASE Reboot
  <2>1. /\ \A r \in TokenThreads : request'[r] = Resting
        /\ request' \in [TokenThreads -> TokenRequests]
    BY <1>2 DEF Reboot
  <2>2. memory' = NoToken /\ pending' = FALSE /\ lost' \in 0 .. MaxLost
        /\ UNCHANGED <<usable, issued, file, fileTmp, behind>>
    BY <1>0, <1>2 DEF Reboot
  <2>3. forgotten' = (forgotten \/ behind \/ \E r \in TokenThreads : TokenBusy(r))
    BY <1>2 DEF Reboot, TokenBusy
  <2>4. ServerStep BY <1>0, <2>1, <2>2, <2>3 DEF ServerStep
  <2>5. QED BY <2>2, <2>4 DEF TokenEffect
<1>3. ASSUME NEW r \in TokenThreads, TokenStep(r) PROVE TokenEffect
  <2>0. /\ request[r].pc # "idle" => request[r] \in Serving
        /\ request[r].pc = "idle" => request[r] = Resting
    BY <1>0 DEF Serving, Resting
  <2>1. CASE Start(r) \/ Callback(r) \/ Refresh(r) \/ Persist(r) \/ Restore(r)
    <3>1. PICK op \in {"start", "callback", "refresh", "persist", "restore"},
               pc \in {"clear", "take", "use", "readMeta"}, token \in {0, memory.token, file.token} :
            /\ Arrives(r, op, pc, token)
            /\ pc = "readMeta" => op = "persist" /\ token = memory.token /\ memory.token # 0
      BY <2>1 DEF Start, Callback, Refresh, Persist, Restore
    <3>2. pending' \in BOOLEAN /\ UNCHANGED <<memory, file, fileTmp>>
      BY <1>0, <2>1 DEF Start, Callback, Refresh, Persist, Restore
    <3>3. PICK n : n = [pc |-> pc, op |-> op, token |-> token, meta |-> FALSE, alone |-> Others(r) = {}]
      OBVIOUS
    <3>4. n \in Serving /\ n.pc = pc /\ n.op = op /\ n.token = token /\ n.alone = (Others(r) = {})
      BY <1>0, <3>3 DEF Serving
    <3>5. ASSUME NEW q \in Others(r) PROVE request[q] \in Serving
      BY <1>0, <3>5 DEF Others, Resting
    <3>6. request' = [q \in TokenThreads |-> IF q = r THEN n
                        ELSE IF q \in Others(r) THEN [request[q] EXCEPT !.alone = FALSE] ELSE request[q]]
      BY <3>1, <3>3 DEF Arrives
    <3>7. request'[r] = n /\ request' \in [TokenThreads -> TokenRequests]
      <4>1. ASSUME NEW q \in Others(r) PROVE [request[q] EXCEPT !.alone = FALSE] \in Serving
        <5>1. request[q] \in Serving BY <3>5
        <5>2. QED BY <5>1, ServedDisturbed
      <4>2. QED BY <1>0, <3>4, <3>6, <4>1
    <3>8. \A q \in TokenThreads \ {r} :
            \/ ~TokenBusy(q) /\ request'[q] = request[q]
            \/ /\ TokenBusy(q) /\ request'[q].pc = request[q].pc /\ request'[q].op = request[q].op
               /\ request'[q].token = request[q].token /\ ~request'[q].alone
      <4> SUFFICES ASSUME NEW q \in TokenThreads \ {r}
                   PROVE  \/ ~TokenBusy(q) /\ request'[q] = request[q]
                          \/ /\ TokenBusy(q) /\ request'[q].pc = request[q].pc /\ request'[q].op = request[q].op
                             /\ request'[q].token = request[q].token /\ ~request'[q].alone
        OBVIOUS
      <4>1. q \in Others(r) <=> TokenBusy(q) BY DEF Others, TokenBusy
      <4>2. CASE TokenBusy(q)
        <5>1. request'[q] = [request[q] EXCEPT !.alone = FALSE] BY <3>6, <4>1, <4>2
        <5>2. request[q] \in Serving BY <3>5, <4>1, <4>2
        <5>3. QED BY <4>2, <5>1, <5>2, ServedDisturbed
      <4>3. CASE ~TokenBusy(q) BY <3>6, <4>1, <4>3
      <4>4. QED BY <4>2, <4>3
    <3>9. ASSUME n.alone, NEW q \in TokenThreads \ {r} PROVE ~TokenBusy(q)
      BY <3>4, <3>9 DEF Others, TokenBusy
    <3>10. ArrivedStep(r)
      BY <3>1, <3>2, <3>4, <3>7, <3>8, <3>9 DEF ArrivedStep, Arrives
    <3>11. QED BY <3>2, <3>10 DEF TokenEffect
  <2>2. CASE ClearToken(r) \/ ClearMeta(r) \/ StoreToken(r) \/ StoreMeta(r)
    <3>1. request[r] \in Serving BY <2>0, <2>2 DEF ClearToken, ClearMeta, StoreToken, StoreMeta
    <3>2. /\ [memory EXCEPT !.token = 0] \in Tokens /\ [memory EXCEPT !.token = 0].token = 0
          /\ [memory EXCEPT !.token = 0].meta = memory.meta
      BY <1>0 DEF Tokens
    <3>3. ASSUME NEW b \in BOOLEAN
          PROVE  /\ [memory EXCEPT !.meta = b] \in Tokens /\ [memory EXCEPT !.meta = b].meta = b
                 /\ [memory EXCEPT !.meta = b].token = memory.token
      BY <1>0 DEF Tokens
    <3>4. /\ [memory EXCEPT !.token = request[r].token] \in Tokens
          /\ [memory EXCEPT !.token = request[r].token].token = request[r].token
      BY <1>0, <3>1 DEF Tokens, Serving
    <3>5. CASE ClearToken(r)
      <4>1. Goes(r, "clear", "clearMeta") /\ KeepsToken(r)
        BY <1>0, <3>1, <3>5, ServedPc DEF ClearToken, Goes, OwnStep, KeepsToken, ServingPcs
      <4>2. memory' \in Tokens /\ memory'.token = 0 /\ memory'.meta = memory.meta
        BY <3>2, <3>5 DEF ClearToken
      <4>3. /\ forgotten' = (forgotten \/ behind \/ \E q \in TokenThreads \ {r} : TokenBusy(q))
            /\ UNCHANGED <<usable, issued, lost, file, fileTmp, behind, pending>>
        BY <3>5 DEF ClearToken, Others, TokenBusy
      <4>4. QED BY <1>0, <4>1, <4>2, <4>3 DEF ClearStep, TokenEffect
    <3>6. CASE ClearMeta(r)
      <4>1. Leaves(r) BY <1>0, <3>1, <3>6 DEF ClearMeta, Leaves, OwnStep
      <4>2. QED BY <1>0, <3>3, <3>6, <4>1 DEF ClearMeta, ClearStep, TokenEffect
    <3>7. CASE StoreToken(r)
      <4>1. Goes(r, "store", "storeMeta") /\ KeepsToken(r)
        BY <1>0, <3>1, <3>7, ServedPc DEF StoreToken, Goes, OwnStep, KeepsToken, ServingPcs
      <4>2. QED BY <1>0, <3>4, <3>7, <4>1 DEF StoreToken, StoreStep, TokenEffect
    <3>8. CASE StoreMeta(r)
      <4>1. \/ Goes(r, "storeMeta", "read") /\ request[r].op = "restore" /\ KeepsToken(r)
            \/ Leaves(r)
        BY <1>0, <3>1, <3>8, ServedPc DEF StoreMeta, Goes, Leaves, OwnStep, KeepsToken, ServingPcs
      <4>2. QED BY <1>0, <3>3, <3>8, <4>1 DEF StoreMeta, StoreStep, TokenEffect
    <3>9. QED BY <2>2, <3>5, <3>6, <3>7, <3>8
  <2>3. CASE TakeState(r) \/ Refuse(r) \/ ReadToken(r) \/ ReadMeta(r)
    <3>1. request[r] \in Serving BY <2>0, <2>3 DEF TakeState, Refuse, ReadToken, ReadMeta
    <3>2. /\ UNCHANGED <<usable, issued, lost, memory, file, fileTmp, behind, forgotten>>
          /\ pending' \in BOOLEAN
      BY <1>0, <2>3 DEF TakeState, Refuse, ReadToken, ReadMeta
    <3>3. CASE TakeState(r)
      <4>1. Goes(r, "take", "exchange") /\ KeepsToken(r)
        BY <1>0, <3>1, <3>3, ServedPc DEF TakeState, Goes, OwnStep, KeepsToken, ServingPcs
      <4>2. QED BY <3>2, <4>1 DEF QuietStep, TokenEffect
    <3>4. CASE Refuse(r)
      <4>1. Leaves(r) BY <1>0, <3>1, <3>4 DEF Refuse, Leaves, OwnStep
      <4>2. QED BY <3>2, <3>4, <4>1 DEF QuietStep, TokenEffect, Refuse
    <3>5. CASE ReadToken(r)
      <4>1. \/ Leaves(r)
            \/ Goes(r, "read", "readMeta") /\ request'[r].token = memory.token /\ memory.token # 0
        <5>1. PICK a : a = [request[r] EXCEPT !.pc = "readMeta", !.token = memory.token] OBVIOUS
        <5>2. /\ a \in Serving /\ a.pc = "readMeta" /\ a.op = request[r].op /\ a.token = memory.token
              /\ a.alone = request[r].alone
          BY <1>0, <3>1, <5>1 DEF Serving
        <5>3. \/ request' = [request EXCEPT ![r] = Resting]
              \/ request' = [request EXCEPT ![r] = a] /\ memory.token # 0
          BY <3>5, <5>1 DEF ReadToken
        <5>4. request[r].pc = "read" BY <3>5 DEF ReadToken
        <5>5. QED BY <1>0, <3>1, <5>2, <5>3, <5>4 DEF Goes, Leaves, OwnStep
      <4>2. QED BY <3>2, <3>5, <4>1 DEF QuietStep, TokenEffect, ReadToken
    <3>6. CASE ReadMeta(r)
      <4>1. \/ Leaves(r)
            \/ /\ Goes(r, "readMeta", "write") /\ KeepsToken(r)
               /\ request'[r].meta = memory.meta /\ (request[r].op = "persist" => memory.meta)
        <5>1. PICK a : a = [request[r] EXCEPT !.pc = "write", !.meta = memory.meta] OBVIOUS
        <5>2. /\ a \in Serving /\ a.pc = "write" /\ a.op = request[r].op /\ a.token = request[r].token
              /\ a.meta = memory.meta /\ a.alone = request[r].alone
          BY <1>0, <3>1, <5>1 DEF Serving
        <5>3. \/ request' = [request EXCEPT ![r] = Resting]
              \/ request' = [request EXCEPT ![r] = a] /\ (request[r].op = "persist" => memory.meta)
          BY <3>6, <5>1 DEF ReadMeta
        <5>4. request[r].pc = "readMeta" BY <3>6 DEF ReadMeta
        <5>5. QED BY <1>0, <3>1, <5>2, <5>3, <5>4 DEF Goes, Leaves, OwnStep, KeepsToken
      <4>2. QED BY <3>2, <3>6, <4>1 DEF QuietStep, TokenEffect, ReadMeta
    <3>7. QED BY <2>3, <3>3, <3>4, <3>5, <3>6
  <2>4. CASE Issue(r) \/ LoseAnswer(r)
    <3>1. request[r] \in Serving BY <2>0, <2>4 DEF Issue, LoseAnswer, Granted
    <3>2. /\ request[r].pc \in {"exchange", "use"} /\ issued < MaxTokens /\ issued' = issued + 1
          /\ usable' = (usable \ {request[r].token}) \union {issued + 1}
          /\ UNCHANGED <<memory, file, fileTmp, behind, pending>>
      BY <2>4 DEF Issue, LoseAnswer, Granted, Issues
    <3>3. CASE Issue(r)
      <4>1. issued + 1 \in 0 .. MaxTokens BY <1>0, <3>2
      <4>2. Goes(r, request[r].pc, "store") /\ request'[r].token = issued + 1
        <5>1. PICK a : a = [request[r] EXCEPT !.pc = "store", !.token = issued + 1] OBVIOUS
        <5>2. /\ a \in Serving /\ a.pc = "store" /\ a.op = request[r].op /\ a.token = issued + 1
              /\ a.alone = request[r].alone
          BY <3>1, <4>1, <5>1 DEF Serving
        <5>3. request' = [request EXCEPT ![r] = a] BY <3>3, <5>1 DEF Issue
        <5>4. QED BY <1>0, <3>1, <5>2, <5>3 DEF Goes, OwnStep
      <4>3. QED BY <1>0, <3>2, <3>3, <4>2 DEF Issue, IssueStep, TokenEffect
    <3>4. CASE LoseAnswer(r)
      <4>1. Leaves(r) BY <1>0, <3>1, <3>4 DEF LoseAnswer, Leaves, OwnStep
      <4>2. lost' \in 0 .. MaxLost /\ forgotten' = TRUE BY <1>0, <3>4 DEF LoseAnswer
      <4>3. QED BY <1>0, <3>2, <4>1, <4>2 DEF IssueStep, TokenEffect
    <3>5. QED BY <2>4, <3>3, <3>4
  <2>5. CASE OpenTokenTmp(r)
    <3>1. request[r] \in Serving BY <2>0, <2>5 DEF OpenTokenTmp
    <3>2. Goes(r, "write", "fill") /\ KeepsToken(r) /\ KeepsMeta(r)
      BY <1>0, <2>5, <3>1, ServedPc DEF OpenTokenTmp, Goes, OwnStep, KeepsToken, KeepsMeta, ServingPcs
    <3>3. fileTmp' \in Tokens /\ fileTmp'.token = 0
      BY <2>5 DEF OpenTokenTmp, Torn, Tokens
    <3>4. QED BY <1>0, <2>5, <3>2, <3>3 DEF OpenTokenTmp, SaveStep, TokenEffect
  <2>6. CASE FillTokenTmp(r)
    <3>1. PICK pc \in {"fill", "fillFile", "fillGone"} : request[r].pc = pc BY <2>6 DEF FillTokenTmp
    <3>2. request[r] \in Serving BY <2>0, <3>1
    <3>3. Goes(r, pc, "replace") /\ KeepsToken(r) /\ KeepsMeta(r)
      BY <1>0, <2>6, <3>1, <3>2, ServedPc DEF FillTokenTmp, Goes, OwnStep, KeepsToken, KeepsMeta, ServingPcs
    <3>4. ASSUME NEW v \in Contents(r) PROVE SavedBy(r, v)
      <4>1. CASE v = [token |-> request[r].token, meta |-> request[r].meta]
        <5>1. v \in Tokens /\ v.token = request[r].token /\ v.meta = request[r].meta
          BY <3>2, <4>1 DEF Tokens, Serving
        <5>2. QED BY <5>1 DEF SavedBy
      <4>2. CASE v = Torn /\ ~request[r].alone
        <5>1. v \in Tokens /\ v.token = 0 BY <4>2 DEF Torn, Tokens
        <5>2. QED BY <4>2, <5>1 DEF SavedBy
      <4>3. QED BY <3>4, <4>1, <4>2 DEF Contents
    <3>5. /\ UNCHANGED <<usable, issued, lost, memory, pending, behind, forgotten>>
          /\ \/ pc = "fill" /\ SavedBy(r, fileTmp') /\ UNCHANGED file
             \/ pc = "fillFile" /\ SavedBy(r, file') /\ UNCHANGED fileTmp
             \/ pc = "fillGone" /\ UNCHANGED <<file, fileTmp>>
      BY <2>6, <3>1, <3>4 DEF FillTokenTmp
    <3>6. SaveStep(r) BY <3>3, <3>5 DEF SaveStep
    <3>7. QED BY <1>0, <3>5, <3>6 DEF TokenEffect
  <2>7. CASE ReplaceToken(r)
    <3>1. request[r] \in Serving /\ request[r].pc = "replace" BY <2>0, <2>7 DEF ReplaceToken
    <3>2. /\ fileTmp' = NoToken /\ UNCHANGED <<usable, issued, lost, memory, forgotten, pending>>
      BY <2>7 DEF ReplaceToken
    <3>3. CASE fileTmp = NoToken
      <4>1. request' = [request EXCEPT ![r] = Resting] /\ UNCHANGED <<file, behind>>
        BY <2>7, <3>3 DEF ReplaceToken
      <4>2. QED BY <1>0, <3>1, <3>2, <4>1 DEF MoveStep, TokenEffect
    <3>4. CASE fileTmp # NoToken
      <4>1. /\ file' = fileTmp /\ behind' = ~request[r].alone
            /\ request' = [q \in TokenThreads |->
                 IF q = r THEN Resting ELSE [request[q] EXCEPT !.pc = OpenAfterMove(request[q].pc)]]
        BY <2>7, <3>4 DEF ReplaceToken
      <4>2. ASSUME NEW q \in TokenThreads \ {r}
            PROVE  /\ request'[q] \in TokenRequests
                   /\ \/ request'[q] = request[q] /\ ~TokenFilling(q)
                      \/ /\ TokenFilling(q) /\ request'[q].pc \in {"fillFile", "fillGone"}
                         /\ request'[q].op = request[q].op /\ request'[q].token = request[q].token
                         /\ request'[q].alone = request[q].alone
        <5>1. request'[q] = [request[q] EXCEPT !.pc = OpenAfterMove(request[q].pc)] BY <4>1
        <5>2. CASE TokenFilling(q)
          <6>2. OpenAfterMove(request[q].pc) \in {"fillFile", "fillGone"}
            BY <5>2 DEF TokenFilling, OpenAfterMove
          <6>3. request[q] \in Serving BY <1>0, <5>2 DEF TokenFilling, Resting
          <6>4. QED BY <5>1, <5>2, <6>2, <6>3, ServedPc DEF ServingPcs
        <5>3. CASE ~TokenFilling(q)
          <6>1. OpenAfterMove(request[q].pc) = request[q].pc BY <5>3 DEF TokenFilling, OpenAfterMove
          <6>2. request[q] \in Serving \/ request[q] = Resting BY <1>0
          <6>3. request'[q] = request[q] BY <5>1, <6>1, <6>2 DEF Serving, Resting
          <6>4. QED BY <1>0, <5>3, <6>3
        <5>4. QED BY <5>2, <5>3
      <4>3. request' \in [TokenThreads -> TokenRequests] /\ request'[r].pc = "idle"
        BY <1>0, <4>1, <4>2
      <4>4. MoveStep(r) BY <3>1, <3>2, <4>1, <4>2, <4>3 DEF MoveStep
      <4>5. QED BY <1>0, <3>2, <4>4 DEF TokenEffect
    <3>5. QED BY <3>3, <3>4
  <2>8. QED BY <1>3, <2>1, <2>2, <2>3, <2>4, <2>5, <2>6, <2>7 DEF TokenStep
<1>4. QED BY <1>1, <1>2, <1>3 DEF TokenNext

-----------------------------------------------------------------------------
(* OAuthToken: what the effects preserve                                   *)

\* The effects keep the types.
LEMMA TokenTypesStep == ASSUME TokenTypeOK, TokenEffect PROVE TokenTypeOK'
<1> USE TokenAssumption DEF PlacesRest, HistoryRests
<1>0. /\ request \in [TokenThreads -> TokenRequests] /\ NoToken \in Tokens
      /\ memory \in Tokens /\ file \in Tokens /\ fileTmp \in Tokens /\ pending' \in BOOLEAN
      /\ lost \in 0 .. MaxLost /\ issued \in 0 .. MaxTokens /\ usable \subseteq 1 .. MaxTokens
      /\ behind \in BOOLEAN /\ forgotten \in BOOLEAN
  BY DEF TokenTypeOK, TokenEffect, NoToken, Tokens, TokenRequests
<1>1. CASE ServerStep BY <1>0, <1>1 DEF ServerStep, TokenTypeOK, TokenRequests
<1>2. ASSUME NEW r \in TokenThreads, ArrivedStep(r) PROVE TokenTypeOK'
  BY <1>0, <1>2 DEF ArrivedStep, TokenTypeOK, TokenRequests
<1>3. ASSUME NEW r \in TokenThreads, ClearStep(r) PROVE TokenTypeOK'
  BY <1>0, <1>3 DEF ClearStep, Goes, Leaves, OwnStep, TokenTypeOK, TokenRequests
<1>4. ASSUME NEW r \in TokenThreads, QuietStep(r) PROVE TokenTypeOK'
  BY <1>0, <1>4 DEF QuietStep, Goes, Leaves, OwnStep, TokenTypeOK, TokenRequests
<1>5. ASSUME NEW r \in TokenThreads, IssueStep(r) PROVE TokenTypeOK'
  <2>1. usable' \subseteq 1 .. MaxTokens /\ issued' \in 0 .. MaxTokens /\ lost' \in 0 .. MaxLost
    <3>1. issued + 1 \in 1 .. MaxTokens BY <1>0, <1>5 DEF IssueStep
    <3>2. usable' \subseteq usable \union {issued + 1} BY <1>5 DEF IssueStep
    <3>3. lost' \in 0 .. MaxLost /\ issued' = issued + 1 BY <1>0, <1>5 DEF IssueStep
    <3>4. QED BY <1>0, <3>1, <3>2, <3>3
  <2>2. request' \in [TokenThreads -> TokenRequests] /\ forgotten' \in BOOLEAN
        /\ UNCHANGED <<memory, file, fileTmp, behind>>
    BY <1>0, <1>5 DEF IssueStep, Goes, Leaves, OwnStep
  <2>3. QED BY <1>0, <2>1, <2>2 DEF TokenTypeOK, TokenRequests
<1>6. ASSUME NEW r \in TokenThreads, StoreStep(r) PROVE TokenTypeOK'
  BY <1>0, <1>6 DEF StoreStep, Goes, Leaves, OwnStep, TokenTypeOK, TokenRequests
<1>7. ASSUME NEW r \in TokenThreads, SaveStep(r) PROVE TokenTypeOK'
  BY <1>0, <1>7 DEF SaveStep, SavedBy, Goes, Leaves, OwnStep, TokenTypeOK, TokenRequests
<1>8. ASSUME NEW r \in TokenThreads, MoveStep(r) PROVE TokenTypeOK'
  BY <1>0, <1>8 DEF MoveStep, TokenTypeOK, TokenRequests
<1>9. QED BY <1>1, <1>2, <1>3, <1>4, <1>5, <1>6, <1>7, <1>8 DEF TokenEffect

\* No place, and no request, has a token that was not issued.
LEMMA IssuedStep == ASSUME TokenInv, TokenEffect PROVE TokensAreIssued'
<1> USE TokenAssumption DEF PlacesRest, HistoryRests, TokenBusy, TokenSaving, TokenFilling, Goes, Leaves, OwnStep, IssuedSoFar
<1>0. TokenTypeOK /\ TokensAreIssued BY DEF TokenInv
<1>a. /\ NoToken.token = 0 /\ NoToken.meta = FALSE /\ issued \in Nat /\ Resting.pc = "idle"
      /\ memory.token \in Nat /\ file.token \in Nat /\ fileTmp.token \in Nat
      /\ memory.meta \in BOOLEAN /\ file.meta \in BOOLEAN /\ fileTmp.meta \in BOOLEAN
      /\ behind \in BOOLEAN /\ forgotten \in BOOLEAN
  BY <1>0 DEF TokenTypeOK, Tokens, NoToken, Resting
<1>1. CASE ServerStep BY <1>0, <1>a, <1>1 DEF ServerStep, TokensAreIssued
<1>2. ASSUME NEW r \in TokenThreads, ArrivedStep(r) PROVE TokensAreIssued'
  BY <1>0, <1>a, <1>2 DEF ArrivedStep, TokensAreIssued
<1>3. ASSUME NEW r \in TokenThreads, ClearStep(r) PROVE TokensAreIssued'
  <2>1. /\ memory'.token \in {0, memory.token} /\ UNCHANGED <<usable, issued, file, fileTmp>>
        /\ \A q \in TokenThreads : TokenBusy(q)' => TokenBusy(q) /\ request'[q].token = request[q].token
    BY <1>0, <1>a, <1>3 DEF ClearStep, KeepsToken
  <2>2. QED BY <1>0, <1>a, <2>1 DEF TokensAreIssued
<1>4. ASSUME NEW r \in TokenThreads, QuietStep(r) PROVE TokensAreIssued'
  BY <1>0, <1>a, <1>4 DEF QuietStep, TokensAreIssued, KeepsToken, KeepsMeta
<1>5. ASSUME NEW r \in TokenThreads, IssueStep(r) PROVE TokensAreIssued'
  <2>1. /\ usable' \subseteq usable \union {issued + 1} /\ issued' = issued + 1
        /\ UNCHANGED <<memory, file, fileTmp>>
    BY <1>5 DEF IssueStep
  <2>2. \A q \in TokenThreads : TokenBusy(q)' =>
          request'[q].token = issued + 1 \/ (TokenBusy(q) /\ request'[q].token = request[q].token)
    BY <1>0, <1>a, <1>5 DEF IssueStep
  <2>3. usable' \subseteq 1 .. issued' BY <1>0, <1>a, <2>1 DEF TokensAreIssued
  <2>4. QED BY <1>0, <1>a, <2>1, <2>2, <2>3 DEF TokensAreIssued
<1>6. ASSUME NEW r \in TokenThreads, StoreStep(r) PROVE TokensAreIssued'
  BY <1>0, <1>a, <1>6 DEF StoreStep, TokensAreIssued, KeepsToken, KeepsMeta
<1>7. ASSUME NEW r \in TokenThreads, SaveStep(r) PROVE TokensAreIssued'
  BY <1>0, <1>a, <1>7 DEF SaveStep, SavedBy, TokensAreIssued, KeepsToken, KeepsMeta
<1>8. ASSUME NEW r \in TokenThreads, MoveStep(r) PROVE TokensAreIssued'
  BY <1>0, <1>a, <1>8 DEF MoveStep, TokensAreIssued
<1>9. QED BY <1>1, <1>2, <1>3, <1>4, <1>5, <1>6, <1>7, <1>8 DEF TokenEffect

\* A token that is still to be stored is usable, and nobody else has it.
LEMMA FreshStep == ASSUME TokenInv, TokenEffect PROVE FreshTokens'
<1> USE TokenAssumption DEF PlacesRest, HistoryRests, TokenBusy, TokenSaving, TokenFilling, Goes, Leaves, OwnStep, TokensAreIssued, IssuedSoFar
<1>0. TokenTypeOK /\ TokensAreIssued /\ FreshTokens BY DEF TokenInv
<1>a. /\ NoToken.token = 0 /\ NoToken.meta = FALSE /\ issued \in Nat /\ Resting.pc = "idle"
      /\ memory.token \in Nat /\ file.token \in Nat /\ fileTmp.token \in Nat
      /\ memory.meta \in BOOLEAN /\ file.meta \in BOOLEAN /\ fileTmp.meta \in BOOLEAN
      /\ behind \in BOOLEAN /\ forgotten \in BOOLEAN
  BY <1>0 DEF TokenTypeOK, Tokens, NoToken, Resting
<1>1. CASE ServerStep BY <1>0, <1>a, <1>1 DEF ServerStep, FreshTokens
<1>2. ASSUME NEW r \in TokenThreads, ArrivedStep(r) PROVE FreshTokens'
  BY <1>0, <1>a, <1>2 DEF ArrivedStep, FreshTokens
<1>3. ASSUME NEW r \in TokenThreads, ClearStep(r) PROVE FreshTokens'
  <2>1. CASE request[r].pc = "clear" BY <1>0, <1>a, <1>3, <2>1 DEF ClearStep, FreshTokens, KeepsToken, KeepsMeta
  <2>2. CASE request[r].pc # "clear" BY <1>0, <1>a, <1>3, <2>2 DEF ClearStep, FreshTokens, KeepsToken, KeepsMeta
  <2>3. QED BY <2>1, <2>2
<1>4. ASSUME NEW r \in TokenThreads, QuietStep(r) PROVE FreshTokens'
  BY <1>0, <1>a, <1>4 DEF QuietStep, FreshTokens, KeepsToken, KeepsMeta
<1>5. ASSUME NEW r \in TokenThreads, IssueStep(r) PROVE FreshTokens'
  BY <1>0, <1>a, <1>5 DEF IssueStep, FreshTokens, KeepsToken, KeepsMeta
<1>6. ASSUME NEW r \in TokenThreads, StoreStep(r) PROVE FreshTokens'
  BY <1>0, <1>a, <1>6 DEF StoreStep, FreshTokens, KeepsToken, KeepsMeta
<1>7. ASSUME NEW r \in TokenThreads, SaveStep(r) PROVE FreshTokens'
  BY <1>0, <1>a, <1>7 DEF SaveStep, SavedBy, FreshTokens, KeepsToken, KeepsMeta
<1>8. ASSUME NEW r \in TokenThreads, MoveStep(r) PROVE FreshTokens'
  BY <1>0, <1>a, <1>8 DEF MoveStep, FreshTokens
<1>9. QED BY <1>1, <1>2, <1>3, <1>4, <1>5, <1>6, <1>7, <1>8 DEF TokenEffect

\* Only a restore reads the token, only it and a save read the metadata.
LEMMA OpsStep == ASSUME TokenInv, TokenEffect PROVE RequestOps'
<1> USE TokenAssumption DEF PlacesRest, HistoryRests, TokenBusy, TokenSaving, TokenFilling, Goes, Leaves, OwnStep
<1>0. TokenTypeOK /\ RequestOps BY DEF TokenInv
<1>a. /\ NoToken.token = 0 /\ NoToken.meta = FALSE /\ issued \in Nat /\ Resting.pc = "idle"
      /\ memory.token \in Nat /\ file.token \in Nat /\ fileTmp.token \in Nat
      /\ memory.meta \in BOOLEAN /\ file.meta \in BOOLEAN /\ fileTmp.meta \in BOOLEAN
      /\ behind \in BOOLEAN /\ forgotten \in BOOLEAN
  BY <1>0 DEF TokenTypeOK, Tokens, NoToken, Resting
<1>1. CASE ServerStep BY <1>0, <1>a, <1>1 DEF ServerStep, RequestOps
<1>2. ASSUME NEW r \in TokenThreads, ArrivedStep(r) PROVE RequestOps'
  BY <1>0, <1>a, <1>2 DEF ArrivedStep, RequestOps
<1>3. ASSUME NEW r \in TokenThreads, ClearStep(r) PROVE RequestOps'
  BY <1>0, <1>a, <1>3 DEF ClearStep, RequestOps, KeepsToken, KeepsMeta
<1>4. ASSUME NEW r \in TokenThreads, QuietStep(r) PROVE RequestOps'
  BY <1>0, <1>a, <1>4 DEF QuietStep, RequestOps, KeepsToken, KeepsMeta
<1>5. ASSUME NEW r \in TokenThreads, IssueStep(r) PROVE RequestOps'
  BY <1>0, <1>a, <1>5 DEF IssueStep, RequestOps, KeepsToken, KeepsMeta
<1>6. ASSUME NEW r \in TokenThreads, StoreStep(r) PROVE RequestOps'
  BY <1>0, <1>a, <1>6 DEF StoreStep, RequestOps, KeepsToken, KeepsMeta
<1>7. ASSUME NEW r \in TokenThreads, SaveStep(r) PROVE RequestOps'
  BY <1>0, <1>a, <1>7 DEF SaveStep, SavedBy, RequestOps, KeepsToken, KeepsMeta
<1>8. ASSUME NEW r \in TokenThreads, MoveStep(r) PROVE RequestOps'
  BY <1>0, <1>a, <1>8 DEF MoveStep, RequestOps
<1>9. QED BY <1>1, <1>2, <1>3, <1>4, <1>5, <1>6, <1>7, <1>8 DEF TokenEffect

\* A request that nothing disturbed is the only one, and saves what is in memory.
LEMMA AloneStep == ASSUME TokenInv, TokenEffect PROVE AloneRequests'
<1> USE TokenAssumption DEF PlacesRest, HistoryRests, TokenBusy, TokenSaving, TokenFilling, Goes, Leaves, OwnStep, RequestOps
<1>0. TokenTypeOK /\ RequestOps /\ AloneRequests BY DEF TokenInv
<1>a. /\ NoToken.token = 0 /\ NoToken.meta = FALSE /\ issued \in Nat /\ Resting.pc = "idle"
      /\ memory.token \in Nat /\ file.token \in Nat /\ fileTmp.token \in Nat
      /\ memory.meta \in BOOLEAN /\ file.meta \in BOOLEAN /\ fileTmp.meta \in BOOLEAN
      /\ behind \in BOOLEAN /\ forgotten \in BOOLEAN
  BY <1>0 DEF TokenTypeOK, Tokens, NoToken, Resting
<1>1. CASE ServerStep BY <1>0, <1>a, <1>1 DEF ServerStep, AloneRequests
<1>2. ASSUME NEW r \in TokenThreads, ArrivedStep(r) PROVE AloneRequests'
  BY <1>0, <1>a, <1>2 DEF ArrivedStep, AloneRequests
<1>3. ASSUME NEW r \in TokenThreads, ClearStep(r) PROVE AloneRequests'
  BY <1>0, <1>a, <1>3 DEF ClearStep, AloneRequests, KeepsToken, KeepsMeta
<1>4. ASSUME NEW r \in TokenThreads, QuietStep(r) PROVE AloneRequests'
  BY <1>0, <1>a, <1>4 DEF QuietStep, AloneRequests, KeepsToken, KeepsMeta
<1>5. ASSUME NEW r \in TokenThreads, IssueStep(r) PROVE AloneRequests'
  BY <1>0, <1>a, <1>5 DEF IssueStep, AloneRequests, KeepsToken, KeepsMeta
<1>6. ASSUME NEW r \in TokenThreads, StoreStep(r) PROVE AloneRequests'
  BY <1>0, <1>a, <1>6 DEF StoreStep, AloneRequests, KeepsToken, KeepsMeta
<1>7. ASSUME NEW r \in TokenThreads, SaveStep(r) PROVE AloneRequests'
  BY <1>0, <1>a, <1>7 DEF SaveStep, SavedBy, AloneRequests, KeepsToken, KeepsMeta
<1>8. ASSUME NEW r \in TokenThreads, MoveStep(r) PROVE AloneRequests'
  BY <1>0, <1>a, <1>8 DEF MoveStep, AloneRequests
<1>9. QED BY <1>1, <1>2, <1>3, <1>4, <1>5, <1>6, <1>7, <1>8 DEF TokenEffect

\* Unless something was dropped, a request that saves found a token in memory.
LEMMA HeldStep == ASSUME TokenInv, TokenEffect PROVE TokenIsHeld'
<1> USE TokenAssumption DEF PlacesRest, HistoryRests, TokenBusy, TokenSaving, TokenFilling, Goes, Leaves, OwnStep, TokensAreIssued, FreshTokens
<1>0. TokenTypeOK /\ TokenIsHeld /\ TokensAreIssued /\ FreshTokens BY DEF TokenInv
<1>a. /\ NoToken.token = 0 /\ NoToken.meta = FALSE /\ issued \in Nat /\ Resting.pc = "idle"
      /\ memory.token \in Nat /\ file.token \in Nat /\ fileTmp.token \in Nat
      /\ memory.meta \in BOOLEAN /\ file.meta \in BOOLEAN /\ fileTmp.meta \in BOOLEAN
      /\ behind \in BOOLEAN /\ forgotten \in BOOLEAN
  BY <1>0 DEF TokenTypeOK, Tokens, NoToken, Resting
<1>1. CASE ServerStep BY <1>0, <1>a, <1>1 DEF ServerStep, TokenIsHeld
<1>2. ASSUME NEW r \in TokenThreads, ArrivedStep(r) PROVE TokenIsHeld'
  BY <1>0, <1>a, <1>2 DEF ArrivedStep, TokenIsHeld
<1>3. ASSUME NEW r \in TokenThreads, ClearStep(r) PROVE TokenIsHeld'
  BY <1>0, <1>a, <1>3 DEF ClearStep, TokenIsHeld, KeepsToken, KeepsMeta
<1>4. ASSUME NEW r \in TokenThreads, QuietStep(r) PROVE TokenIsHeld'
  BY <1>0, <1>a, <1>4 DEF QuietStep, TokenIsHeld, KeepsToken, KeepsMeta
<1>5. ASSUME NEW r \in TokenThreads, IssueStep(r) PROVE TokenIsHeld'
  BY <1>0, <1>a, <1>5 DEF IssueStep, TokenIsHeld, KeepsToken, KeepsMeta
<1>6. ASSUME NEW r \in TokenThreads, StoreStep(r) PROVE TokenIsHeld'
  <2>1. CASE request[r].pc = "store" BY <1>0, <1>a, <1>6, <2>1 DEF StoreStep, TokenIsHeld, KeepsToken, KeepsMeta
  <2>2. CASE request[r].pc # "store" BY <1>0, <1>a, <1>6, <2>2 DEF StoreStep, TokenIsHeld, KeepsToken, KeepsMeta
  <2>3. QED BY <2>1, <2>2
<1>7. ASSUME NEW r \in TokenThreads, SaveStep(r) PROVE TokenIsHeld'
  BY <1>0, <1>a, <1>7 DEF SaveStep, SavedBy, TokenIsHeld, KeepsToken, KeepsMeta
<1>8. ASSUME NEW r \in TokenThreads, MoveStep(r) PROVE TokenIsHeld'
  BY <1>0, <1>a, <1>8 DEF MoveStep, TokenIsHeld
<1>9. QED BY <1>1, <1>2, <1>3, <1>4, <1>5, <1>6, <1>7, <1>8 DEF TokenEffect

\* A new token is about to be stored, or memory, or the file, has a usable one.
LEMMA SomewhereStep == ASSUME TokenInv, TokenEffect PROVE TokenIsSomewhere'
<1> USE TokenAssumption DEF PlacesRest, HistoryRests, TokenBusy, TokenSaving, TokenFilling, Goes, Leaves, OwnStep, TokenStoring, TokenIsHeld, AloneRequests, FreshTokens, TokensAreIssued
<1>0. /\ TokenTypeOK /\ TokenIsSomewhere /\ TokenIsHeld /\ AloneRequests /\ FreshTokens /\ TokensAreIssued
      /\ OpenFileIsBehind
  BY DEF TokenInv
<1>a. /\ NoToken.token = 0 /\ NoToken.meta = FALSE /\ issued \in Nat /\ Resting.pc = "idle"
      /\ memory.token \in Nat /\ file.token \in Nat /\ fileTmp.token \in Nat
      /\ memory.meta \in BOOLEAN /\ file.meta \in BOOLEAN /\ fileTmp.meta \in BOOLEAN
      /\ behind \in BOOLEAN /\ forgotten \in BOOLEAN
  BY <1>0 DEF TokenTypeOK, Tokens, NoToken, Resting
<1>1. CASE ServerStep
  <2>1. CASE UNCHANGED <<request, memory>>
    BY <1>0, <1>a, <1>1, <2>1 DEF ServerStep, TokenIsSomewhere
  <2>2. CASE ~UNCHANGED <<request, memory>>
    <3>1. /\ memory'.token = 0 /\ UNCHANGED <<usable, issued, file, behind>>
          /\ ~forgotten' => ~forgotten /\ ~behind /\ ~TokenStoring
      BY <1>0, <1>a, <1>1, <2>2 DEF ServerStep
    <3>2. QED BY <1>0, <1>a, <3>1 DEF TokenIsSomewhere
  <2>3. QED BY <2>1, <2>2
<1>2. ASSUME NEW r \in TokenThreads, ArrivedStep(r) PROVE TokenIsSomewhere'
  BY <1>0, <1>a, <1>2 DEF ArrivedStep, TokenIsSomewhere
<1>3. ASSUME NEW r \in TokenThreads, ClearStep(r) PROVE TokenIsSomewhere'
  <2>1. CASE request[r].pc = "clear" BY <1>0, <1>a, <1>3, <2>1 DEF ClearStep, TokenIsSomewhere, KeepsToken, KeepsMeta
  <2>2. CASE request[r].pc # "clear" BY <1>0, <1>a, <1>3, <2>2 DEF ClearStep, TokenIsSomewhere, KeepsToken, KeepsMeta
  <2>3. QED BY <2>1, <2>2
<1>4. ASSUME NEW r \in TokenThreads, QuietStep(r) PROVE TokenIsSomewhere'
  BY <1>0, <1>a, <1>4 DEF QuietStep, TokenIsSomewhere, KeepsToken, KeepsMeta
<1>5. ASSUME NEW r \in TokenThreads, IssueStep(r) PROVE TokenIsSomewhere'
  BY <1>0, <1>a, <1>5 DEF IssueStep, TokenIsSomewhere, KeepsToken, KeepsMeta
<1>6. ASSUME NEW r \in TokenThreads, StoreStep(r) PROVE TokenIsSomewhere'
  <2>1. CASE request[r].pc = "store" BY <1>0, <1>a, <1>6, <2>1 DEF StoreStep, TokenIsSomewhere, KeepsToken, KeepsMeta
  <2>2. CASE request[r].pc # "store" BY <1>0, <1>a, <1>6, <2>2 DEF StoreStep, TokenIsSomewhere, KeepsToken, KeepsMeta
  <2>3. QED BY <2>1, <2>2
<1>7. ASSUME NEW r \in TokenThreads, SaveStep(r) PROVE TokenIsSomewhere'
  <2>1. CASE request[r].pc = "fillFile"
    <3>1. behind BY <1>0, <2>1 DEF OpenFileIsBehind
    <3>2. /\ UNCHANGED <<usable, issued, memory, behind, forgotten>>
          /\ \A q \in TokenThreads : request[q].pc = "store" => request'[q].pc = "store"
      BY <1>7, <2>1 DEF SaveStep
    <3>3. QED BY <1>0, <1>a, <3>1, <3>2 DEF TokenIsSomewhere
  <2>2. CASE request[r].pc # "fillFile"
    <3>1. /\ UNCHANGED <<usable, issued, memory, file, behind, forgotten>>
          /\ \A q \in TokenThreads : request[q].pc = "store" => request'[q].pc = "store"
      BY <1>7, <2>2 DEF SaveStep
    <3>2. QED BY <1>0, <1>a, <3>1 DEF TokenIsSomewhere
  <2>3. QED BY <2>1, <2>2
<1>8. ASSUME NEW r \in TokenThreads, MoveStep(r) PROVE TokenIsSomewhere'
  BY <1>0, <1>a, <1>8 DEF MoveStep, TokenIsSomewhere
<1>9. QED BY <1>1, <1>2, <1>3, <1>4, <1>5, <1>6, <1>7, <1>8 DEF TokenEffect

\* A replacement that leaves others behind does not bring the file up to date.
LEMMA OpenFileStep == ASSUME TokenInv, TokenEffect PROVE OpenFileIsBehind'
<1> USE DEF HistoryRests, Goes, Leaves, OwnStep, TokenBusy, TokenFilling
<1>0. TokenTypeOK /\ AloneRequests /\ OpenFileIsBehind BY DEF TokenInv
<1>a. Resting.pc = "idle" /\ behind \in BOOLEAN BY <1>0 DEF TokenTypeOK, Resting
<1>1. CASE ServerStep BY <1>0, <1>a, <1>1 DEF ServerStep, OpenFileIsBehind
<1>2. ASSUME NEW r \in TokenThreads, ArrivedStep(r) PROVE OpenFileIsBehind'
  BY <1>0, <1>a, <1>2 DEF ArrivedStep, OpenFileIsBehind
<1>3. ASSUME NEW r \in TokenThreads, ClearStep(r) \/ QuietStep(r) \/ IssueStep(r) PROVE OpenFileIsBehind'
  BY <1>0, <1>a, <1>3 DEF ClearStep, QuietStep, IssueStep, OpenFileIsBehind
<1>4. ASSUME NEW r \in TokenThreads, StoreStep(r) \/ SaveStep(r) PROVE OpenFileIsBehind'
  BY <1>0, <1>a, <1>4 DEF StoreStep, SaveStep, OpenFileIsBehind
<1>5. ASSUME NEW r \in TokenThreads, MoveStep(r) PROVE OpenFileIsBehind'
  <2> SUFFICES ASSUME NEW q \in TokenThreads, request'[q].pc = "fillFile" PROVE behind'
    BY DEF OpenFileIsBehind
  <2>1. q # r /\ request[r].pc # "idle" BY <1>5 DEF MoveStep
  <2>2. CASE UNCHANGED behind /\ request'[q] = request[q] BY <1>0, <2>2 DEF OpenFileIsBehind
  <2>3. CASE behind' = ~request[r].alone /\ TokenFilling(q)
    <3>1. request[q].pc # "idle" BY <2>3
    <3>2. ~request[r].alone BY <1>0, <2>1, <3>1 DEF AloneRequests
    <3>3. QED BY <2>3, <3>2
  <2>4. QED BY <1>5, <2>1, <2>2, <2>3 DEF MoveStep
<1>6. QED BY <1>1, <1>2, <1>3, <1>4, <1>5 DEF TokenEffect

\* The inductive invariant of OAuthToken holds in every reachable state.
LEMMA TokenInvariance == TokenSpec => []TokenInv
<1> USE TokenAssumption
<1>1. TokenInit => TokenInv
  <2> SUFFICES ASSUME TokenInit PROVE TokenInv
    OBVIOUS
  <2>1. /\ memory = NoToken /\ file = NoToken /\ fileTmp = NoToken
        /\ \A r \in TokenThreads : request[r].pc = "idle"
        /\ NoToken.token = 0 /\ NoToken \in Tokens /\ usable = {} /\ issued = 0
    BY DEF TokenInit, NoToken, Tokens, Resting
  <2>2. TokenTypeOK
    <3>1. request \in [TokenThreads -> Serving \union {Resting}] BY DEF TokenInit
    <3>2. issued \in 0 .. MaxTokens /\ lost \in 0 .. MaxLost BY <2>1 DEF TokenInit
    <3>3. QED BY <2>1, <3>1, <3>2 DEF TokenInit, TokenTypeOK
  <2>3. TokensAreIssued BY <2>1 DEF TokensAreIssued, IssuedSoFar, TokenBusy
  <2>4. FreshTokens /\ AloneRequests /\ OpenFileIsBehind /\ RequestOps /\ TokenIsHeld /\ TokenIsSomewhere
    BY <2>1 DEF FreshTokens, AloneRequests, OpenFileIsBehind, RequestOps, TokenIsHeld, TokenIsSomewhere,
                TokenBusy, TokenSaving, TokenFilling
  <2>5. QED BY <2>2, <2>3, <2>4 DEF TokenInv
<1>2. TokenInv /\ [TokenNext]_tokenVars => TokenInv'
  <2> SUFFICES ASSUME TokenInv, [TokenNext]_tokenVars PROVE TokenInv'
    OBVIOUS
  <2>1. CASE TokenNext
    <3>1. TokenTypeOK /\ TokenEffect BY <2>1, TokenSteps DEF TokenInv
    <3>2. QED BY <3>1, TokenTypesStep, IssuedStep, FreshStep, OpsStep, AloneStep, OpenFileStep, HeldStep,
          SomewhereStep DEF TokenInv
  <2>2. CASE UNCHANGED tokenVars
    BY <2>2 DEF tokenVars, TokenInv, TokenTypeOK, TokensAreIssued, FreshTokens, AloneRequests, RequestOps,
                OpenFileIsBehind, TokenIsHeld, TokenIsSomewhere, TokenBusy, TokenSaving, TokenFilling, TokenStoring, IssuedSoFar
  <2>3. QED BY <2>1, <2>2
<1>3. QED BY <1>1, <1>2, PTL DEF TokenSpec

\* As long as no answer was lost and nothing unsaved was dropped, and no request
\* is under way, memory has the token that the provider accepts or, once a save
\* that nothing disturbed has followed, the file has, however requests overlapped.
THEOREM TokenIsNotLost == TokenSpec => []TokenSurvives
<1>1. TokenInv => TokenSurvives
  BY DEF TokenInv, TokenIsSomewhere, TokenStoring, TokenSurvives, RequestAt
<1>2. QED BY <1>1, TokenInvariance, PTL

-----------------------------------------------------------------------------
(* FeedbackForm: the inductive invariant                                   *)

\* Everything that is stored or under way was typed, and sent under a key drawn.
OpinionsAreTyped ==
  /\ \A i \in DOMAIN history : history[i] <= typed
  /\ \A p \in posts : p.opinion <= typed /\ p.key <= attempts
  /\ \A a \in Forms : form[a].text <= typed
  /\ \A a, b \in Forms : (a # b /\ form[a].text # 0) => form[a].text # form[b].text

\* All saves of one opinion expect one version, which is the one before its row.
OneVersionEach ==
  /\ \A p, q \in posts : p.opinion = q.opinion => p.version = q.version
  /\ \A p \in posts : \A i \in DOMAIN history : history[i] = p.opinion => p.version = i - 1
  /\ \A i, j \in DOMAIN history : history[i] = history[j] => i = j

\* While a form holds an opinion, it shows the version that its saves expect.
ShownVersion ==
  \A a \in Forms : form[a].text # 0 =>
    /\ \A p \in posts : p.opinion = form[a].text => p.version = form[a].shown
    /\ \A i \in DOMAIN history : history[i] = form[a].text => form[a].shown = i - 1

\* The save a form waits for has its opinion; one that was answered is stored;
\* and a form that says so shows it.
AnsweredSaves ==
  /\ \A p \in posts : form[p.of].key = p.key => p.opinion = form[p.of].sent
  /\ \A a \in Forms : form[a].pc = "reading" => \E i \in DOMAIN history : history[i] = form[a].sent
  /\ \A a \in Forms : form[a].saved =>
       /\ form[a].shown \in 0 .. Len(history)
       /\ \E i \in 1 .. form[a].shown : history[i] = form[a].sent

FormInv == FormTypeOK /\ OpinionsAreTyped /\ OneVersionEach /\ ShownVersion /\ AnsweredSaves

-----------------------------------------------------------------------------
(* What a step does to a form and to the server.                           *)

FormMoves(a) == /\ form' \in [Forms -> FormStates]
                /\ \A b \in Forms \ {a} : form'[b] = form[b]
FormKeeps(a) == form'[a].sent = form[a].sent /\ form'[a].key = form[a].key
TextStays(a) == form'[a].text = form[a].text /\ form'[a].shown = form[a].shown
ServerRests  == UNCHANGED <<history, posts, attempts>>

FormLoads(a) ==
  /\ FormMoves(a) /\ FormKeeps(a) /\ ServerRests /\ typed' = typed
  /\ form[a].shown = Unread /\ form'[a].shown = Len(history)
  /\ form'[a].pc = "ready" /\ form'[a].text = form[a].text /\ form'[a].saved = form[a].saved

FormTypes(a) ==
  /\ FormMoves(a) /\ FormKeeps(a) /\ ServerRests
  /\ typed' = typed + 1 /\ typed' \in 0 .. MaxOpinions /\ form'[a].text = typed + 1
  /\ form'[a].pc = form[a].pc /\ form'[a].shown = form[a].shown /\ form'[a].saved = form[a].saved

FormSaves(a) ==
  /\ FormMoves(a) /\ TextStays(a)
  /\ form[a].shown \in Nat /\ form[a].text # 0
  /\ attempts' = attempts + 1 /\ attempts' \in 0 .. MaxPosts
  /\ posts' = posts \union {[of |-> a, key |-> attempts + 1, opinion |-> form[a].text, version |-> form[a].shown]}
  /\ form'[a].pc = "posting" /\ form'[a].sent = form[a].text /\ form'[a].key = attempts + 1 /\ ~form'[a].saved
  /\ UNCHANGED <<history, typed>>

FormFails(a) ==
  /\ FormMoves(a) /\ FormKeeps(a) /\ TextStays(a)
  /\ form'[a].pc = "ready" /\ form'[a].saved = form[a].saved

FormShows(a) ==
  /\ FormMoves(a) /\ FormKeeps(a) /\ ServerRests /\ typed' = typed
  /\ form[a].pc = "reading" /\ form'[a].pc = "ready"
  /\ form'[a].shown = Len(history) /\ form'[a].text = 0

FormBlank(a) ==
  /\ FormMoves(a) /\ ServerRests /\ typed' = typed
  /\ form'[a] = Blank

\* The server answers a save: it stores a row or does not, and the form may
\* have stopped waiting.
FormServed(p) ==
  /\ posts' = posts \ {p} /\ UNCHANGED <<typed, attempts>>
  /\ \/ p.version = Len(history) /\ history' = Append(history, p.opinion)
     \/ history' = history
  /\ \/ UNCHANGED form
     \/ FormFails(p.of)
     \/ /\ FormMoves(p.of) /\ FormKeeps(p.of) /\ TextStays(p.of)
        /\ form[p.of].key = p.key /\ form'[p.of].pc = "reading" /\ form'[p.of].saved = form[p.of].saved
        /\ history' = Append(history, p.opinion)

FormEffect ==
  /\ formFaults' \in 0 .. MaxFormFaults
  /\ \/ \E a \in Forms : \/ FormLoads(a) \/ FormTypes(a) \/ FormSaves(a) \/ FormShows(a) \/ FormBlank(a)
                         \/ FormFails(a) /\ ServerRests /\ typed' = typed
     \/ \E p \in posts : FormServed(p)

\* The fields of a form.
LEMMA FormFields ==
  ASSUME NEW f \in FormStates
  PROVE  /\ f.pc \in Steps /\ f.shown \in Nat \union {Unread} /\ f.text \in 0 .. MaxOpinions
         /\ f.sent \in 0 .. MaxOpinions /\ f.key \in 0 .. MaxPosts /\ f.saved \in BOOLEAN
BY DEF FormStates

\* A form after each of its steps.
LEMMA FormAfterLoad ==
  ASSUME NEW f \in FormStates, NEW n \in Nat, NEW g, g = [f EXCEPT !.shown = n]
  PROVE  /\ g \in FormStates /\ g.pc = f.pc /\ g.shown = n /\ g.text = f.text
         /\ g.sent = f.sent /\ g.key = f.key /\ g.saved = f.saved
BY DEF FormStates

LEMMA FormAfterType ==
  ASSUME NEW f \in FormStates, NEW n \in 0 .. MaxOpinions, NEW g, g = [f EXCEPT !.text = n]
  PROVE  /\ g \in FormStates /\ g.pc = f.pc /\ g.shown = f.shown /\ g.text = n
         /\ g.sent = f.sent /\ g.key = f.key /\ g.saved = f.saved
BY DEF FormStates

LEMMA FormAfterAnswer ==
  ASSUME NEW f \in FormStates, NEW pc \in Steps, NEW g, g = [f EXCEPT !.pc = pc]
  PROVE  /\ g \in FormStates /\ g.pc = pc /\ g.shown = f.shown /\ g.text = f.text
         /\ g.sent = f.sent /\ g.key = f.key /\ g.saved = f.saved
BY DEF FormStates, Steps

\* Every step of a form, of the server and of the network has one of the effects.
LEMMA FormSteps == ASSUME FormTypeOK, FormNext PROVE FormEffect
<1> USE FormAssumption DEF FormTo, FormAt, NoFormFault, FormFault, ServerRests
<1>0. /\ form \in [Forms -> FormStates] /\ formFaults \in 0 .. MaxFormFaults /\ Len(history) \in Nat
      /\ typed \in 0 .. MaxOpinions /\ attempts \in 0 .. MaxPosts
      /\ MaxOpinions \in Nat /\ MaxPosts \in Nat /\ MaxFormFaults \in Nat
  BY DEF FormTypeOK
<1>1. ASSUME NEW a \in Forms,
             \/ LoadHistory(a) \/ Type(a) \/ Save(a) \/ PostFails(a) \/ ReadBackHistory(a)
             \/ ReadBackFails(a) \/ Remount(a)
      PROVE  FormEffect
  <2>0. form[a] \in FormStates BY <1>0
  <2>a. ASSUME NEW g \in FormStates, form' = [form EXCEPT ![a] = g]
        PROVE  FormMoves(a) /\ form'[a] = g
    BY <1>0, <2>a DEF FormMoves
  <2>1. CASE LoadHistory(a)
    <3>1. PICK g : g = [form[a] EXCEPT !.shown = Len(history)] OBVIOUS
    <3>2. form' = [form EXCEPT ![a] = g] /\ UNCHANGED <<history, posts, typed, attempts, formFaults>>
          /\ form[a].pc = "ready" /\ form[a].shown = Unread
      BY <2>1, <3>1 DEF LoadHistory
    <3>b. /\ g \in FormStates /\ g.pc = form[a].pc /\ g.shown = Len(history) /\ g.text = form[a].text
          /\ g.sent = form[a].sent /\ g.key = form[a].key /\ g.saved = form[a].saved
      BY <1>0, <2>0, <3>1, FormAfterLoad
    <3>3. FormLoads(a) BY <1>0, <2>0, <2>a, <3>1, <3>2, <3>b DEF FormLoads, FormKeeps
    <3>4. QED BY <1>0, <3>2, <3>3 DEF FormEffect
  <2>2. CASE Type(a)
    <3>1. PICK g : g = [form[a] EXCEPT !.text = typed + 1] OBVIOUS
    <3>2. form' = [form EXCEPT ![a] = g] /\ UNCHANGED <<history, posts, attempts, formFaults>>
          /\ typed' = typed + 1 /\ typed + 1 \in 0 .. MaxOpinions
      BY <1>0, <2>2, <3>1 DEF Type
    <3>b. /\ g \in FormStates /\ g.pc = form[a].pc /\ g.shown = form[a].shown /\ g.text = typed + 1
          /\ g.sent = form[a].sent /\ g.key = form[a].key /\ g.saved = form[a].saved
      BY <2>0, <3>1, <3>2, FormAfterType
    <3>3. FormTypes(a) BY <1>0, <2>0, <2>a, <3>1, <3>2, <3>b DEF FormTypes, FormKeeps
    <3>4. QED BY <1>0, <3>2, <3>3 DEF FormEffect
  <2>3. CASE Save(a)
    <3>1. PICK g : g = [form[a] EXCEPT !.pc = "posting", !.sent = form[a].text, !.key = attempts + 1, !.saved = FALSE]
      OBVIOUS
    <3>2. /\ form' = [form EXCEPT ![a] = g] /\ UNCHANGED <<history, typed, formFaults>>
          /\ attempts' = attempts + 1 /\ attempts + 1 \in 0 .. MaxPosts
          /\ form[a].shown # Unread /\ form[a].text # 0
          /\ posts' = posts \union {[of |-> a, key |-> attempts + 1, opinion |-> form[a].text, version |-> form[a].shown]}
      BY <1>0, <2>3, <3>1 DEF Save
    <3>3. form[a].shown \in Nat /\ form[a].text \in 0 .. MaxOpinions BY <2>0, <3>2, FormFields
    <3>b. /\ g \in FormStates /\ g.pc = "posting" /\ g.shown = form[a].shown /\ g.text = form[a].text
          /\ g.sent = form[a].text /\ g.key = attempts + 1 /\ g.saved = FALSE
      BY <2>0, <3>1, <3>2, <3>3 DEF FormStates, Steps
    <3>4. FormSaves(a) BY <1>0, <2>0, <2>a, <3>1, <3>2, <3>3, <3>b DEF FormSaves, TextStays
    <3>5. QED BY <1>0, <3>2, <3>4 DEF FormEffect
  <2>4. CASE PostFails(a) \/ ReadBackFails(a)
    <3>1. PICK g : g = [form[a] EXCEPT !.pc = "ready"] OBVIOUS
    <3>2. form' = [form EXCEPT ![a] = g] /\ UNCHANGED <<history, posts, typed, attempts>>
          /\ formFaults' \in 0 .. MaxFormFaults
      BY <1>0, <2>4, <3>1 DEF PostFails, ReadBackFails, AfterFailure
    <3>b. /\ g \in FormStates /\ g.pc = "ready" /\ g.shown = form[a].shown /\ g.text = form[a].text
          /\ g.sent = form[a].sent /\ g.key = form[a].key /\ g.saved = form[a].saved
      BY <2>0, <3>1, FormAfterAnswer DEF Steps
    <3>3. FormFails(a)
      BY <1>0, <2>0, <2>a, <3>1, <3>2, <3>b DEF FormFails, FormKeeps, TextStays, Steps
    <3>4. QED BY <3>2, <3>3 DEF FormEffect
  <2>5. CASE ReadBackHistory(a)
    <3>1. PICK g : g = [form[a] EXCEPT !.pc = "ready", !.shown = Len(history), !.text = 0, !.saved = TRUE] OBVIOUS
    <3>2. form' = [form EXCEPT ![a] = g] /\ UNCHANGED <<history, posts, typed, attempts, formFaults>>
          /\ form[a].pc = "reading"
      BY <2>5, <3>1 DEF ReadBackHistory
    <3>b. /\ g \in FormStates /\ g.pc = "ready" /\ g.shown = Len(history) /\ g.text = 0
          /\ g.sent = form[a].sent /\ g.key = form[a].key /\ g.saved = TRUE
      <4>1. 0 \in 0 .. MaxOpinions /\ "ready" \in Steps BY <1>0 DEF Steps
      <4>2. QED BY <1>0, <2>0, <3>1, <4>1 DEF FormStates
    <3>3. FormShows(a) BY <1>0, <2>0, <2>a, <3>1, <3>2, <3>b DEF FormShows, FormKeeps
    <3>4. QED BY <1>0, <3>2, <3>3 DEF FormEffect
  <2>6. CASE Remount(a)
    <3>1. Blank \in FormStates BY <1>0 DEF Blank, FormStates, Steps
    <3>2. form' = [form EXCEPT ![a] = Blank] /\ UNCHANGED <<history, posts, typed, attempts>>
          /\ formFaults' \in 0 .. MaxFormFaults
      BY <1>0, <2>6 DEF Remount
    <3>3. FormBlank(a) BY <2>a, <3>1, <3>2 DEF FormBlank
    <3>4. QED BY <3>2, <3>3 DEF FormEffect
  <2>7. QED BY <1>1, <2>1, <2>2, <2>3, <2>4, <2>5, <2>6
<1>2. ASSUME NEW p \in posts, Serve(p) PROVE FormEffect
  <2>0. p.of \in Forms BY DEF FormTypeOK
  <2>1. form[p.of] \in FormStates BY <1>0, <2>0
  <2>2. posts' = posts \ {p} /\ UNCHANGED <<typed, attempts, formFaults>> BY <1>2 DEF Serve
  <2>3. PICK g : g = [form[p.of] EXCEPT !.pc = "reading"] OBVIOUS
  <2>4. PICK h : h = [form[p.of] EXCEPT !.pc = "ready"] OBVIOUS
  <2>5. /\ g \in FormStates /\ g.pc = "reading" /\ g.shown = form[p.of].shown /\ g.text = form[p.of].text
        /\ g.sent = form[p.of].sent /\ g.key = form[p.of].key /\ g.saved = form[p.of].saved
    BY <2>1, <2>3, FormAfterAnswer DEF Steps
  <2>6. /\ h \in FormStates /\ h.pc = "ready" /\ h.shown = form[p.of].shown /\ h.text = form[p.of].text
        /\ h.sent = form[p.of].sent /\ h.key = form[p.of].key /\ h.saved = form[p.of].saved
    BY <2>1, <2>4, FormAfterAnswer DEF Steps
  <2>7. CASE p.version = Len(history)
    <3>1. history' = Append(history, p.opinion) BY <1>2, <2>7 DEF Serve
    <3>2. \/ UNCHANGED form
          \/ form' = [form EXCEPT ![p.of] = g] /\ form[p.of].key = p.key
      <4>1. CASE FormAt(p.of, "posting") /\ form[p.of].key = p.key BY <1>2, <2>3, <2>7, <4>1 DEF Serve
      <4>2. CASE ~(FormAt(p.of, "posting") /\ form[p.of].key = p.key) BY <1>2, <2>7, <4>2 DEF Serve
      <4>3. QED BY <4>1, <4>2
    <3>3. FormServed(p)
      BY <1>0, <2>0, <2>2, <2>5, <2>7, <3>1, <3>2 DEF FormServed, FormMoves, FormKeeps, TextStays
    <3>4. QED BY <1>0, <2>2, <3>3 DEF FormEffect
  <2>8. CASE p.version # Len(history)
    <3>1. history' = history BY <1>2, <2>8 DEF Serve
    <3>2. \/ UNCHANGED form
          \/ form' = [form EXCEPT ![p.of] = h]
      BY <1>2, <2>4, <2>8 DEF Serve, AfterFailure
    <3>3. FormServed(p)
      BY <1>0, <2>0, <2>2, <2>6, <3>1, <3>2 DEF FormServed, FormFails, FormMoves, FormKeeps, TextStays
    <3>4. QED BY <1>0, <2>2, <3>3 DEF FormEffect
  <2>9. QED BY <2>7, <2>8
<1>3. QED BY <1>1, <1>2 DEF FormNext

-----------------------------------------------------------------------------
(* FeedbackForm: what the effects preserve                                 *)

\* What the types say, in the form in which the proofs need it.
LEMMA FormFacts ==
  ASSUME FormTypeOK
  PROVE  /\ typed \in Nat /\ attempts \in Nat /\ Len(history) \in Nat /\ DOMAIN history = 1 .. Len(history)
         /\ \A i \in 1 .. Len(history) : history[i] \in 1 .. MaxOpinions
         /\ \A p \in posts : /\ p.of \in Forms /\ p.key \in Nat \ {0} /\ p.opinion \in Nat \ {0} /\ p.version \in Nat
                             /\ p.opinion \in 1 .. MaxOpinions /\ p.key \in 1 .. MaxPosts
         /\ \A a \in Forms : /\ form[a].text \in Nat /\ form[a].sent \in Nat /\ form[a].key \in Nat
                             /\ form[a].pc \in Steps /\ form[a].shown \in Nat \union {Unread} /\ form[a].saved \in BOOLEAN
         /\ \A x \in 1 .. MaxOpinions :
              /\ Append(history, x) \in Seq(1 .. MaxOpinions) /\ Len(Append(history, x)) = Len(history) + 1
              /\ \A i \in 1 .. Len(history) + 1 : Append(history, x)[i] = IF i = Len(history) + 1 THEN x ELSE history[i]
<1> USE FormAssumption DEF FormTypeOK
<1>1. /\ typed \in Nat /\ attempts \in Nat /\ Len(history) \in Nat /\ DOMAIN history = 1 .. Len(history)
      /\ \A i \in 1 .. Len(history) : history[i] \in 1 .. MaxOpinions
  OBVIOUS
<1>2. \A p \in posts : /\ p.of \in Forms /\ p.key \in Nat \ {0} /\ p.opinion \in Nat \ {0} /\ p.version \in Nat
                       /\ p.opinion \in 1 .. MaxOpinions /\ p.key \in 1 .. MaxPosts
  OBVIOUS
<1>3. \A a \in Forms : /\ form[a].text \in Nat /\ form[a].sent \in Nat /\ form[a].key \in Nat
                       /\ form[a].pc \in Steps /\ form[a].shown \in Nat \union {Unread} /\ form[a].saved \in BOOLEAN
  <2>1. \A a \in Forms : form[a] \in FormStates OBVIOUS
  <2>2. MaxOpinions \in Nat /\ MaxPosts \in Nat OBVIOUS
  <2>3. QED BY <2>1, <2>2 DEF FormStates
<1>4. \A x \in 1 .. MaxOpinions :
        /\ Append(history, x) \in Seq(1 .. MaxOpinions) /\ Len(Append(history, x)) = Len(history) + 1
        /\ \A i \in 1 .. Len(history) + 1 : Append(history, x)[i] = IF i = Len(history) + 1 THEN x ELSE history[i]
  OBVIOUS
<1>5. QED BY <1>1, <1>2, <1>3, <1>4

\* The server stores an opinion only as the row after the version it expects.
LEMMA FormServedFacts ==
  ASSUME FormTypeOK, NEW p \in posts, FormServed(p)
  PROVE  /\ \/ history' = history
            \/ /\ p.version = Len(history) /\ history' = Append(history, p.opinion)
               /\ history' \in Seq(1 .. MaxOpinions) /\ Len(history') = Len(history) + 1
               /\ DOMAIN history' = 1 .. Len(history) + 1 /\ history'[Len(history) + 1] = p.opinion
               /\ \A i \in 1 .. Len(history) : history'[i] = history[i]
         /\ posts' \subseteq posts /\ typed' = typed /\ attempts' = attempts
         /\ form' \in [Forms -> FormStates]
         /\ \A a \in Forms : /\ form'[a].text = form[a].text /\ form'[a].shown = form[a].shown
                             /\ form'[a].sent = form[a].sent /\ form'[a].key = form[a].key
                             /\ form'[a].saved = form[a].saved
         /\ \A a \in Forms : form'[a].pc = "reading" =>
              \/ form[a].pc = "reading"
              \/ a = p.of /\ form[a].key = p.key /\ history' = Append(history, p.opinion)
<1>1. PICK h : h = Append(history, p.opinion) OBVIOUS
<1>2. /\ h \in Seq(1 .. MaxOpinions) /\ Len(h) = Len(history) + 1 /\ Len(history) \in Nat
      /\ \A i \in 1 .. Len(history) + 1 : h[i] = IF i = Len(history) + 1 THEN p.opinion ELSE history[i]
  BY <1>1, FormFacts
<1>3. /\ DOMAIN h = 1 .. Len(history) + 1 /\ h[Len(history) + 1] = p.opinion
      /\ \A i \in 1 .. Len(history) : h[i] = history[i]
  BY <1>2
<1>4. \/ history' = history
      \/ p.version = Len(history) /\ history' = h
  BY <1>1 DEF FormServed
<1>5. p.of \in Forms /\ form \in [Forms -> FormStates] BY DEF FormTypeOK
<1>6. \/ UNCHANGED form
      \/ FormFails(p.of)
      \/ /\ FormMoves(p.of) /\ FormKeeps(p.of) /\ TextStays(p.of)
         /\ form[p.of].key = p.key /\ form'[p.of].pc = "reading" /\ form'[p.of].saved = form[p.of].saved
         /\ history' = Append(history, p.opinion)
  BY DEF FormServed
<1>7. /\ form' \in [Forms -> FormStates]
      /\ \A a \in Forms : /\ form'[a].text = form[a].text /\ form'[a].shown = form[a].shown
                          /\ form'[a].sent = form[a].sent /\ form'[a].key = form[a].key
                          /\ form'[a].saved = form[a].saved
  BY <1>5, <1>6 DEF FormFails, FormMoves, FormKeeps, TextStays
<1>8. \A a \in Forms : form'[a].pc = "reading" =>
        \/ form[a].pc = "reading"
        \/ a = p.of /\ form[a].key = p.key /\ history' = Append(history, p.opinion)
  BY <1>5, <1>6 DEF FormFails, FormMoves
<1>9. posts' \subseteq posts /\ typed' = typed /\ attempts' = attempts BY DEF FormServed
<1>10. QED BY <1>1, <1>2, <1>3, <1>4, <1>7, <1>8, <1>9

\* An opinion under way, or stored, was typed, and sent under a key drawn.
LEMMA TypedStep == ASSUME FormInv, FormEffect PROVE OpinionsAreTyped'
<1> USE DEF FormMoves
<1>0. FormTypeOK /\ OpinionsAreTyped BY DEF FormInv
<1>a. typed \in Nat /\ attempts \in Nat BY <1>0, FormFacts
<1>b. \A a \in Forms : form[a].text \in Nat BY <1>0, FormFacts
<1>1. ASSUME UNCHANGED <<history, posts, typed, attempts>>,
             \A b \in Forms : form'[b].text \in {form[b].text, 0}
      PROVE  OpinionsAreTyped'
  BY <1>0, <1>a, <1>1 DEF OpinionsAreTyped
<1>2. ASSUME NEW a \in Forms, FormLoads(a) \/ FormShows(a) \/ FormBlank(a) \/ (FormFails(a) /\ ServerRests /\ typed' = typed)
      PROVE  OpinionsAreTyped'
  <2>1. UNCHANGED <<history, posts, typed, attempts>>
    BY <1>2 DEF FormLoads, FormShows, FormBlank, ServerRests
  <2>2. \A b \in Forms : form'[b].text \in {form[b].text, 0}
    BY <1>2 DEF FormLoads, FormShows, FormBlank, FormFails, TextStays, Blank
  <2>3. QED BY <1>1, <2>1, <2>2
<1>3. ASSUME NEW a \in Forms, FormTypes(a) PROVE OpinionsAreTyped'
  <2>1. UNCHANGED <<history, posts, attempts>> /\ typed' = typed + 1 BY <1>3 DEF FormTypes, ServerRests
  <2>2. \A b \in Forms : form'[b].text = IF b = a THEN typed + 1 ELSE form[b].text
    BY <1>3 DEF FormTypes
  <2>3. /\ \A i \in DOMAIN history : history[i] \in Nat
        /\ \A p \in posts : p.opinion \in Nat
    BY <1>0, FormFacts
  <2>4. (\A i \in DOMAIN history : history[i] <= typed)' BY <1>0, <1>a, <2>1, <2>3 DEF OpinionsAreTyped
  <2>5. (\A p \in posts : p.opinion <= typed /\ p.key <= attempts)'
    BY <1>0, <1>a, <2>1, <2>3 DEF OpinionsAreTyped
  <2>6. /\ (\A b \in Forms : form[b].text <= typed)'
        /\ (\A b, c \in Forms : (b # c /\ form[b].text # 0) => form[b].text # form[c].text)'
    BY <1>0, <1>a, <1>b, <2>1, <2>2 DEF OpinionsAreTyped
  <2>7. QED BY <2>4, <2>5, <2>6 DEF OpinionsAreTyped
<1>4. ASSUME NEW a \in Forms, FormSaves(a) PROVE OpinionsAreTyped'
  <2>1. /\ UNCHANGED <<history, typed>> /\ attempts' = attempts + 1
        /\ \A b \in Forms : form'[b].text = form[b].text
    BY <1>4 DEF FormSaves, TextStays
  <2>2. \A p \in posts' : p \in posts \/ (p.opinion = form[a].text /\ p.key = attempts + 1)
    BY <1>4 DEF FormSaves
  <2>3. \A p \in posts : p.key \in Nat BY <1>0, FormFacts
  <2>4. (\A p \in posts : p.opinion <= typed /\ p.key <= attempts)'
    BY <1>0, <1>a, <2>1, <2>2, <2>3 DEF OpinionsAreTyped
  <2>5. QED BY <1>0, <2>1, <2>4 DEF OpinionsAreTyped
<1>5. ASSUME NEW p \in posts, FormServed(p) PROVE OpinionsAreTyped'
  <2>1. /\ posts' \subseteq posts /\ typed' = typed /\ attempts' = attempts
        /\ \A b \in Forms : form'[b].text = form[b].text
    BY <1>0, <1>5, FormServedFacts
  <2>2. \A i \in DOMAIN history' : history'[i] = p.opinion \/ (i \in DOMAIN history /\ history'[i] = history[i])
    BY <1>0, <1>5, FormServedFacts, FormFacts
  <2>3. QED BY <1>0, <2>1, <2>2 DEF OpinionsAreTyped
<1>6. QED BY <1>2, <1>3, <1>4, <1>5 DEF FormEffect

\* All saves of an opinion expect the version before its row.
LEMMA VersionStep == ASSUME FormInv, FormEffect PROVE OneVersionEach'
<1>0. FormTypeOK /\ OneVersionEach /\ ShownVersion BY DEF FormInv
<1>1. CASE UNCHANGED <<history, posts>> BY <1>0, <1>1 DEF OneVersionEach
<1>2. ASSUME NEW a \in Forms, FormSaves(a) PROVE OneVersionEach'
  <2>1. \A p \in posts' : p \in posts \/ (p.opinion = form[a].text /\ p.version = form[a].shown)
    BY <1>2 DEF FormSaves
  <2>2. history' = history /\ form[a].text # 0 BY <1>2 DEF FormSaves
  <2>3. QED BY <1>0, <2>1, <2>2 DEF OneVersionEach, ShownVersion
<1>3. ASSUME NEW p \in posts, FormServed(p), history' # history PROVE OneVersionEach'
  <2>1. PICK n : n = Len(history) OBVIOUS
  <2>2. /\ n \in Nat /\ DOMAIN history = 1 .. n /\ DOMAIN history' = 1 .. n + 1 /\ p.version = n
        /\ history'[n + 1] = p.opinion /\ posts' \subseteq posts
        /\ \A i \in 1 .. n : history'[i] = history[i]
    BY <1>0, <1>3, <2>1, FormServedFacts, FormFacts
  <2>3. \A i \in 1 .. n : history[i] # p.opinion
    BY <1>0, <2>2 DEF OneVersionEach
  <2>4. (\A q, s \in posts : q.opinion = s.opinion => q.version = s.version)'
    BY <1>0, <2>2 DEF OneVersionEach
  <2>5. ASSUME NEW q \in posts', NEW i \in DOMAIN history', history'[i] = q.opinion PROVE q.version = i - 1
    <3>1. CASE i = n + 1 BY <1>0, <2>2, <2>5, <3>1 DEF OneVersionEach
    <3>2. CASE i # n + 1
      <4>1. i \in 1 .. n BY <2>2, <3>2
      <4>2. QED BY <1>0, <2>2, <2>5, <4>1 DEF OneVersionEach
    <3>3. QED BY <3>1, <3>2
  <2>6. ASSUME NEW i \in DOMAIN history', NEW j \in DOMAIN history', history'[i] = history'[j] PROVE i = j
    <3>1. \A k \in 1 .. n + 1 : k = n + 1 \/ k \in 1 .. n BY <2>2
    <3>2. QED BY <1>0, <2>2, <2>3, <2>6, <3>1 DEF OneVersionEach
  <2>7. QED BY <2>4, <2>5, <2>6 DEF OneVersionEach
<1>4. ASSUME NEW p \in posts, FormServed(p), history' = history PROVE OneVersionEach'
  <2>1. posts' \subseteq posts BY <1>4 DEF FormServed
  <2>2. QED BY <1>0, <1>4, <2>1 DEF OneVersionEach
<1>5. QED
  BY <1>1, <1>2, <1>3, <1>4 DEF FormEffect, FormLoads, FormTypes, FormShows, FormBlank, ServerRests

\* A form that holds an opinion shows the version that its saves expect.
LEMMA ShownStep == ASSUME FormInv, FormEffect PROVE ShownVersion'
<1> USE DEF FormMoves
<1>0. FormTypeOK /\ OpinionsAreTyped /\ OneVersionEach /\ ShownVersion BY DEF FormInv
<1>1. ASSUME UNCHANGED <<history, posts>>,
             \A b \in Forms : form'[b].text = 0 \/ (form'[b].text = form[b].text /\ form'[b].shown = form[b].shown)
      PROVE  ShownVersion'
  BY <1>0, <1>1 DEF ShownVersion
<1>2. ASSUME NEW a \in Forms, FormShows(a) \/ FormBlank(a) \/ (FormFails(a) /\ ServerRests /\ typed' = typed)
      PROVE  ShownVersion'
  <2>1. UNCHANGED <<history, posts>> BY <1>2 DEF FormShows, FormBlank, ServerRests
  <2>2. \A b \in Forms : form'[b].text = 0 \/ (form'[b].text = form[b].text /\ form'[b].shown = form[b].shown)
    BY <1>2 DEF FormShows, FormBlank, FormFails, TextStays, Blank
  <2>3. QED BY <1>1, <2>1, <2>2
<1>3. ASSUME NEW a \in Forms, FormLoads(a) PROVE ShownVersion'
  <2>1. UNCHANGED <<history, posts>> /\ form[a].shown = Unread /\ form'[a].text = form[a].text
    BY <1>3 DEF FormLoads, ServerRests
  <2>2. \A b \in Forms \ {a} : form'[b] = form[b] BY <1>3 DEF FormLoads
  <2>3. form[a].text # 0 => /\ \A p \in posts : p.opinion # form[a].text
                            /\ \A i \in DOMAIN history : history[i] # form[a].text
    <3>1. \A p \in posts : p.version \in Nat BY <1>0, FormFacts
    <3>2. \A i \in DOMAIN history : i - 1 \in Nat BY <1>0, FormFacts
    <3>3. QED BY <1>0, <2>1, <3>1, <3>2, FormAssumption DEF ShownVersion
  <2>4. QED BY <1>0, <2>1, <2>2, <2>3 DEF ShownVersion
<1>4. ASSUME NEW a \in Forms, FormTypes(a) PROVE ShownVersion'
  <2>1. UNCHANGED <<history, posts>> /\ form'[a].text = typed + 1 BY <1>4 DEF FormTypes, ServerRests
  <2>2. \A b \in Forms \ {a} : form'[b] = form[b] BY <1>4 DEF FormTypes
  <2>3. /\ \A p \in posts : p.opinion # typed + 1
        /\ \A i \in DOMAIN history : history[i] # typed + 1
    <3>1. typed \in Nat BY <1>0, FormFacts
    <3>2. QED BY <1>0, <3>1 DEF OpinionsAreTyped
  <2>4. QED BY <1>0, <2>1, <2>2, <2>3 DEF ShownVersion
<1>5. ASSUME NEW a \in Forms, FormSaves(a) PROVE ShownVersion'
  <2>1. \A p \in posts' : p \in posts \/ (p.opinion = form[a].text /\ p.version = form[a].shown)
    BY <1>5 DEF FormSaves
  <2>2. history' = history BY <1>5 DEF FormSaves
  <2>3. \A b \in Forms : form'[b].text = form[b].text /\ form'[b].shown = form[b].shown
    BY <1>5 DEF FormSaves, TextStays
  <2>4. \A b \in Forms : (form[b].text # 0 /\ form[b].text = form[a].text) => b = a
    BY <1>0 DEF OpinionsAreTyped
  <2>5. QED BY <1>0, <2>1, <2>2, <2>3, <2>4 DEF ShownVersion
<1>6. ASSUME NEW p \in posts, FormServed(p) PROVE ShownVersion'
  <2>1. PICK n : n = Len(history) OBVIOUS
  <2>2. /\ posts' \subseteq posts
        /\ \A b \in Forms : form'[b].text = form[b].text /\ form'[b].shown = form[b].shown
    BY <1>0, <1>6, FormServedFacts
  <2>3. \A i \in DOMAIN history' :
          \/ history'[i] = p.opinion /\ p.version = i - 1
          \/ i \in DOMAIN history /\ history'[i] = history[i]
    <3>1. CASE history' = history BY <3>1
    <3>2. CASE history' # history
      <4>1. /\ n \in Nat /\ DOMAIN history = 1 .. n /\ DOMAIN history' = 1 .. n + 1 /\ p.version = n
            /\ history'[n + 1] = p.opinion /\ \A i \in 1 .. n : history'[i] = history[i]
        BY <1>0, <1>6, <2>1, <3>2, FormServedFacts, FormFacts
      <4>2. \A k \in 1 .. n + 1 : k = n + 1 \/ k \in 1 .. n BY <4>1
      <4>3. QED BY <4>1, <4>2
    <3>3. QED BY <3>1, <3>2
  <2>4. QED BY <1>0, <2>2, <2>3 DEF ShownVersion
<1>7. QED BY <1>2, <1>3, <1>4, <1>5, <1>6 DEF FormEffect

\* A form that is told of success has its opinion in the history.
LEMMA AnsweredStep == ASSUME FormInv, FormEffect PROVE AnsweredSaves'
<1> USE DEF FormMoves
<1>0. FormTypeOK /\ OpinionsAreTyped /\ AnsweredSaves BY DEF FormInv
<1>a. \A p \in posts : p.of \in Forms /\ p.key \in Nat \ {0} BY <1>0, FormFacts
<1>b. Len(history) \in Nat /\ DOMAIN history = 1 .. Len(history) BY <1>0, FormFacts
<1>1. ASSUME UNCHANGED <<history, posts>>,
             \A b \in Forms : \/ form'[b].key = 0 /\ form'[b].pc = "ready" /\ ~form'[b].saved
                              \/ /\ form'[b].sent = form[b].sent /\ form'[b].key = form[b].key
                                 /\ form'[b].pc = "reading" => form[b].pc = "reading"
                                 /\ form'[b].saved => form[b].saved /\ form'[b].shown = form[b].shown
      PROVE  AnsweredSaves'
  BY <1>0, <1>a, <1>1 DEF AnsweredSaves
<1>2. ASSUME NEW a \in Forms, FormTypes(a) \/ FormBlank(a) \/ (FormFails(a) /\ ServerRests /\ typed' = typed)
      PROVE  AnsweredSaves'
  <2>1. UNCHANGED <<history, posts>> BY <1>2 DEF FormTypes, FormBlank, ServerRests
  <2>2. \A b \in Forms : \/ form'[b].key = 0 /\ form'[b].pc = "ready" /\ ~form'[b].saved
                         \/ /\ form'[b].sent = form[b].sent /\ form'[b].key = form[b].key
                            /\ form'[b].pc = "reading" => form[b].pc = "reading"
                            /\ form'[b].saved => form[b].saved /\ form'[b].shown = form[b].shown
    BY <1>2 DEF FormTypes, FormBlank, FormFails, FormKeeps, TextStays, Blank
  <2>3. QED BY <1>1, <2>1, <2>2
<1>3. ASSUME NEW a \in Forms, FormLoads(a) PROVE AnsweredSaves'
  <2>1. ~form[a].saved
    <3>1. form[a].saved => form[a].shown \in 0 .. Len(history) BY <1>0 DEF AnsweredSaves
    <3>2. form[a].shown = Unread BY <1>3 DEF FormLoads
    <3>3. \A x \in 0 .. Len(history) : x \in Nat BY <1>b
    <3>4. QED BY <3>1, <3>2, <3>3, FormAssumption
  <2>2. UNCHANGED <<history, posts>> BY <1>3 DEF FormLoads, ServerRests
  <2>3. \A b \in Forms : /\ form'[b].sent = form[b].sent /\ form'[b].key = form[b].key
                         /\ form'[b].pc = "reading" => form[b].pc = "reading"
                         /\ form'[b].saved => form[b].saved /\ form'[b].shown = form[b].shown
    BY <1>3, <2>1 DEF FormLoads, FormKeeps
  <2>4. QED BY <1>1, <2>2, <2>3
<1>4. ASSUME NEW a \in Forms, FormSaves(a) PROVE AnsweredSaves'
  <2>1. /\ history' = history /\ form'[a].sent = form[a].text /\ form'[a].key = attempts + 1
        /\ form'[a].pc = "posting" /\ ~form'[a].saved
        /\ \A b \in Forms \ {a} : form'[b] = form[b]
    BY <1>4 DEF FormSaves
  <2>2. \A p \in posts' : p \in posts \/ (p.of = a /\ p.opinion = form[a].text)
    BY <1>4 DEF FormSaves
  <2>3. \A p \in posts : p.key # attempts + 1
    <3>1. attempts \in Nat BY <1>0, FormFacts
    <3>2. QED BY <1>0, <1>a, <3>1 DEF OpinionsAreTyped
  <2>4. (\A p \in posts : form[p.of].key = p.key => p.opinion = form[p.of].sent)'
    <3> SUFFICES ASSUME NEW p \in posts', form'[p.of].key = p.key PROVE p.opinion = form'[p.of].sent
      OBVIOUS
    <3>1. CASE p.of = a /\ p.opinion = form[a].text BY <2>1, <3>1
    <3>2. CASE p \in posts
      <4>1. p.of # a BY <2>1, <2>3, <3>2
      <4>2. form'[p.of] = form[p.of] BY <1>a, <2>1, <3>2, <4>1
      <4>3. QED BY <1>0, <3>2, <4>2 DEF AnsweredSaves
    <3>3. QED BY <2>2, <3>1, <3>2
  <2>5. (\A b \in Forms : form[b].pc = "reading" => \E i \in DOMAIN history : history[i] = form[b].sent)'
    BY <1>0, <2>1 DEF AnsweredSaves
  <2>6. (\A b \in Forms : form[b].saved => /\ form[b].shown \in 0 .. Len(history)
                                           /\ \E i \in 1 .. form[b].shown : history[i] = form[b].sent)'
    BY <1>0, <2>1 DEF AnsweredSaves
  <2>7. QED BY <2>4, <2>5, <2>6 DEF AnsweredSaves
<1>5. ASSUME NEW a \in Forms, FormShows(a) PROVE AnsweredSaves'
  <2>1. /\ UNCHANGED <<history, posts>>
        /\ \A b \in Forms : form'[b].sent = form[b].sent /\ form'[b].key = form[b].key
        /\ form[a].pc = "reading" /\ form'[a].pc = "ready" /\ form'[a].shown = Len(history)
        /\ \A b \in Forms \ {a} : form'[b] = form[b]
    BY <1>5 DEF FormShows, FormKeeps, ServerRests
  <2>2. \E i \in 1 .. Len(history) : history[i] = form[a].sent BY <1>0, <1>b, <2>1 DEF AnsweredSaves
  <2>3. (\A p \in posts : form[p.of].key = p.key => p.opinion = form[p.of].sent)'
    BY <1>0, <1>a, <2>1 DEF AnsweredSaves
  <2>4. (\A b \in Forms : form[b].pc = "reading" => \E i \in DOMAIN history : history[i] = form[b].sent)'
    BY <1>0, <2>1 DEF AnsweredSaves
  <2>5. ASSUME NEW b \in Forms, form'[b].saved
        PROVE  /\ form'[b].shown \in 0 .. Len(history')
               /\ \E i \in 1 .. form'[b].shown : history'[i] = form'[b].sent
    <3>1. CASE b = a BY <1>b, <2>1, <2>2, <3>1
    <3>2. CASE b # a BY <1>0, <2>1, <2>5, <3>2 DEF AnsweredSaves
    <3>3. QED BY <3>1, <3>2
  <2>6. QED BY <2>3, <2>4, <2>5 DEF AnsweredSaves
<1>6. ASSUME NEW p \in posts, FormServed(p) PROVE AnsweredSaves'
  <2>1. /\ posts' \subseteq posts
        /\ \A b \in Forms : /\ form'[b].shown = form[b].shown /\ form'[b].sent = form[b].sent
                            /\ form'[b].key = form[b].key /\ form'[b].saved = form[b].saved
    BY <1>0, <1>6, FormServedFacts
  <2>2. \A b \in Forms : form'[b].pc = "reading" =>
          \/ form[b].pc = "reading"
          \/ b = p.of /\ form[b].key = p.key /\ history' = Append(history, p.opinion)
    BY <1>0, <1>6, FormServedFacts
  <2>3. PICK n : n = Len(history) OBVIOUS
  <2>4. history' = Append(history, p.opinion) => Len(history') = n + 1 /\ history'[n + 1] = p.opinion
    <3>1. p.opinion \in 1 .. MaxOpinions /\ history \in Seq(1 .. MaxOpinions) BY <1>0, FormFacts DEF FormTypeOK
    <3>2. QED BY <2>3, <3>1
  <2>5. /\ n \in Nat /\ DOMAIN history = 1 .. n /\ DOMAIN history' = 1 .. Len(history') /\ Len(history') \in {n, n + 1}
        /\ \A i \in 1 .. n : history'[i] = history[i]
    <3>1. CASE history' = history BY <1>b, <2>3, <3>1
    <3>2. CASE history' # history BY <1>0, <1>6, <1>b, <2>3, <3>2, FormServedFacts
    <3>3. QED BY <3>1, <3>2
  <2>6. PICK m : m = Len(history') OBVIOUS
  <2>7. m \in Nat /\ n <= m /\ 1 .. n \subseteq 1 .. m /\ 0 .. n \subseteq 0 .. m
    <3>1. m \in {n, n + 1} /\ n \in Nat BY <2>5, <2>6
    <3>2. QED BY <3>1
  <2>8. (\A q \in posts : form[q.of].key = q.key => q.opinion = form[q.of].sent)'
    BY <1>0, <1>a, <2>1 DEF AnsweredSaves
  <2>9. ASSUME NEW b \in Forms, form'[b].pc = "reading" PROVE \E i \in DOMAIN history' : history'[i] = form'[b].sent
    <3>1. CASE form[b].pc = "reading"
      <4>1. \E i \in 1 .. n : history[i] = form[b].sent BY <1>0, <2>5, <3>1 DEF AnsweredSaves
      <4>2. PICK i \in 1 .. n : history[i] = form[b].sent BY <4>1
      <4>3. history'[i] = form'[b].sent BY <2>1, <2>5, <4>2
      <4>4. DOMAIN history' = 1 .. m BY <2>5, <2>6
      <4>5. QED BY <2>7, <4>3, <4>4
    <3>2. CASE b = p.of /\ form[b].key = p.key /\ history' = Append(history, p.opinion)
      <4>1. p.opinion = form[b].sent BY <1>0, <3>2 DEF AnsweredSaves
      <4>2. Len(history') = n + 1 /\ history'[n + 1] = p.opinion BY <2>4, <3>2
      <4>3. n + 1 \in DOMAIN history' BY <2>5, <4>2
      <4>4. form'[b].sent = form[b].sent BY <2>1
      <4>5. QED BY <4>1, <4>2, <4>3, <4>4
    <3>3. QED BY <2>2, <2>9, <3>1, <3>2
  <2>10. ASSUME NEW b \in Forms, form'[b].saved
         PROVE  /\ form'[b].shown \in 0 .. Len(history')
                /\ \E i \in 1 .. form'[b].shown : history'[i] = form'[b].sent
    <3>1. form[b].saved /\ form'[b].shown = form[b].shown /\ form'[b].sent = form[b].sent BY <2>1, <2>10
    <3>2. form[b].shown \in 0 .. n BY <1>0, <2>3, <3>1 DEF AnsweredSaves
    <3>3. \E i \in 1 .. form[b].shown : history[i] = form[b].sent BY <1>0, <3>1 DEF AnsweredSaves
    <3>4. PICK i \in 1 .. form[b].shown : history[i] = form[b].sent BY <3>3
    <3>5. i \in 1 .. n
      <4>1. PICK k : k = form[b].shown OBVIOUS
      <4>2. n \in Nat /\ k \in 0 .. n /\ i \in 1 .. k BY <2>5, <3>2, <4>1
      <4>3. QED BY <4>2
    <3>6. history'[i] = form'[b].sent BY <2>5, <3>1, <3>4, <3>5
    <3>7. form'[b].shown \in 0 .. Len(history') BY <2>6, <2>7, <3>1, <3>2
    <3>8. i \in 1 .. form'[b].shown BY <3>1
    <3>9. QED BY <3>6, <3>7, <3>8
  <2>11. QED BY <2>8, <2>9, <2>10 DEF AnsweredSaves
<1>7. QED BY <1>2, <1>3, <1>4, <1>5, <1>6 DEF FormEffect

\* The effects keep the types.
LEMMA FormTypesStep == ASSUME FormTypeOK, FormEffect PROVE FormTypeOK'
<1> USE FormAssumption DEF FormMoves, ServerRests
<1>0. /\ history \in Seq(1 .. MaxOpinions) /\ form \in [Forms -> FormStates] /\ typed \in 0 .. MaxOpinions
      /\ attempts \in 0 .. MaxPosts
      /\ posts \subseteq [of : Forms, key : 1 .. MaxPosts, opinion : 1 .. MaxOpinions, version : Nat]
      /\ formFaults' \in 0 .. MaxFormFaults
  BY DEF FormTypeOK, FormEffect
<1>1. ASSUME NEW a \in Forms, FormLoads(a) \/ FormTypes(a) \/ FormShows(a) \/ FormBlank(a)
      PROVE  FormTypeOK'
  BY <1>0, <1>1 DEF FormLoads, FormTypes, FormShows, FormBlank, FormTypeOK
<1>2. ASSUME NEW a \in Forms, FormFails(a), ServerRests, typed' = typed PROVE FormTypeOK'
  BY <1>0, <1>2 DEF FormFails, FormTypeOK
<1>3. ASSUME NEW a \in Forms, FormSaves(a) PROVE FormTypeOK'
  <2>1. attempts + 1 \in 1 .. MaxPosts /\ form[a].text \in 1 .. MaxOpinions /\ form[a].shown \in Nat
    <3>1. form[a].text \in 0 .. MaxOpinions BY <1>0, FormFields
    <3>2. QED BY <1>0, <1>3, <3>1 DEF FormSaves
  <2>2. [of |-> a, key |-> attempts + 1, opinion |-> form[a].text, version |-> form[a].shown]
          \in [of : Forms, key : 1 .. MaxPosts, opinion : 1 .. MaxOpinions, version : Nat]
    BY <2>1
  <2>3. posts' \subseteq [of : Forms, key : 1 .. MaxPosts, opinion : 1 .. MaxOpinions, version : Nat]
    BY <1>0, <1>3, <2>2 DEF FormSaves
  <2>4. QED BY <1>0, <1>3, <2>3 DEF FormSaves, FormTypeOK
<1>4. ASSUME NEW p \in posts, FormServed(p) PROVE FormTypeOK'
  <2>1. history' \in Seq(1 .. MaxOpinions) /\ posts' \subseteq posts /\ typed' = typed /\ attempts' = attempts
        /\ form' \in [Forms -> FormStates]
    BY <1>0, <1>4, FormServedFacts
  <2>2. QED BY <1>0, <2>1 DEF FormTypeOK
<1>5. QED BY <1>1, <1>2, <1>3, <1>4 DEF FormEffect

\* The inductive invariant of FeedbackForm holds in every reachable state.
LEMMA FormInvariance == FormSpec => []FormInv
<1> USE FormAssumption
<1>1. FormInit => FormInv
  <2> SUFFICES ASSUME FormInit PROVE FormInv
    OBVIOUS
  <2>1. Blank \in FormStates /\ Blank.text = 0 /\ Blank.pc = "ready" /\ ~Blank.saved
    BY DEF Blank, FormStates, Steps
  <2>2. /\ history = <<>> /\ posts = {} /\ form \in [Forms -> FormStates]
        /\ \A a \in Forms : form[a].text = 0 /\ form[a].pc = "ready" /\ ~form[a].saved
    BY <2>1 DEF FormInit
  <2>3. FormTypeOK BY <2>2 DEF FormInit, FormTypeOK
  <2>4. OpinionsAreTyped /\ OneVersionEach /\ ShownVersion /\ AnsweredSaves
    BY <2>2 DEF FormInit, OpinionsAreTyped, OneVersionEach, ShownVersion, AnsweredSaves
  <2>5. QED BY <2>3, <2>4 DEF FormInv
<1>2. FormInv /\ [FormNext]_formVars => FormInv'
  <2> SUFFICES ASSUME FormInv, [FormNext]_formVars PROVE FormInv'
    OBVIOUS
  <2>1. CASE FormNext
    <3>1. FormTypeOK /\ FormEffect BY <2>1, FormSteps DEF FormInv
    <3>2. QED BY <3>1, FormTypesStep, TypedStep, VersionStep, ShownStep, AnsweredStep DEF FormInv
  <2>2. CASE UNCHANGED formVars
    BY <2>2 DEF formVars, FormInv, FormTypeOK, OpinionsAreTyped, OneVersionEach, ShownVersion, AnsweredSaves
  <2>3. QED BY <2>1, <2>2
<1>3. QED BY <1>1, <1>2, PTL DEF FormSpec

\* However often an opinion is sent, under whatever keys, and whatever is lost or
\* served late, the history has it at most once; and a form that says it is saved
\* shows a history with it.
THEOREM OpinionIsStoredOnce == FormSpec => []OpinionStoredOnce
<1>1. FormInv => OpinionStoredOnce
  BY DEF FormInv, OneVersionEach, AnsweredSaves, OpinionStoredOnce
<1>2. QED BY <1>1, FormInvariance, PTL

-----------------------------------------------------------------------------
(* ScheduleReplan: the inductive invariant                                 *)

DraftOf(r) == [asked |-> r, proposal |-> Proposal(r)]
ReplanProposals  == {Proposal(r) : r \in Requests}

\* Whatever is stored, about to be or answered is the proposal of a request, and
\* what was answered is stored under its id; drafters that never met store an id
\* once, and the id that one is about to store is not there.
ReplanInv ==
  /\ stored \in Seq(ReplanProposals)
  /\ drafting \in [Drafters -> {DraftOf(r) : r \in Requests} \union {NoDraft}]
  /\ drafted \subseteq {DraftOf(r) : r \in Requests}
  /\ draftsMet \in BOOLEAN
  /\ \A x \in drafted : \E i \in DOMAIN stored : stored[i].id = x.proposal.id
  /\ ~draftsMet =>
       /\ \A d, e \in Drafters : drafting[d] # NoDraft /\ drafting[e] # NoDraft => d = e
       /\ \A d \in Drafters : drafting[d] # NoDraft =>
            \A i \in DOMAIN stored : stored[i].id # drafting[d].proposal.id
       /\ \A i, j \in DOMAIN stored : stored[i].id = stored[j].id => i = j

\* A draft under way differs from none.
LEMMA NoDraftIsNone == ASSUME NEW r PROVE DraftOf(r) # NoDraft
<1>1. Proposal(r).confidence = r.confidence /\ DOMAIN Proposal(r) = {"id", "before", "proposed", "diff", "downstream", "confidence"}
  BY DEF Proposal
<1>2. "id" \notin DOMAIN <<>> OBVIOUS
<1>3. Proposal(r) # <<>> BY <1>1, <1>2
<1>4. DraftOf(r).proposal = Proposal(r) /\ NoDraft.proposal = <<>> BY DEF DraftOf, NoDraft
<1>5. QED BY <1>3, <1>4

\* What a draft proposes.
LEMMA DraftFields ==
  ASSUME NEW r
  PROVE  /\ DraftOf(r).asked = r /\ DraftOf(r).proposal = Proposal(r)
         /\ LET after == ProposedSchedule(r.board, r.impact.path) IN
              /\ Proposal(r).id = <<r.board, after>> /\ Proposal(r).before = r.board
              /\ Proposal(r).proposed = after /\ Proposal(r).diff = ScheduleDiff(r.board, after)
              /\ Proposal(r).downstream = r.impact.named
BY DEF DraftOf, Proposal, ProposalId

\* A draft that finds its id stored is answered with it.
LEMMA CheckKeepsReplan == ASSUME ReplanInv, NEW d \in Drafters, CheckExisting(d) PROVE ReplanInv'
<1>0. PICK n : n = Len(stored) OBVIOUS
<1>1. PICK r \in Requests :
        IF DraftOf(r).proposal.id \in StoredIds
        THEN drafted' = drafted \union {DraftOf(r)} /\ UNCHANGED drafting
        ELSE drafting' = [drafting EXCEPT ![d] = DraftOf(r)] /\ UNCHANGED drafted
  BY DEF CheckExisting, DraftOf
<1>2. /\ stored' = stored /\ drafting[d] = NoDraft
      /\ draftsMet' = (draftsMet \/ \E e \in Drafters : drafting[e] # NoDraft)
  BY DEF CheckExisting
<1>3. draftsMet' \in BOOLEAN /\ (~draftsMet' => ~draftsMet /\ \A e \in Drafters : drafting[e] = NoDraft)
  BY <1>2 DEF ReplanInv
<1>4. stored' \in Seq(ReplanProposals) BY <1>2 DEF ReplanInv
<1>5. CASE DraftOf(r).proposal.id \in StoredIds
  <2>1. drafted' = drafted \union {DraftOf(r)} /\ drafting' = drafting BY <1>1, <1>5
  <2>2. \E i \in DOMAIN stored : stored[i].id = DraftOf(r).proposal.id BY <1>5 DEF StoredIds
  <2>3. \A x \in drafted' : \E i \in DOMAIN stored : stored[i].id = x.proposal.id BY <2>1, <2>2 DEF ReplanInv
  <2>4. drafted' \subseteq {DraftOf(q) : q \in Requests} BY <2>1 DEF ReplanInv
  <2>5. QED BY <1>2, <1>3, <1>4, <2>1, <2>3, <2>4 DEF ReplanInv
<1>6. CASE DraftOf(r).proposal.id \notin StoredIds
  <2>1. drafting' = [drafting EXCEPT ![d] = DraftOf(r)] /\ drafted' = drafted BY <1>1, <1>6
  <2>2. /\ drafting' \in [Drafters -> {DraftOf(q) : q \in Requests} \union {NoDraft}]
        /\ drafting'[d] = DraftOf(r) /\ \A e \in Drafters \ {d} : drafting'[e] = drafting[e]
    BY <2>1 DEF ReplanInv
  <2>3. \A i \in DOMAIN stored : stored[i].id # DraftOf(r).proposal.id BY <1>6 DEF StoredIds
  <2>4. ~draftsMet' => \A e \in Drafters : drafting'[e] # NoDraft => e = d BY <1>3, <2>2
  <2>5. ~draftsMet' =>
          /\ \A e, f \in Drafters : drafting'[e] # NoDraft /\ drafting'[f] # NoDraft => e = f
          /\ \A e \in Drafters : drafting'[e] # NoDraft =>
               \A i \in DOMAIN stored : stored[i].id # drafting'[e].proposal.id
    BY <2>2, <2>3, <2>4
  <2>6. QED BY <1>2, <1>3, <1>4, <2>1, <2>2, <2>5 DEF ReplanInv
<1>7. QED BY <1>5, <1>6

\* A draft is answered when its proposal is stored.
LEMMA AppendKeepsReplan == ASSUME ReplanInv, NEW d \in Drafters, AppendProposal(d) PROVE ReplanInv'
<1>0. PICK n : n = Len(stored) OBVIOUS
<1>1. /\ drafting[d] # NoDraft /\ draftsMet' = draftsMet
      /\ stored' = Append(stored, drafting[d].proposal)
      /\ drafted' = drafted \union {drafting[d]}
      /\ drafting' = [drafting EXCEPT ![d] = NoDraft]
  BY DEF AppendProposal
<1>2. PICK r \in Requests : drafting[d] = DraftOf(r) BY <1>1 DEF ReplanInv
<1>3. PICK p \in ReplanProposals : p = drafting[d].proposal
  <2>1. drafting[d].proposal = Proposal(r) BY <1>2, DraftFields
  <2>2. Proposal(r) \in ReplanProposals BY DEF ReplanProposals
  <2>3. QED BY <2>1, <2>2
<1>4. /\ stored' \in Seq(ReplanProposals) /\ n \in Nat /\ DOMAIN stored = 1 .. n /\ DOMAIN stored' = 1 .. n + 1
      /\ stored'[n + 1] = p /\ \A i \in 1 .. n : stored'[i] = stored[i]
  BY <1>0, <1>1, <1>3 DEF ReplanInv
<1>5. \A i \in 1 .. n + 1 : i \in 1 .. n \/ i = n + 1 BY <1>4
<1>6. n + 1 \in 1 .. n + 1 /\ 1 .. n \subseteq 1 .. n + 1 /\ n + 1 \notin 1 .. n BY <1>4
<1>7. drafting' \in [Drafters -> {DraftOf(q) : q \in Requests} \union {NoDraft}] BY <1>1 DEF ReplanInv
<1>8. drafting'[d] = NoDraft /\ \A e \in Drafters \ {d} : drafting'[e] = drafting[e] BY <1>1 DEF ReplanInv
<1>9. drafted' \subseteq {DraftOf(q) : q \in Requests} BY <1>1, <1>2 DEF ReplanInv
<1>10. ASSUME NEW x \in drafted' PROVE \E i \in DOMAIN stored' : stored'[i].id = x.proposal.id
  <2>1. CASE x \in drafted
    <3>1. PICK i \in DOMAIN stored : stored[i].id = x.proposal.id BY <2>1 DEF ReplanInv
    <3>2. i \in DOMAIN stored' /\ stored'[i].id = x.proposal.id BY <1>4, <1>6, <3>1
    <3>3. QED BY <3>2
  <2>2. CASE x = drafting[d]
    <3>1. n + 1 \in DOMAIN stored' /\ stored'[n + 1].id = x.proposal.id BY <1>3, <1>4, <1>6, <2>2
    <3>2. QED BY <3>1
  <2>3. QED BY <1>1, <2>1, <2>2
<1>11. ASSUME ~draftsMet
       PROVE  /\ \A e \in Drafters : drafting'[e] = NoDraft
              /\ \A i, j \in DOMAIN stored' : stored'[i].id = stored'[j].id => i = j
  <2>1. \A e \in Drafters : drafting'[e] = NoDraft BY <1>1, <1>8, <1>11 DEF ReplanInv
  <2>2. \A i \in 1 .. n : stored[i].id # p.id BY <1>1, <1>3, <1>4, <1>11 DEF ReplanInv
  <2>3. \A i, j \in 1 .. n : stored[i].id = stored[j].id => i = j BY <1>4, <1>11 DEF ReplanInv
  <2>4. ASSUME NEW i \in 1 .. n + 1, NEW j \in 1 .. n + 1, stored'[i].id = stored'[j].id PROVE i = j
    BY <1>4, <1>5, <2>2, <2>3, <2>4
  <2>5. QED BY <1>4, <2>1, <2>4
<1>12. QED BY <1>1, <1>4, <1>7, <1>9, <1>10, <1>11 DEF ReplanInv

\* The inductive invariant of ScheduleReplan holds in every reachable state.
LEMMA ReplanInvariance == ReplanSpec => []ReplanInv
<1>1. ReplanInit => ReplanInv
  <2> SUFFICES ASSUME ReplanInit PROVE ReplanInv OBVIOUS
  <2>1. stored = <<>> /\ drafted = {} /\ draftsMet = FALSE BY DEF ReplanInit
  <2>2. stored \in Seq(ReplanProposals) /\ DOMAIN stored = {} BY <2>1
  <2>3. drafting \in [Drafters -> {DraftOf(r) : r \in Requests} \union {NoDraft}]
        /\ \A d \in Drafters : drafting[d] = NoDraft
    BY DEF ReplanInit
  <2>4. QED BY <2>1, <2>2, <2>3 DEF ReplanInv
<1>2. ReplanInv /\ [ReplanNext]_replanVars => ReplanInv'
  <2> SUFFICES ASSUME ReplanInv, [ReplanNext]_replanVars PROVE ReplanInv' OBVIOUS
  <2>1. ASSUME NEW d \in Drafters, CheckExisting(d) PROVE ReplanInv' BY <2>1, CheckKeepsReplan
  <2>2. ASSUME NEW d \in Drafters, AppendProposal(d) PROVE ReplanInv' BY <2>2, AppendKeepsReplan
  <2>3. CASE UNCHANGED replanVars BY <2>3 DEF replanVars, ReplanInv
  <2>4. QED BY <2>1, <2>2, <2>3 DEF ReplanNext
<1>3. QED BY <1>1, <1>2, PTL DEF ReplanSpec

-----------------------------------------------------------------------------
(* What is found under an id                                               *)

\* The first proposal with an id that is stored has this id.
LEMMA FoundHasId ==
  ASSUME ReplanInv, NEW id, \E i \in DOMAIN stored : stored[i].id = id
  PROVE  Found(id) \in DOMAIN stored /\ stored[Found(id)].id = id
<1> DEFINE I == {i \in 1 .. Len(stored) : stored[i].id = id}
<1>1. Len(stored) \in Nat /\ DOMAIN stored = 1 .. Len(stored) BY DEF ReplanInv
<1>2. I # {} /\ I \subseteq Nat BY <1>1
<1>3. Found(id) = IF I # {} THEN Min(I) ELSE 0 BY DEF Found, SelectInSeq
<1> HIDE DEF I
<1>4. \E x \in I : \A y \in I : x <= y
  <2>1. \E x \in I : \A y \in I : ~(<<y, x>> \in OpToRel(<, Nat))
    BY <1>2, WFMin, NatLessThanWellFounded
  <2>2. PICK x \in I : \A y \in I : ~(<<y, x>> \in OpToRel(<, Nat)) BY <2>1
  <2>3. ASSUME NEW y \in I PROVE x <= y
    <3>1. x \in Nat /\ y \in Nat BY <1>2
    <3>2. ~(y < x) BY <2>2, <3>1 DEF OpToRel
    <3>3. QED BY <3>1, <3>2
  <2>4. QED BY <2>3
<1>5. Min(I) \in I BY <1>4 DEF Min
<1>6. QED BY <1>1, <1>2, <1>3, <1>5 DEF I

\* The items are where the delay puts them, if the impact was calculated.
LEMMA DelayMovesItems ==
  ASSUME NEW r \in Requests, NEW c \in Changes, r.impact = Calculated(c, r.board), NEW t \in DOMAIN TypeOf
  PROVE  IsMoved(c, t, r.board[t], Proposal(r).proposed[t])
<1> DEFINE path == ImpactPath(c, r.board)
<1>1. /\ r.board \in [DOMAIN TypeOf -> Nat] /\ Waits \subseteq DOMAIN TypeOf
      /\ c \in [before : Nat \union {NoDate}, after : Nat \union {NoDate}, blocked : BOOLEAN]
  BY ReplanAssumption DEF Requests
<1>2. PICK from, to : from = r.board[t] /\ to = Proposal(r).proposed[t] OBVIOUS
<1>3. to = IF t \in DOMAIN path THEN path[t] ELSE from
  <2>1. r.impact.path = path BY DEF Calculated
  <2>2. Proposal(r).proposed = ProposedSchedule(r.board, r.impact.path) BY DraftFields
  <2>3. Proposal(r).proposed = ProposedSchedule(r.board, path) BY <2>1, <2>2
  <2>4. DOMAIN r.board = DOMAIN TypeOf BY <1>1
  <2>5. QED BY <1>2, <2>3, <2>4 DEF ProposedSchedule
<1>4. from \in Nat /\ (~ImpactBlocked(c) => c.before \in Nat /\ c.after \in Nat)
  BY <1>1, <1>2 DEF ImpactBlocked
<1>5. CASE ImpactBlocked(c)
  <2>1. DOMAIN path = {} BY <1>2, <1>5 DEF ImpactPath
  <2>2. QED BY <1>2, <1>3, <1>5, <2>1 DEF IsMoved
<1>6. CASE ~ImpactBlocked(c)
  <2>1. PICK a, b : a = c.after /\ b = c.before OBVIOUS
  <2>2. a \in Nat /\ b \in Nat /\ DelayHours(c) = (a - b) \div 60 BY <1>4, <1>6, <2>1 DEF DelayHours
  <2>3. PICK h : h = (a - b) \div 60 OBVIOUS
  <2>4. h \in Int /\ 60 * h <= a - b /\ a - b < 60 * h + 60 BY <2>2, <2>3
  <2>5. CASE h <= 0
    <3>1. DOMAIN path = {} BY <1>2, <1>6, <2>2, <2>3, <2>5 DEF ImpactPath
    <3>2. a - b < 60 BY <2>2, <2>4, <2>5
    <3>3. to = from BY <1>3, <3>1
    <3>4. QED BY <1>2, <2>1, <3>2, <3>3 DEF IsMoved
  <2>6. CASE ~(h <= 0)
    <3>1. path = [z \in Waits |-> MovedTo(c, r.board, z)] BY <1>2, <1>6, <2>2, <2>3, <2>6 DEF ImpactPath
    <3>2. t \in Waits => to = IF TypeOf[t] = "RESERVATION" THEN a ELSE from + 60 * h
      BY <1>2, <1>3, <2>1, <2>2, <2>3, <3>1 DEF MovedTo
    <3>3. t \notin Waits => to = from BY <1>3, <3>1
    <3>4. ~(a - b < 60) BY <2>2, <2>4, <2>6
    <3>5. to = from + 60 * h => from + (a - b) - to \in 0 .. 59
      <4>1. PICK k : k = 60 * h OBVIOUS
      <4>2. k \in Int /\ k <= a - b /\ a - b < k + 60 /\ from \in Nat /\ a \in Nat /\ b \in Nat
        BY <1>4, <2>2, <2>4, <4>1
      <4>3. from + (a - b) - (from + k) \in 0 .. 59 BY <4>2
      <4>4. QED BY <4>1, <4>3
    <3>6. QED BY <1>2, <1>6, <2>1, <3>2, <3>3, <3>4, <3>5 DEF IsMoved
  <2>7. QED BY <2>5, <2>6
<1>7. QED BY <1>5, <1>6

\* Whatever was drafted before, and by whom, the proposal that is found under an
\* id that was answered moves the schedule that was sent as the impact that was
\* sent says, and names the items it moves; if the impact was calculated on that
\* schedule, every item is where the delay puts it; drafts that do not overlap
\* store no id twice.
THEOREM AnsweredReplansAreFound == ReplanSpec => []AnsweredReplanIsFound
<1>1. ReplanInv => AnsweredReplanIsFound
  <2> SUFFICES ASSUME ReplanInv PROVE AnsweredReplanIsFound OBVIOUS
  <2>1. ASSUME NEW x \in drafted
        PROVE  LET r == x.asked
                   i == Found(x.proposal.id) IN
               /\ i > 0
               /\ stored[i].before = r.board
               /\ stored[i].proposed = ProposedSchedule(r.board, r.impact.path)
               /\ stored[i].diff = {t \in DOMAIN TypeOf : stored[i].proposed[t] # r.board[t]}
               /\ \A c \in Changes : r.impact = Calculated(c, r.board) =>
                    /\ stored[i].diff \subseteq x.proposal.downstream
                    /\ \A t \in DOMAIN TypeOf : IsMoved(c, t, r.board[t], stored[i].proposed[t])
    <3>1. PICK r \in Requests : x = DraftOf(r) BY DEF ReplanInv
    <3>2. x.asked = r /\ x.proposal = Proposal(r) BY <3>1, DraftFields
    <3>3. PICK i : i = Found(x.proposal.id) OBVIOUS
    <3>4. i \in DOMAIN stored /\ stored[i].id = Proposal(r).id BY <3>2, <3>3, FoundHasId DEF ReplanInv
    <3>5. i > 0
      <4>1. Len(stored) \in Nat /\ DOMAIN stored = 1 .. Len(stored) BY DEF ReplanInv
      <4>2. QED BY <3>4, <4>1
    <3>6. PICK q \in Requests : stored[i] = Proposal(q) BY <3>4 DEF ReplanInv, ReplanProposals
    <3>7. PICK path, after : path = r.impact.path /\ after = ProposedSchedule(r.board, path) OBVIOUS
    <3>8. /\ Proposal(r).id = <<r.board, after>> /\ Proposal(r).proposed = after
          /\ Proposal(r).downstream = r.impact.named
      BY <3>7, DraftFields
    <3>9. stored[i].before = r.board /\ stored[i].proposed = after /\ stored[i].diff = ScheduleDiff(r.board, after)
      <4>1. PICK done : done = ProposedSchedule(q.board, q.impact.path) OBVIOUS
      <4>2. /\ stored[i].id = <<q.board, done>> /\ stored[i].before = q.board
            /\ stored[i].proposed = done /\ stored[i].diff = ScheduleDiff(q.board, done)
        BY <3>6, <4>1, DraftFields
      <4>3. q.board = r.board /\ done = after BY <3>4, <3>8, <4>2
      <4>4. QED BY <4>2, <4>3
    <3>10. DOMAIN r.board = DOMAIN TypeOf BY ReplanAssumption DEF Requests
    <3>11. stored[i].diff = {t \in DOMAIN TypeOf : stored[i].proposed[t] # r.board[t]}
      BY <3>9, <3>10 DEF ScheduleDiff
    <3>12. ASSUME NEW c \in Changes, r.impact = Calculated(c, r.board)
           PROVE  /\ stored[i].diff \subseteq r.impact.named
                  /\ \A t \in DOMAIN TypeOf : IsMoved(c, t, r.board[t], stored[i].proposed[t])
      <4>1. r.impact.named = DOMAIN path BY <3>7, <3>12 DEF Calculated
      <4>2. stored[i].diff \subseteq DOMAIN path BY <3>7, <3>9 DEF ScheduleDiff, ProposedSchedule
      <4>3. \A t \in DOMAIN TypeOf : IsMoved(c, t, r.board[t], stored[i].proposed[t])
        BY <3>8, <3>9, <3>12, DelayMovesItems
      <4>4. QED BY <4>1, <4>2, <4>3
    <3>13. x.proposal.downstream = r.impact.named BY <3>2, <3>8
    <3>14. stored[i].proposed = ProposedSchedule(r.board, r.impact.path) BY <3>7, <3>9
    <3>15. QED BY <3>2, <3>3, <3>5, <3>9, <3>11, <3>12, <3>13, <3>14
  <2>2. ~draftsMet => \A i, j \in DOMAIN stored : stored[i].id = stored[j].id => i = j BY DEF ReplanInv
  <2>3. QED BY <2>1, <2>2 DEF AnsweredReplanIsFound
<1>2. QED BY <1>1, ReplanInvariance, PTL

-----------------------------------------------------------------------------
(* MappingReview: the inductive invariant                                  *)

ReviewTypes ==
  /\ queued \subseteq Sources
  /\ resolvedTo \in [Sources -> AnySku \union {NoSku}]
  /\ mappings \in Seq(MappingRows)
  /\ call \in [Reviewers -> Calls \union {NoCall}]
  /\ callsMet \in BOOLEAN

\* A call knows every SKU that was in force during it; a SKU it has decided on
\* is one of them; and another tenant's call is refused at the look-up.
BackedCall(r) ==
  /\ InForce \subseteq call[r].held
  /\ ~CallAt(r, "lookup") /\ ~CallAt(r, "audit") => call[r].ours
  /\ call[r].at \in {"take", "delete", "store"} => call[r].sku \in call[r].held
  /\ CallAt(r, "audit") =>
       /\ call[r].status = "REPROCESSED" => call[r].sku \in call[r].held
       /\ ~call[r].ours => call[r].status \in {"NOT_PENDING", "TENANT_MISMATCH"}

BackedAudit ==
  \A e \in audit :
    /\ e.status = "REPROCESSED" => e.event \in e.held /\ e.event # NoSku
    /\ ~e.ours => e.names = NoSku /\ e.status \in {"NOT_PENDING", "TENANT_MISMATCH"}

\* What is resolved was mapped by a call that is recorded or about to be.
Recorded(s) == \E e \in audit : e.source = s /\ e.status = "REPROCESSED" /\ e.event = resolvedTo[s]
Recording(s, r) == /\ CallAt(r, "audit") /\ call[r].status = "REPROCESSED"
                   /\ call[r].source = s /\ call[r].sku = resolvedTo[s]
BackedResolutions ==
  \A s \in Sources : resolvedTo[s] # NoSku => Recorded(s) \/ \E r \in Reviewers : Recording(s, r)

\* A call that is alone finds the item as it left it.
AloneCall(r) ==
  /\ CallAt(r, "put") => resolvedTo[call[r].source] = NoSku
  /\ call[r].at \in {"decide", "take", "delete"} => call[r].source \in queued
  /\ CallAt(r, "store") => call[r].source \notin queued /\ resolvedTo[call[r].source] = NoSku
  /\ CallAt(r, "audit") =>
       /\ call[r].status # "REPROCESS_EXCEPTION"
       /\ call[r].status = "REPROCESSED" => resolvedTo[call[r].source] = call[r].sku

AloneItems ==
  /\ \A s \in queued : resolvedTo[s] = NoSku
  /\ \A e \in audit :
       /\ e.status = "REPROCESSED" => e.names = e.event /\ resolvedTo[e.source] = e.event
       /\ e.status # "REPROCESS_EXCEPTION"

OneCall ==
  /\ \A q, r \in Reviewers : InCall(q) /\ InCall(r) => q = r
  /\ \A r \in Reviewers : InCall(r) => AloneCall(r)

ReviewInv ==
  /\ ReviewTypes
  /\ \A r \in Reviewers : InCall(r) => BackedCall(r)
  /\ BackedAudit
  /\ BackedResolutions
  /\ ~callsMet => OneCall /\ AloneItems

-----------------------------------------------------------------------------
(* The steps of a call                                                     *)

OthersRest(r) == call' \in [Reviewers -> Calls \union {NoCall}] /\ \A q \in Reviewers \ {r} : call'[q] = call[q]

GoesOn(r, at, status, sku) ==
  /\ OthersRest(r)
  /\ call'[r] \in Calls /\ call'[r] # NoCall
  /\ call'[r].at = at /\ call'[r].status = status /\ call'[r].sku = sku
  /\ call'[r].source = call[r].source /\ call'[r].ours = call[r].ours /\ call'[r].held = call[r].held

EndsCall(r) == OthersRest(r) /\ call'[r] = NoCall

ItemsRest == UNCHANGED <<queued, resolvedTo, mappings, audit, callsMet>>

CallSteps == {"look", "put", "lookup", "decide", "take", "delete", "store", "audit"}

\* What the types say of a call.
LEMMA CallFacts ==
  ASSUME ReviewTypes, NEW r \in Reviewers
  PROVE  /\ NoCall.at = "idle"
         /\ ~CallAt(r, "idle") => InCall(r)
         /\ InCall(r) => /\ call[r] \in Calls /\ call[r].at \in CallSteps /\ call[r].source \in Sources
                         /\ call[r].ours \in BOOLEAN /\ call[r].sku \in AnySku \union {NoSku}
                         /\ call[r].status \in ReviewStatuses /\ call[r].held \in SUBSET AnySku
<1>1. NoCall.at = "idle" BY DEF NoCall
<1>2. ~CallAt(r, "idle") => InCall(r) BY <1>1 DEF CallAt, InCall
<1>3. InCall(r) => call[r] \in Calls BY DEF InCall, ReviewTypes
<1>4. ASSUME NEW c \in Calls
      PROVE  /\ c.at \in CallSteps /\ c.source \in Sources /\ c.ours \in BOOLEAN
             /\ c.sku \in AnySku \union {NoSku} /\ c.status \in ReviewStatuses /\ c.held \in SUBSET AnySku
  BY DEF Calls, CallSteps
<1>5. QED BY <1>1, <1>2, <1>3, <1>4

\* A call that moves on changes nothing but the fields that the step names.
LEMMA CallGoesOn ==
  ASSUME ReviewTypes, NEW r \in Reviewers, InCall(r), NEW at \in CallSteps
  PROVE  /\ CallTo(r, [call[r] EXCEPT !.at = at]) => GoesOn(r, at, call[r].status, call[r].sku)
         /\ \A st \in ReviewStatuses :
              CallTo(r, [call[r] EXCEPT !.at = at, !.status = st]) => GoesOn(r, at, st, call[r].sku)
         /\ \A sku \in AnySku :
              CallTo(r, [call[r] EXCEPT !.at = at, !.sku = sku]) => GoesOn(r, at, call[r].status, sku)
<1>0. call[r] \in Calls /\ NoCall.at = "idle" /\ call \in [Reviewers -> Calls \union {NoCall}]
  BY CallFacts DEF ReviewTypes
<1>1. ASSUME NEW v \in Calls, CallTo(r, v) PROVE OthersRest(r) /\ call'[r] = v
  BY <1>0, <1>1 DEF CallTo, OthersRest
<1>2. ASSUME NEW v \in Calls PROVE v # NoCall BY <1>0 DEF Calls
<1>3. ASSUME NEW c \in Calls
      PROVE  LET v == [c EXCEPT !.at = at] IN
             /\ v \in Calls /\ v.at = at /\ v.status = c.status /\ v.sku = c.sku
             /\ v.source = c.source /\ v.ours = c.ours /\ v.held = c.held
  BY DEF Calls, CallSteps
<1>4. ASSUME NEW c \in Calls, NEW st \in ReviewStatuses
      PROVE  LET v == [c EXCEPT !.at = at, !.status = st] IN
             /\ v \in Calls /\ v.at = at /\ v.status = st /\ v.sku = c.sku
             /\ v.source = c.source /\ v.ours = c.ours /\ v.held = c.held
  BY DEF Calls, CallSteps
<1>5. ASSUME NEW c \in Calls, NEW sku \in AnySku
      PROVE  LET v == [c EXCEPT !.at = at, !.sku = sku] IN
             /\ v \in Calls /\ v.at = at /\ v.status = c.status /\ v.sku = sku
             /\ v.source = c.source /\ v.ours = c.ours /\ v.held = c.held
  BY DEF Calls, CallSteps
<1>6. ASSUME CallTo(r, [call[r] EXCEPT !.at = at]) PROVE GoesOn(r, at, call[r].status, call[r].sku)
  <2>1. PICK v : v = [call[r] EXCEPT !.at = at] OBVIOUS
  <2>2. /\ v \in Calls /\ v.at = at /\ v.status = call[r].status /\ v.sku = call[r].sku
        /\ v.source = call[r].source /\ v.ours = call[r].ours /\ v.held = call[r].held
    BY <1>0, <1>3, <2>1
  <2>3. OthersRest(r) /\ call'[r] = v BY <1>1, <1>6, <2>1, <2>2
  <2>4. v # NoCall BY <1>2, <2>2
  <2>5. QED BY <2>2, <2>3, <2>4 DEF GoesOn
<1>7. ASSUME NEW st \in ReviewStatuses, CallTo(r, [call[r] EXCEPT !.at = at, !.status = st])
      PROVE  GoesOn(r, at, st, call[r].sku)
  <2>1. PICK v : v = [call[r] EXCEPT !.at = at, !.status = st] OBVIOUS
  <2>2. /\ v \in Calls /\ v.at = at /\ v.status = st /\ v.sku = call[r].sku
        /\ v.source = call[r].source /\ v.ours = call[r].ours /\ v.held = call[r].held
    BY <1>0, <1>4, <2>1
  <2>3. OthersRest(r) /\ call'[r] = v BY <1>1, <1>7, <2>1, <2>2
  <2>4. v # NoCall BY <1>2, <2>2
  <2>5. QED BY <2>2, <2>3, <2>4 DEF GoesOn
<1>8. ASSUME NEW sku \in AnySku, CallTo(r, [call[r] EXCEPT !.at = at, !.sku = sku])
      PROVE  GoesOn(r, at, call[r].status, sku)
  <2>1. PICK v : v = [call[r] EXCEPT !.at = at, !.sku = sku] OBVIOUS
  <2>2. /\ v \in Calls /\ v.at = at /\ v.status = call[r].status /\ v.sku = sku
        /\ v.source = call[r].source /\ v.ours = call[r].ours /\ v.held = call[r].held
    BY <1>0, <1>5, <2>1
  <2>3. OthersRest(r) /\ call'[r] = v BY <1>1, <1>8, <2>1, <2>2
  <2>4. v # NoCall BY <1>2, <2>2
  <2>5. QED BY <2>2, <2>3, <2>4 DEF GoesOn
<1>9. QED BY <1>6, <1>7, <1>8

\* A call that ends leaves the others alone.
LEMMA CallEnds ==
  ASSUME ReviewTypes, NEW r \in Reviewers, CallTo(r, NoCall)
  PROVE  EndsCall(r)
BY DEF ReviewTypes, CallTo, EndsCall, OthersRest

\* A SKU that a call decides on is in force.
LEMMA DecidedIsInForce ==
  ASSUME ReviewTypes, NEW line, MappingVerdict(mappings, line) = "REPROCESSED"
  PROVE  Latest(mappings).sku \in InForce
<1>1. /\ ~\E i \in DOMAIN mappings : mappings[i].status = "AMBIGUOUS"
      /\ ~\E a, b \in ApprovedSkus(mappings) : a # b
      /\ mappings # <<>> /\ Latest(mappings).approved
      /\ Latest(mappings).sku \in TenantSkus
  BY DEF MappingVerdict
<1>2. PICK n : n = Len(mappings) OBVIOUS
<1>3. n \in Nat \ {0} /\ DOMAIN mappings = 1 .. n /\ \A i \in 1 .. n : mappings[i] \in MappingRows
  BY <1>1, <1>2 DEF ReviewTypes
<1>4. n \in 1 .. n BY <1>3
<1>5. ASSUME NEW m \in MappingRows
      PROVE  /\ m.status \in {"VERIFIED", "AMBIGUOUS"}
             /\ m.approved => m = [sku |-> m.sku, status |-> "VERIFIED", approved |-> TRUE]
  <2>1. CASE m \in [sku : AnySku, status : {"VERIFIED"}, approved : BOOLEAN] BY <2>1
  <2>2. CASE m \in [sku : {NoSku}, status : {"AMBIGUOUS"}, approved : {FALSE}] BY <2>2
  <2>3. QED BY <2>1, <2>2 DEF MappingRows
<1>6. PICK s : s = Latest(mappings).sku OBVIOUS
<1>7. mappings[n] = [sku |-> s, status |-> "VERIFIED", approved |-> TRUE]
  BY <1>1, <1>2, <1>3, <1>4, <1>5, <1>6 DEF Latest
<1>8. ASSUME NEW i \in 1 .. n PROVE mappings[i].status = "VERIFIED" /\ (mappings[i].approved => mappings[i].sku = s)
  <2>1. mappings[i].status = "VERIFIED" BY <1>1, <1>3, <1>5
  <2>2. ASSUME mappings[i].approved PROVE mappings[i].sku = s
    <3>1. mappings[i].sku \in ApprovedSkus(mappings) BY <1>3, <2>2 DEF ApprovedSkus
    <3>2. s \in ApprovedSkus(mappings)
      <4>1. mappings[n].approved /\ mappings[n].sku = s BY <1>7
      <4>2. QED BY <1>3, <1>4, <4>1 DEF ApprovedSkus
    <3>3. QED BY <1>1, <3>1, <3>2
  <2>3. QED BY <2>1, <2>2
<1>9. QED BY <1>1, <1>2, <1>3, <1>6, <1>7, <1>8 DEF InForce

\* A verdict is one of six.
LEMMA VerdictIsNoException ==
  ASSUME NEW ms, NEW line
  PROVE  MappingVerdict(ms, line) \in {"AMBIGUOUS_MAPPING", "MAPPING_COLLISION", "APPROVED_MAPPING_REQUIRED",
                                       "CANONICAL_TENANT_MISMATCH", "REPROCESS_FAILED", "REPROCESSED"}
BY DEF MappingVerdict

\* For a step of a call under way it is enough to look at the call itself.
LEMMA OwnStepSuffices ==
  ASSUME ReviewInv, NEW r \in Reviewers, InCall(r), OthersRest(r), UNCHANGED <<mappings, callsMet>>,
         queued' \subseteq Sources,
         resolvedTo' \in [Sources -> AnySku \union {NoSku}],
         call'[r] # NoCall => BackedCall(r)',
         BackedAudit', BackedResolutions',
         ~callsMet => (call'[r] # NoCall => AloneCall(r)') /\ AloneItems'
  PROVE  ReviewInv'
<1>1. call' \in [Reviewers -> Calls \union {NoCall}] /\ \A q \in Reviewers \ {r} : call'[q] = call[q] BY DEF OthersRest
<1>2. InForce' = InForce BY DEF InForce
<1>3. ReviewTypes' BY <1>1 DEF ReviewInv, ReviewTypes
<1>4. ASSUME NEW q \in Reviewers, InCall(q)' PROVE BackedCall(q)'
  <2>1. CASE q = r BY <1>4, <2>1 DEF InCall
  <2>2. CASE q # r BY <1>1, <1>2, <1>4, <2>2 DEF ReviewInv, BackedCall, InCall, CallAt
  <2>3. QED BY <2>1, <2>2
<1>5. ASSUME ~callsMet PROVE \A q \in Reviewers : InCall(q)' => q = r
  BY <1>1, <1>5 DEF ReviewInv, OneCall, InCall
<1>6. ASSUME ~callsMet, NEW q \in Reviewers, InCall(q)' PROVE AloneCall(q)'
  <2>1. q = r BY <1>5, <1>6
  <2>2. QED BY <1>6, <2>1 DEF InCall
<1>7. ASSUME ~callsMet PROVE OneCall'
  <2>1. \A p, q \in Reviewers : InCall(p)' /\ InCall(q)' => p = q BY <1>5, <1>7
  <2>2. QED BY <1>6, <1>7, <2>1 DEF OneCall
<1>8. (\A q \in Reviewers : InCall(q) => BackedCall(q))' BY <1>4
<1>9. QED BY <1>3, <1>7, <1>8 DEF ReviewInv

\* Nothing is recorded or resolved by the step.
LEMMA RecordsRest ==
  ASSUME ReviewInv, NEW r \in Reviewers, OthersRest(r), UNCHANGED <<resolvedTo, audit>>, ~CallAt(r, "audit")
  PROVE  BackedAudit' /\ BackedResolutions'
<1>1. BackedAudit' BY DEF ReviewInv, BackedAudit
<1>2. \A q \in Reviewers \ {r} : call'[q] = call[q] BY DEF OthersRest
<1>3. ASSUME NEW s \in Sources, resolvedTo'[s] # NoSku PROVE Recorded(s)' \/ \E q \in Reviewers : Recording(s, q)'
  <2>1. CASE Recorded(s) BY <2>1 DEF Recorded
  <2>2. CASE \E q \in Reviewers : Recording(s, q)
    <3>1. PICK q \in Reviewers : Recording(s, q) BY <2>2
    <3>2. q # r BY <3>1 DEF Recording
    <3>3. Recording(s, q)' BY <1>2, <3>1, <3>2 DEF Recording, CallAt
    <3>4. QED BY <3>3
  <2>3. QED BY <1>3, <2>1, <2>2 DEF ReviewInv, BackedResolutions
<1>4. QED BY <1>1, <1>3 DEF BackedResolutions

\* The steps of a call, one by one: it looks whether the item is known,
LEMMA LookKeepsReview == ASSUME ReviewInv, NEW r \in Reviewers, Look(r) PROVE ReviewInv'
<1>0. ReviewTypes /\ InCall(r) /\ CallAt(r, "look") /\ BackedCall(r)
  <2>1. ReviewTypes /\ CallAt(r, "look") BY DEF ReviewInv, Look
  <2>2. InCall(r) BY <2>1, CallFacts DEF CallAt
  <2>3. QED BY <2>1, <2>2 DEF ReviewInv
<1>1. UNCHANGED <<queued, resolvedTo, mappings, audit, callsMet>> BY DEF Look
<1>2. CASE CallTo(r, NoCall)
  <2>1. EndsCall(r) BY <1>0, <1>2, CallEnds
  <2>2. BackedAudit' /\ BackedResolutions' BY <1>0, <1>1, <2>1, RecordsRest DEF EndsCall, CallAt
  <2>3. ~callsMet => AloneItems' BY <1>1 DEF ReviewInv, AloneItems
  <2>4. queued' \subseteq Sources /\ resolvedTo' \in [Sources -> AnySku \union {NoSku}] BY <1>0, <1>1 DEF ReviewTypes
  <2>5. QED BY <1>0, <1>1, <2>1, <2>2, <2>3, <2>4, OwnStepSuffices DEF EndsCall
<1>3. CASE ~Known(call[r].source) /\ CallTo(r, [call[r] EXCEPT !.at = "put"])
  <2>1. GoesOn(r, "put", call[r].status, call[r].sku) BY <1>0, <1>3, CallGoesOn DEF CallSteps
  <2>2. BackedAudit' /\ BackedResolutions' BY <1>0, <1>1, <2>1, RecordsRest DEF GoesOn, CallAt
  <2>3. InForce' = InForce BY <1>1 DEF InForce
  <2>4. BackedCall(r)' BY <1>0, <2>1, <2>3 DEF GoesOn, BackedCall, CallAt
  <2>5. AloneCall(r)' BY <1>1, <1>3, <2>1 DEF GoesOn, AloneCall, CallAt, Known
  <2>6. ~callsMet => AloneItems' BY <1>1 DEF ReviewInv, AloneItems
  <2>7. queued' \subseteq Sources /\ resolvedTo' \in [Sources -> AnySku \union {NoSku}] BY <1>0, <1>1 DEF ReviewTypes
  <2>8. QED BY <1>0, <1>1, <2>1, <2>2, <2>4, <2>5, <2>6, <2>7, OwnStepSuffices DEF GoesOn
<1>4. QED BY <1>2, <1>3 DEF Look

\* puts it on the queue,
LEMMA PutKeepsReview == ASSUME ReviewInv, NEW r \in Reviewers, Put(r) PROVE ReviewInv'
<1>0. ReviewTypes /\ InCall(r) /\ CallAt(r, "put") /\ BackedCall(r)
  <2>1. ReviewTypes /\ CallAt(r, "put") BY DEF ReviewInv, Put
  <2>2. InCall(r) BY <2>1, CallFacts DEF CallAt
  <2>3. QED BY <2>1, <2>2 DEF ReviewInv
<1>1. queued' = queued \union {call[r].source} /\ UNCHANGED <<resolvedTo, mappings, audit, callsMet>> BY DEF Put
<1>2. EndsCall(r) BY <1>0, CallEnds DEF Put
<1>3. BackedAudit' /\ BackedResolutions' BY <1>0, <1>1, <1>2, RecordsRest DEF EndsCall, CallAt
<1>4. call[r].source \in Sources BY <1>0, CallFacts
<1>5. queued' \subseteq Sources /\ resolvedTo' \in [Sources -> AnySku \union {NoSku}]
  BY <1>0, <1>1, <1>4 DEF ReviewTypes
<1>6. ~callsMet => resolvedTo[call[r].source] = NoSku BY <1>0 DEF ReviewInv, OneCall, AloneCall
<1>7. ~callsMet => AloneItems' BY <1>1, <1>6 DEF ReviewInv, AloneItems
<1>8. QED BY <1>0, <1>1, <1>2, <1>3, <1>5, <1>7, OwnStepSuffices DEF EndsCall

\* A call goes on, and nothing but the call and the queue changes.
LEMMA GoingOnKeepsReview ==
  ASSUME ReviewInv, NEW r \in Reviewers, InCall(r), ~CallAt(r, "audit"),
         NEW at, NEW st, NEW sku, GoesOn(r, at, st, sku),
         UNCHANGED <<resolvedTo, mappings, audit, callsMet>>, queued' \subseteq queued,
         at \notin {"lookup", "audit"} => call[r].ours,
         at \in {"take", "delete", "store"} => sku \in call[r].held,
         at = "audit" => /\ st = "REPROCESSED" => sku \in call[r].held
                         /\ ~call[r].ours => st \in {"NOT_PENDING", "TENANT_MISMATCH"},
         ~callsMet => AloneCall(r)'
  PROVE  ReviewInv'
<1>0. ReviewTypes /\ BackedCall(r) BY DEF ReviewInv
<1>1. BackedAudit' /\ BackedResolutions' BY RecordsRest DEF GoesOn
<1>2. InForce' = InForce BY DEF InForce
<1>3. BackedCall(r)' BY <1>0, <1>2 DEF GoesOn, BackedCall, CallAt
<1>4. ~callsMet => AloneItems' BY DEF ReviewInv, AloneItems
<1>5. queued' \subseteq Sources /\ resolvedTo' \in [Sources -> AnySku \union {NoSku}] BY <1>0 DEF ReviewTypes
<1>6. QED BY <1>1, <1>3, <1>4, <1>5, OwnStepSuffices DEF GoesOn

\* looks the mapping up,
LEMMA LookUpKeepsReview == ASSUME ReviewInv, NEW r \in Reviewers, LookUp(r) PROVE ReviewInv'
<1>0. ReviewTypes /\ InCall(r) /\ CallAt(r, "lookup") /\ BackedCall(r)
  <2>1. ReviewTypes /\ CallAt(r, "lookup") BY DEF ReviewInv, LookUp
  <2>2. InCall(r) BY <2>1, CallFacts DEF CallAt
  <2>3. QED BY <2>1, <2>2 DEF ReviewInv
<1>1. UNCHANGED <<queued, resolvedTo, mappings, audit, callsMet>> BY DEF LookUp
<1>2. ASSUME NEW st \in {"NOT_PENDING", "TENANT_MISMATCH", "SOURCE_MISMATCH"}, Answered(r, st),
             st = "SOURCE_MISMATCH" => call[r].ours
      PROVE  ReviewInv'
  <2>1. GoesOn(r, "audit", st, call[r].sku) BY <1>0, <1>2, CallGoesOn DEF CallSteps, ReviewStatuses, Answered
  <2>2. AloneCall(r)' BY <1>2, <2>1 DEF GoesOn, AloneCall, CallAt
  <2>3. QED BY <1>0, <1>1, <1>2, <2>1, <2>2, GoingOnKeepsReview DEF CallAt
<1>3. ASSUME call[r].source \in queued, call[r].ours, CallTo(r, [call[r] EXCEPT !.at = "decide"])
      PROVE  ReviewInv'
  <2>1. GoesOn(r, "decide", call[r].status, call[r].sku) BY <1>0, <1>3, CallGoesOn DEF CallSteps
  <2>2. AloneCall(r)' BY <1>1, <1>3, <2>1 DEF GoesOn, AloneCall, CallAt
  <2>3. QED BY <1>0, <1>1, <1>3, <2>1, <2>2, GoingOnKeepsReview DEF CallAt
<1>4. CASE call[r].source \notin queued BY <1>2, <1>4 DEF LookUp
<1>5. CASE call[r].source \in queued /\ ~call[r].ours BY <1>2, <1>5 DEF LookUp
<1>6. CASE call[r].source \in queued /\ call[r].ours /\ call[r].line = "other" BY <1>2, <1>6 DEF LookUp
<1>7. CASE call[r].source \in queued /\ call[r].ours /\ call[r].line # "other" BY <1>3, <1>7 DEF LookUp
<1>8. QED BY <1>4, <1>5, <1>6, <1>7

\* decides,
LEMMA DecideKeepsReview == ASSUME ReviewInv, NEW r \in Reviewers, Decide(r) PROVE ReviewInv'
<1>0. ReviewTypes /\ InCall(r) /\ CallAt(r, "decide") /\ BackedCall(r)
  <2>1. ReviewTypes /\ CallAt(r, "decide") BY DEF ReviewInv, Decide
  <2>2. InCall(r) BY <2>1, CallFacts DEF CallAt
  <2>3. QED BY <2>1, <2>2 DEF ReviewInv
<1>1. UNCHANGED <<queued, resolvedTo, mappings, audit, callsMet>> BY DEF Decide
<1>2. PICK v : v = MappingVerdict(mappings, call[r].line) OBVIOUS
<1>3. call[r].ours /\ InForce \subseteq call[r].held BY <1>0 DEF BackedCall, CallAt
<1>4. CASE v = "REPROCESSED"
  <2>1. PICK sku : sku = Latest(mappings).sku OBVIOUS
  <2>2. sku \in InForce BY <1>0, <1>2, <1>4, <2>1, DecidedIsInForce
  <2>3. sku \in AnySku BY <2>2 DEF InForce, AnySku
  <2>4. CallTo(r, [call[r] EXCEPT !.at = "take", !.sku = sku]) BY <1>2, <1>4, <2>1 DEF Decide
  <2>5. GoesOn(r, "take", call[r].status, sku) BY <1>0, <2>3, <2>4, CallGoesOn DEF CallSteps
  <2>6. ~callsMet => AloneCall(r)
    BY <1>0 DEF ReviewInv, OneCall
  <2>7. ~callsMet => AloneCall(r)' BY <1>0, <1>1, <2>5, <2>6 DEF GoesOn, AloneCall, CallAt
  <2>8. QED BY <1>0, <1>1, <1>3, <2>2, <2>5, <2>7, GoingOnKeepsReview DEF CallAt
<1>5. CASE v # "REPROCESSED"
  <2>1. v \in ReviewStatuses /\ v # "REPROCESS_EXCEPTION" BY <1>2, VerdictIsNoException DEF ReviewStatuses
  <2>2. Answered(r, v) BY <1>2, <1>5 DEF Decide
  <2>3. GoesOn(r, "audit", v, call[r].sku) BY <1>0, <2>1, <2>2, CallGoesOn DEF CallSteps, ReviewStatuses, Answered
  <2>4. AloneCall(r)' BY <1>5, <2>1, <2>3 DEF GoesOn, AloneCall, CallAt
  <2>5. QED BY <1>0, <1>1, <1>3, <1>5, <2>3, <2>4, GoingOnKeepsReview DEF CallAt
<1>6. QED BY <1>4, <1>5

\* takes the item,
LEMMA TakeKeepsReview == ASSUME ReviewInv, NEW r \in Reviewers, Take(r) PROVE ReviewInv'
<1>0. ReviewTypes /\ InCall(r) /\ CallAt(r, "take") /\ BackedCall(r)
  <2>1. ReviewTypes /\ CallAt(r, "take") BY DEF ReviewInv, Take
  <2>2. InCall(r) BY <2>1, CallFacts DEF CallAt
  <2>3. QED BY <2>1, <2>2 DEF ReviewInv
<1>1. UNCHANGED <<queued, resolvedTo, mappings, audit, callsMet>> BY DEF Take
<1>2. call[r].ours /\ call[r].sku \in call[r].held BY <1>0 DEF BackedCall, CallAt
<1>3. ~callsMet => call[r].source \in queued BY <1>0 DEF ReviewInv, OneCall, AloneCall, CallAt
<1>4. CASE call[r].source \in queued
  <2>1. GoesOn(r, "delete", call[r].status, call[r].sku) BY <1>0, <1>4, CallGoesOn DEF CallSteps, Take
  <2>2. AloneCall(r)' BY <1>1, <1>4, <2>1 DEF GoesOn, AloneCall, CallAt
  <2>3. QED BY <1>0, <1>1, <1>2, <2>1, <2>2, GoingOnKeepsReview DEF CallAt
<1>5. CASE call[r].source \notin queued
  <2>1. PICK st \in {"REPROCESSED", "REPROCESS_EXCEPTION"} : Answered(r, st) BY <1>5 DEF Take
  <2>2. GoesOn(r, "audit", st, call[r].sku) BY <1>0, <2>1, CallGoesOn DEF CallSteps, ReviewStatuses, Answered
  <2>3. QED BY <1>0, <1>1, <1>2, <1>3, <1>5, <2>2, GoingOnKeepsReview DEF CallAt
<1>6. QED BY <1>4, <1>5

\* removes it,
LEMMA DeleteKeepsReview == ASSUME ReviewInv, NEW r \in Reviewers, Delete(r) PROVE ReviewInv'
<1>0. ReviewTypes /\ InCall(r) /\ CallAt(r, "delete") /\ BackedCall(r)
  <2>1. ReviewTypes /\ CallAt(r, "delete") BY DEF ReviewInv, Delete
  <2>2. InCall(r) BY <2>1, CallFacts DEF CallAt
  <2>3. QED BY <2>1, <2>2 DEF ReviewInv
<1>1. UNCHANGED <<resolvedTo, mappings, audit, callsMet>> BY DEF Delete
<1>2. call[r].ours /\ call[r].sku \in call[r].held BY <1>0 DEF BackedCall, CallAt
<1>3. ~callsMet => call[r].source \in queued /\ resolvedTo[call[r].source] = NoSku
  BY <1>0 DEF ReviewInv, OneCall, AloneCall, AloneItems, CallAt
<1>4. CASE call[r].source \in queued
  <2>1. queued' = queued \ {call[r].source} BY <1>4 DEF Delete
  <2>2. GoesOn(r, "store", call[r].status, call[r].sku) BY <1>0, <1>4, CallGoesOn DEF CallSteps, Delete
  <2>3. ~callsMet => AloneCall(r)' BY <1>1, <1>3, <2>1, <2>2 DEF GoesOn, AloneCall, CallAt
  <2>4. QED BY <1>0, <1>1, <1>2, <2>1, <2>2, <2>3, GoingOnKeepsReview DEF CallAt
<1>5. CASE call[r].source \notin queued
  <2>1. Answered(r, "REPROCESS_EXCEPTION") /\ queued' = queued BY <1>5 DEF Delete
  <2>2. GoesOn(r, "audit", "REPROCESS_EXCEPTION", call[r].sku) BY <1>0, <2>1, CallGoesOn DEF CallSteps, ReviewStatuses, Answered
  <2>3. QED BY <1>0, <1>1, <1>2, <1>3, <1>5, <2>1, <2>2, GoingOnKeepsReview DEF CallAt
<1>6. QED BY <1>4, <1>5

\* stores the sale
LEMMA StoreKeepsReview == ASSUME ReviewInv, NEW r \in Reviewers, Store(r) PROVE ReviewInv'
<1>0. ReviewTypes /\ InCall(r) /\ CallAt(r, "store") /\ BackedCall(r)
  <2>1. ReviewTypes /\ CallAt(r, "store") BY DEF ReviewInv, Store
  <2>2. InCall(r) BY <2>1, CallFacts DEF CallAt
  <2>3. QED BY <2>1, <2>2 DEF ReviewInv
<1>1. UNCHANGED <<queued, mappings, audit, callsMet>> BY DEF Store
<1>2. PICK z, u : z = call[r].source /\ u = call[r].sku OBVIOUS
<1>3. z \in Sources /\ u \in AnySku \union {NoSku} BY <1>0, <1>2, CallFacts
<1>4. resolvedTo' = [resolvedTo EXCEPT ![z] = u] /\ resolvedTo' \in [Sources -> AnySku \union {NoSku}]
  BY <1>0, <1>2, <1>3 DEF Store, ReviewTypes
<1>5. resolvedTo'[z] = u /\ \A s \in Sources \ {z} : resolvedTo'[s] = resolvedTo[s]
  BY <1>0, <1>3, <1>4 DEF ReviewTypes
<1>6. GoesOn(r, "audit", "REPROCESSED", call[r].sku)
  <2>1. CallTo(r, [call[r] EXCEPT !.at = "audit", !.status = "REPROCESSED"]) BY DEF Store, Answered
  <2>2. QED BY <1>0, <2>1, CallGoesOn DEF CallSteps, ReviewStatuses
<1>7. BackedCall(r)'
  <2>1. call[r].ours /\ call[r].sku \in call[r].held /\ InForce \subseteq call[r].held
    BY <1>0 DEF BackedCall, CallAt
  <2>2. InForce' = InForce BY <1>1 DEF InForce
  <2>3. QED BY <1>6, <2>1, <2>2 DEF GoesOn, BackedCall, CallAt
<1>8. BackedAudit' BY <1>1 DEF ReviewInv, BackedAudit
<1>9. BackedResolutions'
  <2> SUFFICES ASSUME NEW s \in Sources, resolvedTo'[s] # NoSku
               PROVE  Recorded(s)' \/ \E q \in Reviewers : Recording(s, q)'
    BY DEF BackedResolutions
  <2>1. CASE s = z
    <3>1. Recording(s, r)' BY <1>2, <1>5, <1>6, <2>1 DEF Recording, CallAt, GoesOn
    <3>2. QED BY <3>1
  <2>2. CASE s # z
    <3>1. resolvedTo'[s] = resolvedTo[s] BY <1>5, <2>2
    <3>2. CASE Recorded(s) BY <1>1, <3>1, <3>2 DEF Recorded
    <3>3. CASE \E q \in Reviewers : Recording(s, q)
      <4>1. PICK q \in Reviewers : Recording(s, q) BY <3>3
      <4>2. q # r BY <1>0, <4>1 DEF Recording, CallAt
      <4>3. Recording(s, q)' BY <1>6, <3>1, <4>1, <4>2 DEF Recording, CallAt, GoesOn, OthersRest
      <4>4. QED BY <4>3
    <3>4. QED BY <3>1, <3>2, <3>3 DEF ReviewInv, BackedResolutions
  <2>3. QED BY <2>1, <2>2
<1>10. AloneCall(r)' BY <1>2, <1>5, <1>6 DEF GoesOn, AloneCall, CallAt
<1>11. ASSUME ~callsMet PROVE AloneItems'
  <2>1. z \notin queued /\ resolvedTo[z] = NoSku BY <1>0, <1>2, <1>11 DEF ReviewInv, OneCall, AloneCall, CallAt
  <2>2. AloneItems /\ queued \subseteq Sources BY <1>0, <1>11 DEF ReviewInv, ReviewTypes
  <2>3. ASSUME NEW s \in queued PROVE resolvedTo'[s] = NoSku BY <1>5, <2>1, <2>2, <2>3 DEF AloneItems
  <2>4. ASSUME NEW e \in audit, e.status = "REPROCESSED" PROVE resolvedTo'[e.source] = e.event
    <3>1. e.event # NoSku /\ resolvedTo[e.source] = e.event BY <2>2, <2>4 DEF AloneItems, ReviewInv, BackedAudit
    <3>2. e.source # z BY <2>1, <3>1
    <3>3. QED BY <1>4, <3>1, <3>2
  <2>5. QED BY <1>1, <2>2, <2>3, <2>4 DEF AloneItems
<1>12. QED BY <1>0, <1>1, <1>4, <1>6, <1>7, <1>8, <1>9, <1>10, <1>11, OwnStepSuffices DEF GoesOn, ReviewTypes

\* and records the decision.
LEMMA AuditKeepsReview == ASSUME ReviewInv, NEW r \in Reviewers, Audit(r) PROVE ReviewInv'
<1>0. ReviewTypes /\ InCall(r) /\ CallAt(r, "audit") /\ BackedCall(r)
  <2>1. ReviewTypes /\ CallAt(r, "audit") BY DEF ReviewInv, Audit
  <2>2. InCall(r) BY <2>1, CallFacts DEF CallAt
  <2>3. QED BY <2>1, <2>2 DEF ReviewInv
<1>1. UNCHANGED <<queued, resolvedTo, mappings, callsMet>> BY DEF Audit
<1>2. EndsCall(r) BY <1>0, CallEnds DEF Audit
<1>3. PICK e : e = [source |-> call[r].source, ours |-> call[r].ours, status |-> call[r].status,
                    names |-> IF call[r].ours THEN resolvedTo[call[r].source] ELSE NoSku,
                    event |-> call[r].sku, held |-> call[r].held]
  OBVIOUS
<1>4. audit' = audit \union {e} BY <1>3 DEF Audit
<1>5. /\ e.source = call[r].source /\ e.ours = call[r].ours /\ e.status = call[r].status
      /\ e.event = call[r].sku /\ e.held = call[r].held
      /\ e.ours => e.names = resolvedTo[e.source]
      /\ ~e.ours => e.names = NoSku
  BY <1>3
<1>6. /\ call[r].status = "REPROCESSED" => call[r].sku \in call[r].held
      /\ ~call[r].ours => call[r].status \in {"NOT_PENDING", "TENANT_MISMATCH"}
      /\ call[r].held \subseteq AnySku
  BY <1>0, CallFacts DEF BackedCall
<1>7. BackedAudit'
  <2>1. NoSku \notin AnySku BY ReviewAssumption DEF AnySku
  <2>2. /\ e.status = "REPROCESSED" => e.event \in e.held /\ e.event # NoSku
        /\ ~e.ours => e.names = NoSku /\ e.status \in {"NOT_PENDING", "TENANT_MISMATCH"}
    BY <1>5, <1>6, <2>1
  <2>3. BackedAudit BY DEF ReviewInv
  <2>4. QED BY <1>4, <2>2, <2>3 DEF BackedAudit
<1>8. BackedResolutions'
  <2> SUFFICES ASSUME NEW s \in Sources, resolvedTo[s] # NoSku
               PROVE  Recorded(s)' \/ \E q \in Reviewers : Recording(s, q)'
    BY <1>1 DEF BackedResolutions
  <2>1. CASE Recorded(s) BY <1>1, <1>4, <2>1 DEF Recorded
  <2>2. CASE \E q \in Reviewers : Recording(s, q)
    <3>1. PICK q \in Reviewers : Recording(s, q) BY <2>2
    <3>2. CASE q = r
      <4>1. e.source = s /\ e.status = "REPROCESSED" /\ e.event = resolvedTo[s] BY <1>5, <3>1, <3>2 DEF Recording
      <4>2. QED BY <1>1, <1>4, <4>1 DEF Recorded
    <3>3. CASE q # r
      <4>1. Recording(s, q)' BY <1>1, <1>2, <3>1, <3>3 DEF Recording, CallAt, EndsCall, OthersRest
      <4>2. QED BY <4>1
    <3>4. QED BY <3>2, <3>3
  <2>3. QED BY <2>1, <2>2 DEF ReviewInv, BackedResolutions
<1>9. ASSUME ~callsMet PROVE AloneItems'
  <2>1. /\ call[r].status # "REPROCESS_EXCEPTION"
        /\ call[r].status = "REPROCESSED" => resolvedTo[call[r].source] = call[r].sku
    BY <1>0, <1>9 DEF ReviewInv, OneCall, AloneCall
  <2>2. e.status # "REPROCESS_EXCEPTION" BY <1>5, <2>1
  <2>3. ASSUME e.status = "REPROCESSED" PROVE e.names = e.event /\ resolvedTo[e.source] = e.event
    BY <1>5, <1>6, <2>1, <2>3
  <2>4. AloneItems BY <1>9 DEF ReviewInv
  <2>5. QED BY <1>1, <1>4, <2>2, <2>3, <2>4 DEF AloneItems
<1>10. queued' \subseteq Sources /\ resolvedTo' \in [Sources -> AnySku \union {NoSku}] BY <1>0, <1>1 DEF ReviewTypes
<1>11. QED BY <1>0, <1>1, <1>2, <1>7, <1>8, <1>9, <1>10, OwnStepSuffices DEF EndsCall

\* A call begins.
LEMMA StartKeepsReview ==
  ASSUME ReviewInv, NEW r \in Reviewers, NEW at \in {"look", "lookup"}, NEW s \in Sources,
         NEW ours \in BOOLEAN, NEW line \in SaleLines, at = "look" => ours, StartCall(r, at, s, ours, line)
  PROVE  ReviewInv'
<1>0. ReviewTypes BY DEF ReviewInv
<1>1. /\ ~InCall(r) /\ UNCHANGED <<queued, resolvedTo, mappings, audit>>
      /\ callsMet' = (callsMet \/ \E q \in Reviewers : InCall(q))
  BY DEF StartCall
<1>2. PICK v : v = [at |-> at, source |-> s, ours |-> ours, line |-> line,
                    status |-> "REPROCESS_EXCEPTION", sku |-> NoSku, held |-> InForce]
  OBVIOUS
<1>3. call' = [call EXCEPT ![r] = v] BY <1>2 DEF StartCall, CallTo
<1>4. v \in Calls
  <2>1. InForce \subseteq AnySku BY DEF InForce, AnySku
  <2>2. "REPROCESS_EXCEPTION" \in ReviewStatuses BY DEF ReviewStatuses
  <2>3. QED BY <1>2, <2>1, <2>2 DEF Calls
<1>5. v.at = at /\ v.ours = ours /\ v.held = InForce BY <1>2
<1>6. /\ call' \in [Reviewers -> Calls \union {NoCall}] /\ call'[r] = v
      /\ \A q \in Reviewers \ {r} : call'[q] = call[q]
  BY <1>0, <1>3, <1>4 DEF ReviewTypes
<1>7. ReviewTypes' BY <1>0, <1>1, <1>6 DEF ReviewTypes
<1>8. InForce' = InForce BY <1>1 DEF InForce
<1>9. ASSUME NEW q \in Reviewers, InCall(q)' PROVE BackedCall(q)'
  <2>1. CASE q = r BY <1>5, <1>6, <1>8, <2>1 DEF BackedCall, CallAt
  <2>2. CASE q # r BY <1>6, <1>8, <1>9, <2>2 DEF ReviewInv, BackedCall, InCall, CallAt
  <2>3. QED BY <2>1, <2>2
<1>10. BackedAudit' /\ BackedResolutions'
  <2>1. BackedAudit' BY <1>1 DEF ReviewInv, BackedAudit
  <2>2. ASSUME NEW z \in Sources, resolvedTo[z] # NoSku PROVE Recorded(z)' \/ \E q \in Reviewers : Recording(z, q)'
    <3>1. CASE Recorded(z) BY <1>1, <3>1 DEF Recorded
    <3>2. CASE \E q \in Reviewers : Recording(z, q)
      <4>1. PICK q \in Reviewers : Recording(z, q) BY <3>2
      <4>2. q # r BY <1>1, <4>1, CallFacts, <1>0 DEF Recording, CallAt, InCall
      <4>3. Recording(z, q)' BY <1>1, <1>6, <4>1, <4>2 DEF Recording, CallAt
      <4>4. QED BY <4>3
    <3>3. QED BY <2>2, <3>1, <3>2 DEF ReviewInv, BackedResolutions
  <2>3. QED BY <1>1, <2>1, <2>2 DEF BackedResolutions
<1>11. ASSUME ~callsMet' PROVE OneCall' /\ AloneItems'
  <2>1. ~callsMet /\ \A q \in Reviewers : ~InCall(q) BY <1>0, <1>1, <1>11 DEF ReviewTypes
  <2>2. \A q \in Reviewers : InCall(q)' => q = r BY <1>6, <2>1 DEF InCall
  <2>3. AloneCall(r)' BY <1>5, <1>6 DEF AloneCall, CallAt
  <2>4. AloneItems' BY <1>1, <2>1 DEF ReviewInv, AloneItems
  <2>5. OneCall' BY <2>2, <2>3 DEF OneCall
  <2>6. QED BY <2>4, <2>5
<1>12. (~callsMet => OneCall /\ AloneItems)' BY <1>11
<1>13. (\A q \in Reviewers : InCall(q) => BackedCall(q))' BY <1>9
<1>14. QED BY <1>7, <1>10, <1>12, <1>13 DEF ReviewInv

\* A new version is in force from now on, and every call under way knows it.
LEMMA VersionKeepsReview == ASSUME ReviewInv, AddVersion PROVE ReviewInv'
<1>0. ReviewTypes BY DEF ReviewInv
<1>1. UNCHANGED <<queued, resolvedTo, audit, callsMet>> BY DEF AddVersion
<1>2. mappings' \in Seq(MappingRows) BY <1>0 DEF AddVersion, ReviewTypes
<1>3. PICK now : now = InForce' OBVIOUS
<1>4. now \subseteq AnySku BY <1>3 DEF InForce, AnySku
<1>5. call' = [r \in Reviewers |-> IF InCall(r) THEN [call[r] EXCEPT !.held = @ \union now] ELSE NoCall]
  BY <1>3 DEF AddVersion
<1>6. ASSUME NEW c \in Calls
      PROVE  LET v == [c EXCEPT !.held = @ \union now] IN
             /\ v \in Calls /\ v.at = c.at /\ v.source = c.source /\ v.ours = c.ours /\ v.status = c.status
             /\ v.sku = c.sku /\ v.held = c.held \union now /\ v # NoCall
  <2>1. PICK v : v = [c EXCEPT !.held = @ \union now] OBVIOUS
  <2>2. /\ v \in Calls /\ v.at = c.at /\ v.source = c.source /\ v.ours = c.ours /\ v.status = c.status
        /\ v.sku = c.sku /\ v.held = c.held \union now
    BY <1>4, <2>1 DEF Calls
  <2>3. NoCall.at = "idle" BY DEF NoCall
  <2>4. v.at # "idle" BY <2>2 DEF Calls
  <2>5. QED BY <2>1, <2>2, <2>3, <2>4
<1>7. ASSUME NEW r \in Reviewers
      PROVE  IF InCall(r)
             THEN /\ call'[r] \in Calls /\ call'[r] # NoCall
                  /\ call'[r].at = call[r].at /\ call'[r].source = call[r].source /\ call'[r].ours = call[r].ours
                  /\ call'[r].status = call[r].status /\ call'[r].sku = call[r].sku
                  /\ call'[r].held = call[r].held \union now
             ELSE call'[r] = NoCall
  <2>1. CASE InCall(r)
    <3>1. call[r] \in Calls BY <1>0, <2>1, CallFacts
    <3>2. call'[r] = [call[r] EXCEPT !.held = @ \union now] BY <1>5, <2>1
    <3>3. PICK c : c = call[r] OBVIOUS
    <3>4. c \in Calls /\ call'[r] = [c EXCEPT !.held = @ \union now] BY <3>1, <3>2, <3>3
    <3>5. QED BY <1>6, <2>1, <3>3, <3>4
  <2>2. CASE ~InCall(r) BY <1>5, <2>2
  <2>3. QED BY <2>1, <2>2
<1>8. ReviewTypes' BY <1>0, <1>1, <1>2, <1>5, <1>7 DEF ReviewTypes
<1>9. ASSUME NEW r \in Reviewers, InCall(r)' PROVE InCall(r) /\ BackedCall(r)'
  <2>1. InCall(r) BY <1>7, <1>9 DEF InCall
  <2>2. BackedCall(r) BY <2>1 DEF ReviewInv
  <2>3. QED BY <1>3, <1>7, <2>1, <2>2 DEF BackedCall, CallAt
<1>10. BackedAudit' BY <1>1 DEF ReviewInv, BackedAudit
<1>11. BackedResolutions'
  <2>1. ASSUME NEW z \in Sources, resolvedTo[z] # NoSku PROVE Recorded(z)' \/ \E q \in Reviewers : Recording(z, q)'
    <3>1. CASE Recorded(z) BY <1>1, <3>1 DEF Recorded
    <3>2. CASE \E q \in Reviewers : Recording(z, q)
      <4>1. PICK q \in Reviewers : Recording(z, q) BY <3>2
      <4>2. InCall(q) BY <1>0, <4>1, CallFacts DEF Recording, CallAt
      <4>3. Recording(z, q)' BY <1>1, <1>7, <4>1, <4>2 DEF Recording, CallAt
      <4>4. QED BY <4>3
    <3>3. QED BY <2>1, <3>1, <3>2 DEF ReviewInv, BackedResolutions
  <2>2. QED BY <1>1, <2>1 DEF BackedResolutions
<1>12. ASSUME ~callsMet PROVE OneCall' /\ AloneItems'
  <2>1. \A p, q \in Reviewers : InCall(p)' /\ InCall(q)' => p = q BY <1>9, <1>12 DEF ReviewInv, OneCall
  <2>2. ASSUME NEW q \in Reviewers, InCall(q)' PROVE AloneCall(q)'
    <3>1. InCall(q) /\ AloneCall(q) BY <1>9, <1>12, <2>2 DEF ReviewInv, OneCall
    <3>2. QED BY <1>1, <1>7, <3>1 DEF AloneCall, CallAt
  <2>3. AloneItems' BY <1>1, <1>12 DEF ReviewInv, AloneItems
  <2>4. OneCall' BY <2>1, <2>2 DEF OneCall
  <2>5. QED BY <2>3, <2>4
<1>13. (~callsMet => OneCall /\ AloneItems)'
  <2>1. callsMet' = callsMet BY <1>1
  <2>2. QED BY <1>12, <2>1
<1>14. (\A q \in Reviewers : InCall(q) => BackedCall(q))' BY <1>9
<1>15. QED BY <1>8, <1>10, <1>11, <1>13, <1>14 DEF ReviewInv

\* The inductive invariant of MappingReview holds in every reachable state.
LEMMA ReviewInvariance == ReviewSpec => []ReviewInv
<1>1. ReviewInit => ReviewInv
  <2> SUFFICES ASSUME ReviewInit PROVE ReviewInv OBVIOUS
  <2>1. ReviewTypes
    <3>1. call \in [Reviewers -> Calls \union {NoCall}] BY DEF ReviewInit
    <3>2. resolvedTo \in [Sources -> AnySku \union {NoSku}] BY DEF ReviewInit
    <3>3. mappings \in Seq(MappingRows) BY DEF ReviewInit
    <3>4. queued \subseteq Sources /\ callsMet \in BOOLEAN BY DEF ReviewInit
    <3>5. QED BY <3>1, <3>2, <3>3, <3>4 DEF ReviewTypes
  <2>2. \A r \in Reviewers : ~InCall(r) BY DEF ReviewInit, InCall
  <2>3. BackedAudit /\ AloneItems BY DEF ReviewInit, BackedAudit, AloneItems
  <2>4. BackedResolutions BY DEF ReviewInit, BackedResolutions
  <2>5. OneCall BY <2>2 DEF OneCall
  <2>6. QED BY <2>1, <2>2, <2>3, <2>4, <2>5 DEF ReviewInv
<1>2. ReviewInv /\ [ReviewNext]_reviewVars => ReviewInv'
  <2> SUFFICES ASSUME ReviewInv, [ReviewNext]_reviewVars PROVE ReviewInv' OBVIOUS
  <2>1. CASE AddVersion BY <2>1, VersionKeepsReview
  <2>2. ASSUME NEW r \in Reviewers, ReviewStep(r) PROVE ReviewInv'
    <3>1. CASE \E s \in Sources : StartCall(r, "look", s, TRUE, "whole")
      BY <3>1, StartKeepsReview DEF SaleLines
    <3>2. CASE \E s \in Sources, line \in SaleLines : StartCall(r, "lookup", s, TRUE, line)
      BY <3>2, StartKeepsReview
    <3>3. CASE \E s \in Sources : StartCall(r, "lookup", s, FALSE, "whole")
      BY <3>3, StartKeepsReview DEF SaleLines
    <3>4. CASE Look(r) BY <3>4, LookKeepsReview
    <3>5. CASE Put(r) BY <3>5, PutKeepsReview
    <3>6. CASE LookUp(r) BY <3>6, LookUpKeepsReview
    <3>7. CASE Decide(r) BY <3>7, DecideKeepsReview
    <3>8. CASE Take(r) BY <3>8, TakeKeepsReview
    <3>9. CASE Delete(r) BY <3>9, DeleteKeepsReview
    <3>10. CASE Store(r) BY <3>10, StoreKeepsReview
    <3>11. CASE Audit(r) BY <3>11, AuditKeepsReview
    <3>12. QED BY <2>2, <3>1, <3>2, <3>3, <3>4, <3>5, <3>6, <3>7, <3>8, <3>9, <3>10, <3>11 DEF ReviewStep
  <2>3. CASE UNCHANGED reviewVars
    <3>1. UNCHANGED <<queued, resolvedTo, mappings, call, audit, callsMet>> BY <2>3 DEF reviewVars
    <3>2. ReviewTypes' BY <3>1 DEF ReviewInv, ReviewTypes
    <3>3. InForce' = InForce BY <3>1 DEF InForce
    <3>4. (\A r \in Reviewers : InCall(r) => BackedCall(r))'
      BY <3>1, <3>3 DEF ReviewInv, BackedCall, InCall, CallAt
    <3>5. BackedAudit' /\ BackedResolutions'
      BY <3>1 DEF ReviewInv, BackedAudit, BackedResolutions, Recorded, Recording, CallAt
    <3>6. (~callsMet => OneCall /\ AloneItems)'
      BY <3>1 DEF ReviewInv, OneCall, AloneCall, AloneItems, InCall, CallAt
    <3>7. QED BY <3>2, <3>4, <3>5, <3>6 DEF ReviewInv
  <2>4. QED BY <2>1, <2>2, <2>3 DEF ReviewNext
<1>3. QED BY <1>1, <1>2, PTL DEF ReviewSpec

\* A sale is mapped only to the SKU that was in force at some moment of the call,
\* whatever versions are added and whoever reprocesses the item meanwhile, and
\* what stays on record as its resolution is one of these; a call that met no
\* other one finds the item as it left it and is recorded with its own SKU.
THEOREM ReviewsAreApproved == ReviewSpec => []ReviewIsApproved
<1>1. ReviewInv => ReviewIsApproved
  BY DEF ReviewInv, BackedAudit, BackedResolutions, Recorded, Recording, AloneItems, ReviewIsApproved
<1>2. QED BY <1>1, ReviewInvariance, PTL

-----------------------------------------------------------------------------
(* ReadBootstrap: the tokens that reads use                                *)

\* What a call has in memory once it was called: the step, and the token it read.
HasToken(v) == {"pc", "token"} \subseteq DOMAIN v

GrantInv ==
  /\ grants \in Seq({ReadScopes})
  /\ {"token", "meta"} \subseteq DOMAIN held /\ held.token \in 0 .. Len(grants)
  /\ DOMAIN reader = Readers
  /\ \A r \in Readers : ~ReaderAt(r, "idle") =>
       /\ HasToken(reader[r]) /\ reader[r].token \in 0 .. Len(grants)
       /\ ~ReaderAt(r, "gate") => reader[r].token # 0

\* What a step does to a call: it ends, it begins with the token that is held, it
\* passes the gate with a token, or it goes on with the one it has.
Ends(v)       == v.pc = "idle"
Begins(v)     == v.pc = "gate" /\ HasToken(v) /\ v.token = held.token
GetsOn(r, v)  == /\ reader[r].pc # "idle" /\ HasToken(v) /\ v.token = reader[r].token
                 /\ v.pc \notin {"idle", "gate"} /\ (reader[r].pc = "gate" => v.token # 0)
CallMoves(r)  == \E v : Becomes(r, v) /\ (Ends(v) \/ Begins(v) \/ GetsOn(r, v))

\* The next stage of a run is read with the same token.
LEMMA ToStageKeepsToken ==
  ASSUME NEW run, NEW n, HasToken(run)
  PROVE  LET v == ToStage(run, n) IN HasToken(v) /\ v.token = run.token /\ v.pc = run.pc
<1> DEFINE stages == Endpoint(run.call).stages
           ready  == {j \in n .. Len(stages) : Parents(run.call, stages[j], run.pages) # <<>>}
           j      == CHOOSE x \in ready : \A y \in ready : x <= y
           ended  == [run EXCEPT !.stage = Len(stages) + 1, !.left = <<>>]
           next   == [run EXCEPT !.stage = j, !.left = Parents(run.call, stages[j], run.pages),
                        !.offset = IF j = 1 THEN Endpoint(run.call).from ELSE 0, !.nr = 0, !.tries = 0]
<1>1. ToStage(run, n) = IF ready = {} THEN ended ELSE next BY DEF ToStage
<1> HIDE DEF stages, ready, j
<1>2. HasToken(ended) /\ ended.token = run.token /\ ended.pc = run.pc BY DEF HasToken
<1>3. HasToken(next) /\ next.token = run.token /\ next.pc = run.pc BY DEF HasToken
<1> HIDE DEF ended, next
<1>4. QED BY <1>1, <1>2, <1>3

\* A call that leaves ends.
LEMMA LeaveEndsCall == ASSUME NEW r, Leave(r) PROVE CallMoves(r)
<1>1. NotServing.pc = "idle" BY DEF NotServing
<1>2. Ends(NotServing) /\ Becomes(r, NotServing) BY <1>1 DEF Leave, Becomes, Ends
<1>3. QED BY <1>2 DEF CallMoves

\* A call that passes the gate runs with the token that it read.
LEMMA GateKeepsToken ==
  ASSUME GrantInv, NEW r \in Readers, NEW at, Gate(r, at)
  PROVE  CallMoves(r)
<1>1. CASE Leave(r) BY <1>1, LeaveEndsCall
<1>2. CASE Passes(r) /\ Becomes(r, StartRun(r, at))
  <2> DEFINE pc    == CASE Of(r).keep = "batch" -> "check" [] Of(r).keep = "runner" -> "runner" [] OTHER -> "read"
             begun == [pc |-> pc,
                       call |-> reader[r].call, token |-> reader[r].token, scopes |-> grants[held.meta],
                       at |-> at, since |-> arrivals, by |-> reader[r].by, sent |-> 0, pages |-> <<>>,
                       stage |-> 1, left |-> <<>>, offset |-> 0, nr |-> 0, tries |-> 0, exported |-> 0]
  <2>1. StartRun(r, at) = ToStage(begun, 1) BY DEF StartRun
  <2>2. pc \in {"check", "runner", "read"} OBVIOUS
  <2> HIDE DEF pc
  <2>3. HasToken(begun) /\ begun.token = reader[r].token /\ begun.pc = pc BY DEF HasToken
  <2> HIDE DEF begun
  <2>4. LET v == ToStage(begun, 1) IN HasToken(v) /\ v.token = begun.token /\ v.pc = begun.pc
    BY <2>3, ToStageKeepsToken
  <2>5. reader[r].token # 0 /\ reader[r].pc = "gate" BY <1>2 DEF Passes, Gate, ReaderAt
  <2>6. GetsOn(r, StartRun(r, at)) BY <2>1, <2>2, <2>3, <2>4, <2>5 DEF GetsOn
  <2>7. QED BY <1>2, <2>6 DEF CallMoves
<1>3. QED BY <1>1, <1>2 DEF Gate

\* A call that goes on past the gate keeps its token, whichever fields it sets.
LEMMA PastTheGate ==
  ASSUME GrantInv, NEW r \in Readers, NEW v, reader[r].pc \notin {"idle", "gate"}, Becomes(r, v),
         HasToken(reader[r]) => HasToken(v) /\ v.token = reader[r].token /\ v.pc \notin {"idle", "gate"}
  PROVE  CallMoves(r)
<1>1. HasToken(reader[r]) BY DEF GrantInv, ReaderAt
<1>2. GetsOn(r, v) BY <1>1 DEF GetsOn
<1>3. QED BY <1>2 DEF CallMoves

\* A page is read with the token of the call.
LEMMA PageKeepsToken ==
  ASSUME GrantInv, NEW r \in Readers, ReadListPage(r)
  PROVE  CallMoves(r)
<1>1. CASE Leave(r) BY <1>1, LeaveEndsCall
<1>2. CASE ~Leave(r)
  <2>1. PICK raw, page : Becomes(r, AfterPage(r, page, [reader[r] EXCEPT !.sent = @ + 1, !.pages = Append(@, raw)]))
    BY <1>2 DEF ReadListPage
  <2> DEFINE run == [reader[r] EXCEPT !.sent = @ + 1, !.pages = Append(@, raw)]
             v   == AfterPage(r, page, run)
  <2>2. reader[r].pc = "read" BY DEF ReadListPage, Reading, ReaderAt
  <2>3. HasToken(reader[r]) BY <2>2 DEF GrantInv, ReaderAt
  <2>4. HasToken(run) /\ run.token = reader[r].token /\ run.pc = "read" BY <2>2, <2>3 DEF HasToken
  <2> HIDE DEF run
  <2>5. CASE v = [run EXCEPT !.offset = @ + PageSize, !.nr = @ + 1, !.tries = 0]
    <3>1. HasToken(v) /\ v.token = run.token /\ v.pc = run.pc BY <2>4, <2>5 DEF HasToken
    <3>2. QED BY <2>1, <2>2, <2>4, <3>1, PastTheGate DEF run
  <2>6. CASE v = [run EXCEPT !.left = Tail(@), !.offset = 0, !.nr = 0, !.tries = 0]
    <3>1. HasToken(v) /\ v.token = run.token /\ v.pc = run.pc BY <2>4, <2>6 DEF HasToken
    <3>2. QED BY <2>1, <2>2, <2>4, <3>1, PastTheGate DEF run
  <2>7. CASE v = ToStage(run, run.stage + 1)
    <3>1. HasToken(v) /\ v.token = run.token /\ v.pc = run.pc BY <2>4, <2>7, ToStageKeepsToken
    <3>2. QED BY <2>1, <2>2, <2>4, <3>1, PastTheGate DEF run
  <2>8. QED BY <2>5, <2>6, <2>7 DEF AfterPage
<1>3. QED BY <1>1, <1>2

\* No step of a call changes a grant, the token held, or the token of the call.
LEMMA CallKeepsToken ==
  ASSUME GrantInv, NEW r \in Readers, ReadStep(r)
  PROVE  (CallMoves(r) \/ reader' = reader) /\ UNCHANGED <<grants, held>>
<1>1. UNCHANGED <<grants, held>>
  BY DEF ReadStep, CallEndpoint, Gate, CheckBatch, ReserveBatch, ReadListPage, RequestFails, RunnerSends,
         RunnerTakesTransport, EndsReads, WriteExport, WriteBatchManifest, WriteFails, grantVars
<1>2. ASSUME NEW what \in ReadCalls, CallEndpoint(r, what) PROVE CallMoves(r)
  <2> DEFINE v == [pc |-> "gate", call |-> what, token |-> held.token, by |-> Len(served')]
  <2>1. Begins(v) BY DEF Begins, HasToken
  <2>2. Becomes(r, v) BY <1>2 DEF CallEndpoint
  <2>3. QED BY <2>1, <2>2 DEF CallMoves
<1>3. ASSUME NEW at \in Stamps, Gate(r, at) PROVE CallMoves(r) BY <1>3, GateKeepsToken
<1>4. ASSUME CheckBatch(r) PROVE CallMoves(r)
  <2>1. CASE Leave(r) BY <2>1, LeaveEndsCall
  <2>2. ASSUME NEW pc \in {"reserve", "read"}, Becomes(r, [reader[r] EXCEPT !.pc = pc]) PROVE CallMoves(r)
    <3>1. reader[r].pc \notin {"idle", "gate"} BY <1>4 DEF CheckBatch, ReaderAt
    <3>2. QED BY <2>2, <3>1, PastTheGate DEF HasToken
  <2>3. QED BY <1>4, <2>1, <2>2 DEF CheckBatch
<1>5. ASSUME ReserveBatch(r) PROVE CallMoves(r)
  <2>1. CASE Leave(r) BY <2>1, LeaveEndsCall
  <2>2. CASE Becomes(r, [reader[r] EXCEPT !.pc = "read"])
    <3>1. reader[r].pc \notin {"idle", "gate"} BY <1>5 DEF ReserveBatch, ReaderAt
    <3>2. QED BY <2>2, <3>1, PastTheGate DEF HasToken
  <2>3. QED BY <1>5, <2>1, <2>2 DEF ReserveBatch
<1>6. ASSUME ReadListPage(r) PROVE CallMoves(r) BY <1>6, PageKeepsToken
<1>7. ASSUME RequestFails(r) PROVE CallMoves(r)
  <2>1. CASE Leave(r) BY <2>1, LeaveEndsCall
  <2>2. CASE Becomes(r, [reader[r] EXCEPT !.sent = @ + 1, !.tries = @ + 1])
    <3>1. reader[r].pc = "read" BY <1>7 DEF RequestFails, Reading, ReaderAt
    <3>2. QED BY <2>2, <3>1, PastTheGate DEF HasToken
  <2>3. QED BY <1>7, <2>1, <2>2 DEF RequestFails
<1>8. ASSUME RunnerSends(r) PROVE CallMoves(r)
  <2>1. reader[r].pc = "runner" /\ Becomes(r, [reader[r] EXCEPT !.sent = @ + 1])
    BY <1>8 DEF RunnerSends, ReaderAt
  <2>2. QED BY <2>1, PastTheGate DEF HasToken
<1>9. ASSUME RunnerTakesTransport(r) PROVE CallMoves(r)
  <2>1. reader[r].pc = "runner" /\ Becomes(r, [reader[r] EXCEPT !.sent = 0])
    BY <1>9 DEF RunnerTakesTransport, ReaderAt
  <2>2. QED BY <2>1, PastTheGate DEF HasToken
<1>10. ASSUME EndsReads(r) \/ WriteBatchManifest(r) \/ WriteFails(r) PROVE CallMoves(r)
  BY <1>10, LeaveEndsCall DEF EndsReads, WriteBatchManifest, WriteFails
<1>11. ASSUME WriteExport(r) PROVE CallMoves(r)
  <2>1. CASE Leave(r) BY <2>1, LeaveEndsCall
  <2>2. CASE Becomes(r, [reader[r] EXCEPT !.exported = @ + 1])
    <3>1. reader[r].pc = "read" BY <1>11 DEF WriteExport, Exporting, PagesTaken, ReaderAt
    <3>2. QED BY <2>2, <3>1, PastTheGate DEF HasToken
  <2>3. QED BY <1>11, <2>1, <2>2 DEF WriteExport
<1>12. QED BY <1>1, <1>2, <1>3, <1>4, <1>5, <1>6, <1>7, <1>8, <1>9, <1>10, <1>11 DEF ReadStep

\* A call's step keeps every token within the grants.
LEMMA GrantsHoldForCalls ==
  ASSUME GrantInv, NEW r \in Readers, CallMoves(r), UNCHANGED <<grants, held>>
  PROVE  GrantInv'
<1>1. PICK v : Becomes(r, v) /\ (Ends(v) \/ Begins(v) \/ GetsOn(r, v)) BY DEF CallMoves
<1>2. DOMAIN reader' = Readers /\ reader'[r] = v /\ \A q \in Readers \ {r} : reader'[q] = reader[q]
  BY <1>1 DEF Becomes, GrantInv
<1>3. v.pc # "idle" => HasToken(v) /\ v.token \in 0 .. Len(grants) /\ (v.pc # "gate" => v.token # 0)
  <2>1. CASE Ends(v) BY <2>1 DEF Ends
  <2>2. CASE Begins(v) BY <2>2 DEF Begins, GrantInv
  <2>3. CASE GetsOn(r, v) BY <2>3 DEF GetsOn, GrantInv, ReaderAt
  <2>4. QED BY <1>1, <2>1, <2>2, <2>3
<1>4. \A q \in Readers : reader'[q].pc # "idle" =>
        /\ HasToken(reader'[q]) /\ reader'[q].token \in 0 .. Len(grants)
        /\ reader'[q].pc # "gate" => reader'[q].token # 0
  BY <1>2, <1>3 DEF GrantInv, ReaderAt
<1>5. QED BY <1>2, <1>4 DEF GrantInv, ReaderAt, HasToken

\* A grant, an expired token and a restart leave every call the token it has.
LEMMA GrantsHoldForGrants ==
  ASSUME GrantInv, GrantStep
  PROVE  GrantInv'
<1>0. reader' = reader BY DEF GrantStep
<1>1. PICK n : n = Len(grants) OBVIOUS
<1>2. ASSUME NEW scopes \in GrantScopes, TakeGrant(scopes) PROVE GrantInv'
  <2>1. grants' = Append(grants, ReadScopes) /\ held' = [held EXCEPT !.token = Len(grants')]
    BY <1>2 DEF TakeGrant
  <2>2. grants \in Seq({ReadScopes}) BY DEF GrantInv
  <2>3. n \in Nat /\ Len(grants') = n + 1 /\ grants' \in Seq({ReadScopes})
    BY <1>1, <2>1, <2>2
  <2>4. {"token", "meta"} \subseteq DOMAIN held' /\ held'.token = n + 1 BY <2>1, <2>3 DEF GrantInv
  <2>5. \A x \in 0 .. n : x \in 0 .. n + 1 BY <2>3
  <2>6. DOMAIN reader' = Readers BY <1>0 DEF GrantInv
  <2>7. \A r \in Readers : reader'[r].pc # "idle" =>
          /\ HasToken(reader'[r]) /\ reader'[r].token \in 0 .. n + 1
          /\ reader'[r].pc # "gate" => reader'[r].token # 0
    BY <1>0, <1>1, <2>5 DEF GrantInv, ReaderAt
  <2>8. n + 1 \in Nat /\ n + 1 \in 0 .. n + 1 BY <2>3
  <2>9. held'.token \in 0 .. Len(grants') BY <2>3, <2>4, <2>8
  <2>10. QED BY <2>3, <2>4, <2>6, <2>7, <2>9 DEF GrantInv, ReaderAt, HasToken
<1>3. ASSUME StoreGrantMeta \/ ForgetToken \/ ForgetMeta \/ Expires PROVE GrantInv'
  <2>1. grants' = grants
    BY <1>3 DEF StoreGrantMeta, ForgetToken, ForgetMeta, Expires
  <2>2. 0 \in 0 .. Len(grants) BY DEF GrantInv
  <2>3. {"token", "meta"} \subseteq DOMAIN held' /\ held'.token \in {held.token, 0}
    BY <1>3 DEF StoreGrantMeta, ForgetToken, ForgetMeta, Expires, GrantInv
  <2>4. QED BY <1>0, <2>1, <2>2, <2>3 DEF GrantInv, ReaderAt, HasToken
<1>4. QED BY <1>2, <1>3 DEF GrantStep

\* The invariant of ReadBootstrap's tokens holds in every reachable state.
LEMMA GrantInvariance == ReadSpec => []GrantInv
<1>1. ReadInit => GrantInv
  <2> SUFFICES ASSUME ReadInit PROVE GrantInv OBVIOUS
  <2>1. Len(grants) = 0 /\ 0 \in 0 .. 0 BY DEF ReadInit
  <2>2. held = [token |-> 0, meta |-> 0] /\ reader = [r \in Readers |-> NotServing] BY DEF ReadInit
  <2>3. {"token", "meta"} \subseteq DOMAIN held /\ held.token = 0 BY <2>2
  <2>4. \A r \in Readers : reader[r].pc = "idle" BY <2>2 DEF NotServing
  <2>5. DOMAIN reader = Readers BY <2>2
  <2>6. grants \in Seq({ReadScopes}) BY DEF ReadInit
  <2>7. QED BY <2>1, <2>3, <2>4, <2>5, <2>6 DEF GrantInv, ReaderAt
<1>2. GrantInv /\ [ReadNext]_readVars => GrantInv'
  <2> SUFFICES ASSUME GrantInv, [ReadNext]_readVars PROVE GrantInv' OBVIOUS
  <2>1. CASE GrantStep BY <2>1, GrantsHoldForGrants
  <2>2. CASE OrderArrives \/ UNCHANGED readVars
    <3>1. UNCHANGED <<grants, held, reader>> BY <2>2 DEF OrderArrives, readVars, grantVars
    <3>2. QED BY <3>1 DEF GrantInv, ReaderAt, HasToken
  <2>3. CASE ServerDies
    <3>1. /\ grants' = grants /\ held' = [token |-> 0, meta |-> 0]
          /\ reader' = [r \in Readers |-> NotServing]
      BY <2>3 DEF ServerDies
    <3>2. {"token", "meta"} \subseteq DOMAIN held' /\ held'.token = 0 /\ DOMAIN reader' = Readers BY <3>1
    <3>3. \A r \in Readers : reader'[r].pc = "idle" BY <3>1 DEF NotServing
    <3>4. 0 \in 0 .. Len(grants) BY DEF GrantInv
    <3>5. QED BY <3>1, <3>2, <3>3, <3>4 DEF GrantInv, ReaderAt
  <2>4. CASE \E r \in Readers : ReadStep(r)
    <3>1. PICK r \in Readers : ReadStep(r) BY <2>4
    <3>2. UNCHANGED <<grants, held>> /\ (CallMoves(r) \/ reader' = reader) BY <3>1, CallKeepsToken
    <3>3. CASE CallMoves(r) BY <3>2, <3>3, GrantsHoldForCalls
    <3>4. CASE reader' = reader BY <3>2, <3>4 DEF GrantInv, ReaderAt, HasToken
    <3>5. QED BY <3>2, <3>3, <3>4
  <2>5. QED BY <2>1, <2>2, <2>3, <2>4 DEF ReadNext
<1>3. QED BY <1>1, <1>2, PTL DEF ReadSpec

\* Whatever /start, /callback and expiry do between a call's reads of the token
\* and of its metadata, every request is sent with a token that was granted the
\* four read scopes and nothing else.
THEOREM ReadsUseWholeGrants == ReadSpec => []ReadsStayWithinGrant
<1>1. GrantInv => ReadsStayWithinGrant
  <2> SUFFICES ASSUME GrantInv, NEW r \in Readers, reader[r].pc \in {"read", "runner"}
               PROVE  grants[reader[r].token] = ReadScopes
    BY DEF ReadsStayWithinGrant
  <2>1. reader[r].token \in 0 .. Len(grants) /\ reader[r].token # 0 BY DEF GrantInv, ReaderAt
  <2>2. PICK n, k : n = Len(grants) /\ k = reader[r].token OBVIOUS
  <2>3. n \in Nat /\ k \in 0 .. n /\ k # 0 BY <2>1, <2>2 DEF GrantInv
  <2>4. k \in 1 .. n BY <2>3
  <2>5. QED BY <2>2, <2>4 DEF GrantInv
<1>2. QED BY <1>1, GrantInvariance, PTL

-----------------------------------------------------------------------------
(* PolicyExplanation: the inductive invariant                              *)

AskerStates  == {"idle", "waiting", "searched", "grounded", "done"}
ThreadStates == {"none", "started", "read"}

ExplanationTypes ==
  /\ seconds \in 0 .. MaxClock /\ deployment \in Deployments \union {Unset}
  /\ DOMAIN inquiry = Askers /\ DOMAIN reply = Askers
  /\ asker \in [Askers -> AskerStates] /\ thread \in [Askers -> ThreadStates]
  /\ found \in [Askers -> Reads \union {Unset}] /\ evidence \in [Askers -> Reads \union {Unset}]
  /\ calls \in [Askers -> 0 .. MaxAttempts]

Works(a) == thread[a] # "none"

\* The lock is held for exactly one thread.
LockIsHeld ==
  /\ searching <=> \E a \in Askers : Works(a)
  /\ \A a, b \in Askers : Works(a) /\ Works(b) => a = b

\* What a search found: one row of a document, of what was asked for.
ReadIsSound(a) ==
  /\ found[a] \in Reads /\ found[a].at <= seconds
  /\ \A x, y \in found[a].rows : Document(x) = Document(y) => x = y
  /\ \A row \in found[a].rows : inquiry[a].wants \in {"any", row.type}

\* What the model is given.
EvidenceIsSound(a) ==
  /\ evidence[a] \in Reads /\ found[a] \in Reads /\ found[a].at <= evidence[a].at
  /\ evidence[a].rows \subseteq found[a].rows
  /\ Supported(evidence[a].rows, inquiry[a].claim)
  /\ \A row \in evidence[a].rows : Supports(row, inquiry[a].claim) /\ ~StaleAt(row, evidence[a].at)
  /\ \A row, other \in evidence[a].rows : row.source = other.source => row = other

\* A request and its thread.  A thread outlives its request only by a time-out;
\* nothing that was answered or given to the model changes afterwards.
StageIsSound(a) ==
  /\ asker[a] # "idle" => deployment \in Deployments /\ inquiry[a] \in Inquiries
  /\ asker[a] # "done" => reply[a] = NoReply
  /\ asker[a] \in {"idle", "waiting", "searched"} => calls[a] = 0
  /\ asker[a] = "grounded" => calls[a] < MaxAttempts
  /\ Works(a) => /\ calls[a] = 0
                 /\ \/ asker[a] = "waiting"
                    \/ asker[a] = "done" /\ reply[a].reason = "TIMEOUT" /\ reply[a].status \in {"ERROR", "HOLD"}

WorkIsSound(a) ==
  /\ thread[a] = "read" \/ asker[a] = "searched" => ReadIsSound(a)
  /\ asker[a] = "grounded" \/ calls[a] > 0 \/ reply[a].status = "ANSWER" => EvidenceIsSound(a)

ReplyIsSound(a) ==
  /\ reply[a].status = "ANSWER" =>
       /\ calls[a] \in 1 .. MaxAttempts
       /\ reply[a].cites \subseteq {Document(row) : row \in evidence[a].rows}
       /\ inquiry[a].cite => reply[a].cites # {}
  /\ asker[a] # "idle" /\ inquiry[a].kind = "explain" /\ reply[a].status # "ANSWER" => reply[a].cites = {}
  /\ reply[a].status = "DRAFT_AVAILABLE" =>
       /\ reply[a].cites = {Document(row) : row \in found[a].rows} /\ reply[a].cites # {}
       /\ \A row \in found[a].rows : /\ row.type \in LiveTypes => ~StaleAt(row, found[a].at)
                                     /\ inquiry[a].wants \in {"any", row.type}

AskerIsSound(a) == StageIsSound(a) /\ WorkIsSound(a) /\ ReplyIsSound(a)

ExplanationInv ==
  /\ ExplanationTypes
  /\ LockIsHeld
  /\ \A a \in Askers : AskerIsSound(a)


-----------------------------------------------------------------------------
(* The rules                                                               *)

LEMMA RowIsFreshOrStale ==
  ASSUME NEW row, NEW t PROVE FreshnessState(row, t) \in {"STALE", "FRESH"}
BY DEF FreshnessState

\* A draft rests on rows, none of which has aged.
LEMMA DraftsAreCurrent ==
  ASSUME NEW read, NEW level, NEW cautions,
         AnswerPolicy(read, level, cautions).status = "DRAFT_AVAILABLE"
  PROVE  /\ read.rows # {} /\ cautions = {} /\ level = "HIGH"
         /\ \A row \in read.rows : row.type \in LiveTypes => ~StaleAt(row, read.at)
<1>1. read.rows # {} BY DEF AnswerPolicy
<1>2. ~ \E row \in read.rows : FreshnessState(row, read.at) = "STALE" BY <1>1 DEF AnswerPolicy
<1>3. \A row \in read.rows : FreshnessState(row, read.at) = "FRESH" BY <1>2, RowIsFreshOrStale
<1>4. cautions = {} BY <1>1, <1>2, <1>3 DEF AnswerPolicy
<1>5. level = "HIGH" BY <1>1, <1>2, <1>3, <1>4 DEF AnswerPolicy
<1>6. \A row \in read.rows : row.type \in LiveTypes => ~StaleAt(row, read.at)
  BY <1>3 DEF FreshnessState
<1> QED BY <1>1, <1>4, <1>5, <1>6

\* What the policy rules in each of its four cases.
LEMMA PolicyOfNothing ==
  ASSUME NEW read, NEW level, NEW cautions, read.rows = {}
  PROVE  AnswerPolicy(read, level, cautions)
           = [status |-> "INSUFFICIENT_EVIDENCE", review |-> FALSE, reason |-> "NO_VALID_CITATION"]
BY DEF AnswerPolicy

LEMMA PolicyOfStale ==
  ASSUME NEW read, NEW level, NEW cautions, \E row \in read.rows : FreshnessState(row, read.at) = "STALE"
  PROVE  AnswerPolicy(read, level, cautions)
           = [status |-> "HOLD", review |-> FALSE, reason |-> "STALE_EVIDENCE"]
BY DEF AnswerPolicy

LEMMA PolicyOfCautions ==
  ASSUME NEW read, NEW level, NEW cautions, cautions # {}, read.rows # {},
         ~ \E row \in read.rows : FreshnessState(row, read.at) = "STALE"
  PROVE  AnswerPolicy(read, level, cautions)
           = [status |-> IF FirstCaution(cautions) \in Held THEN "HOLD" ELSE "HUMAN_REVIEW",
              review |-> TRUE, reason |-> FirstCaution(cautions)]
<1>1. \A row \in read.rows : FreshnessState(row, read.at) = "FRESH" BY RowIsFreshOrStale
<1> QED BY <1>1 DEF AnswerPolicy

LEMMA PolicyOfFresh ==
  ASSUME NEW read, NEW level, NEW cautions, cautions = {}, read.rows # {},
         ~ \E row \in read.rows : FreshnessState(row, read.at) = "STALE"
  PROVE  AnswerPolicy(read, level, cautions)
           = IF level = "HIGH" THEN [status |-> "DRAFT_AVAILABLE", review |-> FALSE, reason |-> "none"]
             ELSE [status |-> "HOLD", review |-> FALSE, reason |-> level]
BY DEF AnswerPolicy

LEMMA PolicyStatuses ==
  ASSUME NEW read, NEW level, NEW cautions
  PROVE  AnswerPolicy(read, level, cautions).status
           \in {"INSUFFICIENT_EVIDENCE", "HOLD", "HUMAN_REVIEW", "DRAFT_AVAILABLE"}
BY PolicyOfNothing, PolicyOfStale, PolicyOfCautions, PolicyOfFresh

LEMMA LevelOfStrength ==
  ASSUME NEW read, NEW strength \in Strengths
  PROVE  /\ Confidence(read, strength) \in {"ABSTAIN", "HIGH", "MEDIUM", "LOW"}
         /\ Confidence(read, strength) = "HIGH" =>
              strength = "strong" /\ ~ \E row \in read.rows : FreshnessState(row, read.at) = "STALE"
BY DEF Confidence, Strengths

\* The consumer of a trace answers exactly what the policy drafts.
LEMMA ConsumerAgrees ==
  ASSUME NEW read, NEW strength \in Strengths, NEW cautions,
         NEW level, level = Confidence(read, strength),
         NEW ruling, ruling = AnswerPolicy(read, level, cautions),
         NEW taken, taken = Consumed(read, level, ruling)
  PROVE  /\ taken = "ANSWER" <=> ruling.status = "DRAFT_AVAILABLE"
         /\ taken = "ANSWER" => cautions = {} /\ strength = "strong"
         /\ ruling.status = "HUMAN_REVIEW" => taken = "HUMAN_REVIEW"
<1>1. level \in {"ABSTAIN", "HIGH", "MEDIUM", "LOW"} /\ (level = "HIGH" => strength = "strong")
  BY LevelOfStrength
<1>2. CASE read.rows = {}
  BY <1>2, PolicyOfNothing DEF Consumed
<1>3. CASE \E row \in read.rows : FreshnessState(row, read.at) = "STALE"
  <2>1. ruling = [status |-> "HOLD", review |-> FALSE, reason |-> "STALE_EVIDENCE"]
    BY <1>3, PolicyOfStale
  <2>2. taken = "HOLD" BY <1>3, <2>1 DEF Consumed
  <2> QED BY <2>1, <2>2
<1>4. CASE read.rows # {} /\ (~ \E row \in read.rows : FreshnessState(row, read.at) = "STALE") /\ cautions # {}
  <2>1. ruling.review = TRUE /\ ruling.status \in {"HOLD", "HUMAN_REVIEW"} BY <1>4, PolicyOfCautions
  <2>2. taken = "HUMAN_REVIEW" BY <1>4, <2>1 DEF Consumed
  <2> QED BY <2>1, <2>2
<1>5. CASE read.rows # {} /\ (~ \E row \in read.rows : FreshnessState(row, read.at) = "STALE") /\ cautions = {}
  <2>1. ruling = IF level = "HIGH" THEN [status |-> "DRAFT_AVAILABLE", review |-> FALSE, reason |-> "none"]
                 ELSE [status |-> "HOLD", review |-> FALSE, reason |-> level]
    BY <1>5, PolicyOfFresh
  <2>2. taken = IF level = "HIGH" THEN "ANSWER" ELSE "HOLD" BY <1>1, <1>5, <2>1 DEF Consumed
  <2> QED BY <1>1, <1>5, <2>1, <2>2
<1> QED BY <1>2, <1>3, <1>4, <1>5

\* Of rows that are one for each document, the suitable selection supports the
\* claim, and each of its rows does by itself.
LEMMA SelectionIsSound ==
  ASSUME NEW rows, NEW claim, NEW chosen, chosen = Selection(rows, claim),
         \A x, y \in rows : Document(x) = Document(y) => x = y,
         Supported(rows, claim), Suitable(chosen, claim)
  PROVE  /\ chosen \subseteq rows /\ Supported(chosen, claim)
         /\ \A row \in chosen : Supports(row, claim) /\ ~StaleAt(row, seconds)
         /\ \A row, other \in chosen : row.source = other.source => row = other
<1>1. chosen \subseteq rows BY DEF Selection
<1>2. \A row, other \in chosen : row.source = other.source => row = other
  <2> SUFFICES ASSUME NEW row \in chosen, NEW other \in chosen, row.source = other.source
               PROVE  row = other OBVIOUS
  <2>1. row.version = other.version BY DEF Suitable
  <2>2. Document(row) = Document(other) BY <2>1 DEF Document
  <2> QED BY <1>1, <2>2
<1>3. \A row \in rows : Supports(row, claim) => row \in chosen BY DEF Selection
<1>4. \A row \in chosen : Supports(row, claim)
  <2> SUFFICES ASSUME NEW row \in chosen PROVE Supports(row, claim) OBVIOUS
  <2>1. PICK other \in rows : other.source = row.source /\ Supports(other, claim) BY DEF Selection
  <2>2. other \in chosen BY <1>3, <2>1
  <2> QED BY <1>2, <2>1, <2>2
<1>5. \A row \in chosen : ~StaleAt(row, seconds) BY DEF Suitable
<1>6. CASE claim = "READINESS"
  <2>1. \A row \in rows : SupportsShipping(row) \/ SupportsTentative(row) => Supports(row, claim)
    BY <1>6 DEF Supports
  <2> QED BY <1>1, <1>2, <1>3, <1>4, <1>5, <1>6, <2>1 DEF Supported
<1>7. CASE claim # "READINESS"
  BY <1>1, <1>2, <1>3, <1>4, <1>5, <1>7 DEF Supported
<1> QED BY <1>6, <1>7


-----------------------------------------------------------------------------
(* The steps                                                               *)

\* A step concerns one request; its time and its process stay.
OthersStay(a) ==
  /\ ExplanationTypes' /\ seconds' = seconds /\ deployment' = deployment
  /\ \A b \in Askers \ {a} :
       /\ inquiry'[b] = inquiry[b] /\ asker'[b] = asker[b] /\ thread'[b] = thread[b]
       /\ found'[b] = found[b] /\ evidence'[b] = evidence[b] /\ calls'[b] = calls[b]
       /\ reply'[b] = reply[b]

LEMMA OthersAreSound ==
  ASSUME ExplanationInv, NEW a \in Askers, OthersStay(a), LockIsHeld', AskerIsSound(a)'
  PROVE  ExplanationInv'
<1>1. ASSUME NEW b \in Askers \ {a} PROVE AskerIsSound(b)'
  <2>1. AskerIsSound(b) BY DEF ExplanationInv
  <2>2. StageIsSound(b)' BY <2>1 DEF OthersStay, AskerIsSound, StageIsSound, Works
  <2>3. WorkIsSound(b)'
    BY <2>1 DEF OthersStay, AskerIsSound, WorkIsSound, ReadIsSound, EvidenceIsSound
  <2>4. ReplyIsSound(b)' BY <2>1 DEF OthersStay, AskerIsSound, ReplyIsSound
  <2> QED BY <2>2, <2>3, <2>4 DEF AskerIsSound
<1> QED BY <1>1 DEF OthersStay, ExplanationInv

\* What a reply, and another step of a request, leave.
LEMMA ReplyLeaves ==
  ASSUME ExplanationTypes, NEW a \in Askers, NEW s, NEW why, NEW cites, Reply(a, s, why, cites)
  PROVE  /\ asker' \in [Askers -> AskerStates] /\ asker'[a] = "done"
         /\ DOMAIN reply' = Askers
         /\ reply'[a].status = s /\ reply'[a].reason = why /\ reply'[a].cites = cites
         /\ \A b \in Askers \ {a} : asker'[b] = asker[b] /\ reply'[b] = reply[b]
BY DEF ExplanationTypes, Reply, Go, AskerStates

LEMMA GoLeaves ==
  ASSUME ExplanationTypes, NEW a \in Askers, NEW state \in AskerStates, Go(a, state)
  PROVE  /\ asker' \in [Askers -> AskerStates] /\ asker'[a] = state
         /\ \A b \in Askers \ {a} : asker'[b] = asker[b]
BY DEF ExplanationTypes, Go

LEMMA LockStays ==
  ASSUME LockIsHeld, searching' = searching, NEW a \in Askers,
         \A b \in Askers \ {a} : thread'[b] = thread[b], Works(a)' <=> Works(a)
  PROVE  LockIsHeld'
BY DEF LockIsHeld, Works

LEMMA LockIsFreed ==
  ASSUME LockIsHeld, NEW a \in Askers, Works(a), searching' = FALSE, thread'[a] = "none",
         \A b \in Askers \ {a} : thread'[b] = thread[b]
  PROVE  LockIsHeld'
BY DEF LockIsHeld, Works

\* A request that is refused or held before it called the model.
LEMMA RefusedIsSound ==
  ASSUME NEW a \in Askers, AskerIsSound(a), calls[a] = 0, calls'[a] = 0, asker'[a] = "done",
         deployment' \in Deployments, inquiry'[a] \in Inquiries,
         reply'[a].status \in {"ERROR", "HOLD"}, reply'[a].cites = {},
         Works(a)' => reply'[a].reason = "TIMEOUT",
         thread'[a] = "read" => ReadIsSound(a)'
  PROVE  AskerIsSound(a)'
<1>1. StageIsSound(a)' BY DEF StageIsSound
<1>2. WorkIsSound(a)' BY DEF WorkIsSound
<1>3. ReplyIsSound(a)' BY DEF ReplyIsSound
<1> QED BY <1>1, <1>2, <1>3 DEF AskerIsSound

LEMMA RefusalIsError ==
  ASSUME NEW q PROVE RefusalOf(q) \in {"ERROR", "HOLD"}
BY DEF RefusalOf

LEMMA AskIsSound ==
  ASSUME ExplanationInv, NEW a \in Askers, Ask(a) PROVE ExplanationInv'
<1>1. PICK q \in AskedBy[a] :
        /\ inquiry' = [inquiry EXCEPT ![a] = q]
        /\ IF ReasonToRefuse(q) = "none" THEN Go(a, "waiting") /\ UNCHANGED reply
           ELSE Reply(a, RefusalOf(q), ReasonToRefuse(q), {})
  BY DEF Ask
<1>2. q \in Inquiries BY ExplanationAssumption
<1>3. ExplanationTypes /\ AskerIsSound(a) /\ LockIsHeld BY DEF ExplanationInv
<1>4. /\ DOMAIN inquiry' = Askers /\ inquiry'[a] = q
      /\ \A b \in Askers \ {a} : inquiry'[b] = inquiry[b]
  BY <1>1, <1>3 DEF ExplanationTypes
<1>5. /\ asker[a] = "idle" /\ deployment \in Deployments
      /\ UNCHANGED <<seconds, deployment, thread, searching, found, evidence, calls>>
  BY <1>3 DEF Ask, RestUnchanged, ExplanationTypes
<1>6. calls[a] = 0 /\ thread[a] = "none" /\ reply[a] = NoReply
  BY <1>3, <1>5 DEF AskerIsSound, StageIsSound, Works
<1>7. LockIsHeld' BY <1>3, <1>5, LockStays DEF Works
<1>8. CASE ReasonToRefuse(q) = "none"
  <2>1. Go(a, "waiting") /\ UNCHANGED reply BY <1>1, <1>8
  <2>2. /\ asker' \in [Askers -> AskerStates] /\ asker'[a] = "waiting"
        /\ \A b \in Askers \ {a} : asker'[b] = asker[b]
    BY <1>3, <2>1, GoLeaves DEF AskerStates
  <2>3. OthersStay(a) BY <1>3, <1>4, <1>5, <2>1, <2>2 DEF OthersStay, ExplanationTypes
  <2>4. StageIsSound(a)' BY <1>2, <1>4, <1>5, <1>6, <2>1, <2>2 DEF StageIsSound, Works
  <2>5. WorkIsSound(a)' BY <1>5, <1>6, <2>1, <2>2 DEF WorkIsSound, NoReply
  <2>6. ReplyIsSound(a)' BY <1>6, <2>1 DEF ReplyIsSound, NoReply
  <2> QED BY <1>7, <2>3, <2>4, <2>5, <2>6, OthersAreSound DEF AskerIsSound
<1>9. CASE ReasonToRefuse(q) # "none"
  <2>1. Reply(a, RefusalOf(q), ReasonToRefuse(q), {}) BY <1>1, <1>9
  <2>2. /\ asker' \in [Askers -> AskerStates] /\ asker'[a] = "done" /\ DOMAIN reply' = Askers
        /\ reply'[a].status = RefusalOf(q) /\ reply'[a].cites = {}
        /\ \A b \in Askers \ {a} : asker'[b] = asker[b] /\ reply'[b] = reply[b]
    BY <1>3, <2>1, ReplyLeaves
  <2>3. OthersStay(a) BY <1>3, <1>4, <1>5, <2>2 DEF OthersStay, ExplanationTypes
  <2>4. RefusalOf(q) \in {"ERROR", "HOLD"} BY RefusalIsError
  <2>5. AskerIsSound(a)'
    BY <1>2, <1>3, <1>4, <1>5, <1>6, <2>2, <2>4, RefusedIsSound DEF Works
  <2> QED BY <1>7, <2>3, <2>5, OthersAreSound
<1> QED BY <1>8, <1>9

\* A request that is answered with a failure while it waits, its thread as it is.
LEMMA FailureIsSound ==
  ASSUME ExplanationInv, NEW a \in Askers, NEW code, asker[a] = "waiting", ReplyFailure(a, code),
         Works(a)' => code = "TIMEOUT", thread' \in [Askers -> ThreadStates],
         \A b \in Askers \ {a} : thread'[b] = thread[b],
         thread'[a] \in {"none", thread[a]}, LockIsHeld', UNCHANGED found, GroundUnchanged
  PROVE  ExplanationInv'
<1>1. ExplanationTypes /\ AskerIsSound(a) BY DEF ExplanationInv
<1>2. UNCHANGED <<seconds, deployment, inquiry, evidence, calls>> BY DEF GroundUnchanged
<1>3. /\ asker' \in [Askers -> AskerStates] /\ asker'[a] = "done" /\ DOMAIN reply' = Askers
      /\ reply'[a].status = RefusalOf(inquiry[a]) /\ reply'[a].reason = code /\ reply'[a].cites = {}
      /\ \A b \in Askers \ {a} : asker'[b] = asker[b] /\ reply'[b] = reply[b]
  BY <1>1, ReplyLeaves DEF ReplyFailure
<1>4. OthersStay(a) BY <1>1, <1>2, <1>3 DEF OthersStay, ExplanationTypes
<1>5. calls[a] = 0 /\ deployment \in Deployments /\ inquiry[a] \in Inquiries
  BY <1>1 DEF AskerIsSound, StageIsSound
<1>6. thread'[a] = "read" => ReadIsSound(a)'
  BY <1>1, <1>2 DEF AskerIsSound, WorkIsSound, ReadIsSound
<1>7. reply'[a].status \in {"ERROR", "HOLD"} BY <1>3, RefusalIsError
<1>8. AskerIsSound(a)' BY <1>1, <1>2, <1>3, <1>5, <1>6, <1>7, RefusedIsSound
<1> QED BY <1>4, <1>8, OthersAreSound

LEMMA ExpireIsSound ==
  ASSUME ExplanationInv, NEW a \in Askers, Expire(a) PROVE ExplanationInv'
<1>1. UNCHANGED <<thread, searching>> BY DEF Expire
<1>2. LockIsHeld' BY <1>1, LockStays DEF ExplanationInv, Works
<1> QED BY <1>1, <1>2, FailureIsSound DEF Expire, ExplanationInv, ExplanationTypes

LEMMA StartSearchIsSound ==
  ASSUME ExplanationInv, NEW a \in Askers, StartSearch(a) PROVE ExplanationInv'
<1>1. /\ asker[a] = "waiting" /\ thread[a] = "none" /\ UNCHANGED found /\ GroundUnchanged
  BY DEF StartSearch
<1>2. ExplanationTypes /\ AskerIsSound(a) /\ LockIsHeld BY DEF ExplanationInv
<1>3. CASE searching
  <2>1. ReplyFailure(a, "RUNTIME_BUSY") /\ UNCHANGED <<thread, searching>> BY <1>3 DEF StartSearch
  <2>2. LockIsHeld' BY <1>2, <2>1, LockStays DEF Works
  <2>3. thread' \in [Askers -> ThreadStates] /\ ~Works(a)' BY <1>1, <1>2, <2>1 DEF ExplanationTypes, Works
  <2> QED BY <1>1, <2>1, <2>2, <2>3, FailureIsSound
<1>4. CASE ~searching
  <2>1. /\ searching' = TRUE /\ thread' = [thread EXCEPT ![a] = "started"] /\ UNCHANGED <<asker, reply>>
        /\ UNCHANGED <<seconds, deployment, inquiry, evidence, calls, found>>
    BY <1>1, <1>4 DEF StartSearch, GroundUnchanged
  <2>2. /\ thread' \in [Askers -> ThreadStates] /\ thread'[a] = "started"
        /\ \A b \in Askers \ {a} : thread'[b] = thread[b]
    BY <1>2, <2>1 DEF ExplanationTypes, ThreadStates
  <2>3. LockIsHeld' BY <1>2, <1>4, <2>1, <2>2 DEF LockIsHeld, Works
  <2>4. OthersStay(a) BY <1>2, <2>1, <2>2 DEF OthersStay, ExplanationTypes
  <2>5. StageIsSound(a)' BY <1>1, <1>2, <2>1, <2>2 DEF AskerIsSound, StageIsSound, Works
  <2>6. WorkIsSound(a)'
    BY <1>1, <1>2, <2>1, <2>2 DEF AskerIsSound, WorkIsSound, EvidenceIsSound
  <2>7. ReplyIsSound(a)' BY <1>2, <2>1 DEF AskerIsSound, ReplyIsSound
  <2> QED BY <2>3, <2>4, <2>5, <2>6, <2>7, OthersAreSound DEF AskerIsSound
<1> QED BY <1>3, <1>4

LEMMA WorkerEnding ==
  ASSUME ExplanationTypes, LockIsHeld, NEW a \in Askers, Works(a), WorkerEnds(a)
  PROVE  /\ thread' \in [Askers -> ThreadStates] /\ thread'[a] = "none"
         /\ \A b \in Askers \ {a} : thread'[b] = thread[b]
         /\ LockIsHeld'
<1>1. /\ thread' \in [Askers -> ThreadStates] /\ thread'[a] = "none"
      /\ \A b \in Askers \ {a} : thread'[b] = thread[b]
      /\ searching' = FALSE
  BY DEF WorkerEnds, ExplanationTypes, ThreadStates
<1> QED BY <1>1, LockIsFreed

\* A request that was answered keeps what it was answered with when its thread
\* ends, or goes on.
LEMMA LateIsSound ==
  ASSUME NEW a \in Askers, AskerIsSound(a), Works(a), asker[a] # "waiting",
         UNCHANGED <<seconds, deployment, inquiry, asker, evidence, calls, reply>>,
         thread'[a] = "read" => ReadIsSound(a)'
  PROVE  AskerIsSound(a)'
<1>1. /\ asker[a] = "done" /\ calls[a] = 0 /\ reply[a].reason = "TIMEOUT"
      /\ reply[a].status \in {"ERROR", "HOLD"}
  BY DEF AskerIsSound, StageIsSound
<1>2. StageIsSound(a)' BY <1>1 DEF AskerIsSound, StageIsSound
<1>3. WorkIsSound(a)' BY <1>1 DEF WorkIsSound
<1>4. ReplyIsSound(a)' BY <1>1 DEF AskerIsSound, ReplyIsSound
<1> QED BY <1>2, <1>3, <1>4 DEF AskerIsSound

LEMMA ReadRowsIsSound ==
  ASSUME ExplanationInv, NEW a \in Askers, ReadRows(a) PROVE ExplanationInv'
<1>1. ExplanationTypes /\ AskerIsSound(a) /\ LockIsHeld BY DEF ExplanationInv
<1>2. thread[a] = "started" /\ GroundUnchanged BY DEF ReadRows
<1>3. UNCHANGED <<seconds, deployment, inquiry, evidence, calls>> BY <1>2 DEF GroundUnchanged
<1>4. /\ Works(a) /\ calls[a] = 0 /\ deployment \in Deployments
      /\ \/ asker[a] = "waiting"
         \/ asker[a] = "done" /\ reply[a].reason = "TIMEOUT" /\ reply[a].status \in {"ERROR", "HOLD"}
  BY <1>1, <1>2 DEF AskerIsSound, StageIsSound, Works
<1>5. CASE Wanted(a) = {}
  <2>1. WorkerEnds(a) /\ UNCHANGED found BY <1>5 DEF ReadRows
  <2>2. /\ thread' \in [Askers -> ThreadStates] /\ thread'[a] = "none"
        /\ \A b \in Askers \ {a} : thread'[b] = thread[b]
        /\ LockIsHeld'
    BY <1>1, <1>4, <2>1, WorkerEnding
  <2>3. CASE asker[a] = "waiting"
    <3>1. ReplyFailure(a, "INDEX_UNAVAILABLE") BY <1>5, <2>3 DEF ReadRows
    <3>2. ~Works(a)' BY <2>2 DEF Works
    <3> QED BY <1>2, <2>1, <2>2, <2>3, <3>1, <3>2, FailureIsSound
  <2>4. CASE asker[a] # "waiting"
    <3>1. UNCHANGED <<asker, reply>> BY <1>5, <2>4 DEF ReadRows
    <3>2. OthersStay(a) BY <1>1, <1>3, <2>1, <2>2, <3>1 DEF OthersStay, ExplanationTypes
    <3>3. AskerIsSound(a)' BY <1>1, <1>3, <1>4, <2>2, <2>4, <3>1, LateIsSound
    <3> QED BY <2>2, <3>2, <3>3, OthersAreSound
  <2> QED BY <2>3, <2>4
<1>6. CASE Wanted(a) # {}
  <2>1. PICK s \in Collapsed(Wanted(a)) : found' = [found EXCEPT ![a] = [rows |-> s, at |-> seconds]]
    BY <1>6 DEF ReadRows
  <2>2. thread' = [thread EXCEPT ![a] = "read"] /\ UNCHANGED <<asker, reply, searching>>
    BY <1>6 DEF ReadRows
  <2>3. /\ s \subseteq Wanted(a) /\ \A x, y \in s : Document(x) = Document(y) => x = y
    BY DEF Collapsed
  <2>4. /\ s \subseteq UNION {d.rows : d \in Deployments}
        /\ \A row \in s : inquiry[a].wants \in {"any", row.type}
    BY <1>4, <2>3 DEF Wanted
  <2> DEFINE read == [rows |-> s, at |-> seconds]
  <2>5. read \in Reads BY <1>1, <2>4 DEF Reads, ExplanationTypes
  <2>6. read.rows = s /\ read.at = seconds OBVIOUS
  <2>7. found' = [found EXCEPT ![a] = read] BY <2>1
  <2> HIDE DEF read
  <2>8. /\ found' \in [Askers -> Reads \union {Unset}] /\ found'[a] = read
        /\ \A b \in Askers \ {a} : found'[b] = found[b]
    BY <1>1, <2>5, <2>7 DEF ExplanationTypes
  <2>9. /\ thread' \in [Askers -> ThreadStates] /\ thread'[a] = "read"
        /\ \A b \in Askers \ {a} : thread'[b] = thread[b]
    BY <1>1, <2>2 DEF ExplanationTypes, ThreadStates
  <2>10. OthersStay(a) BY <1>1, <1>3, <2>2, <2>8, <2>9 DEF OthersStay, ExplanationTypes
  <2>11. LockIsHeld'
    <3>1. Works(a)' <=> Works(a) BY <1>4, <2>9 DEF Works
    <3> QED BY <1>1, <2>2, <2>9, <3>1, LockStays
  <2>12. seconds \in Nat BY <1>1, ExplanationAssumption DEF ExplanationTypes
  <2>13. ReadIsSound(a)' BY <1>3, <2>3, <2>4, <2>5, <2>6, <2>8, <2>12 DEF ReadIsSound
  <2>14. AskerIsSound(a)'
    <3>1. CASE asker[a] # "waiting" BY <1>1, <1>3, <1>4, <2>2, <2>13, <3>1, LateIsSound
    <3>2. CASE asker[a] = "waiting"
      <4>1. reply[a] = NoReply BY <1>1, <3>2 DEF AskerIsSound, StageIsSound
      <4>2. StageIsSound(a)' BY <1>1, <1>3, <1>4, <2>2, <2>9, <3>2 DEF AskerIsSound, StageIsSound, Works
      <4>3. WorkIsSound(a)' BY <1>3, <1>4, <2>2, <2>13, <3>2, <4>1 DEF WorkIsSound, NoReply
      <4>4. ReplyIsSound(a)' BY <2>2, <4>1 DEF ReplyIsSound, NoReply
      <4> QED BY <4>2, <4>3, <4>4 DEF AskerIsSound
    <3> QED BY <3>1, <3>2
  <2> QED BY <2>10, <2>11, <2>14, OthersAreSound
<1> QED BY <1>5, <1>6


LEMMA ReturnIsSound ==
  ASSUME ExplanationInv, NEW a \in Askers, Return(a) PROVE ExplanationInv'
<1>1. ExplanationTypes /\ AskerIsSound(a) /\ LockIsHeld BY DEF ExplanationInv
<1>2. thread[a] = "read" /\ WorkerEnds(a) /\ GroundUnchanged BY DEF Return
<1>3. UNCHANGED <<seconds, deployment, inquiry, evidence, calls>> BY <1>2 DEF GroundUnchanged
<1>4. /\ Works(a) /\ calls[a] = 0 /\ ReadIsSound(a)
      /\ asker[a] # "waiting" => asker[a] = "done" /\ reply[a].status \in {"ERROR", "HOLD"}
      /\ deployment \in Deployments /\ inquiry[a] \in Inquiries
  BY <1>1, <1>2 DEF AskerIsSound, StageIsSound, WorkIsSound, Works
<1>5. /\ thread' \in [Askers -> ThreadStates] /\ thread'[a] = "none"
      /\ \A b \in Askers \ {a} : thread'[b] = thread[b]
      /\ LockIsHeld'
  BY <1>1, <1>2, <1>4, WorkerEnding
<1>6. CASE asker[a] # "waiting"
  <2>1. Forget(a) /\ UNCHANGED <<asker, reply>> BY <1>6 DEF Return
  <2>2. /\ found' \in [Askers -> Reads \union {Unset}]
        /\ \A b \in Askers \ {a} : found'[b] = found[b]
    BY <1>1, <2>1 DEF Forget, ExplanationTypes
  <2>3. OthersStay(a) BY <1>1, <1>3, <1>5, <2>1, <2>2 DEF OthersStay, ExplanationTypes
  <2>4. AskerIsSound(a)' BY <1>1, <1>3, <1>4, <1>5, <1>6, <2>1, LateIsSound
  <2> QED BY <1>5, <2>3, <2>4, OthersAreSound
<1>7. CASE asker[a] = "waiting" /\ inquiry[a].kind = "explain"
  <2>1. Go(a, "searched") /\ UNCHANGED <<found, reply>> BY <1>7 DEF Return
  <2>2. /\ asker' \in [Askers -> AskerStates] /\ asker'[a] = "searched"
        /\ \A b \in Askers \ {a} : asker'[b] = asker[b]
    BY <1>1, <2>1, GoLeaves DEF AskerStates
  <2>3. OthersStay(a) BY <1>1, <1>3, <1>5, <2>1, <2>2 DEF OthersStay, ExplanationTypes
  <2>4. reply[a] = NoReply BY <1>1, <1>7 DEF AskerIsSound, StageIsSound
  <2>5. StageIsSound(a)' BY <1>3, <1>4, <1>5, <2>1, <2>2, <2>4 DEF StageIsSound, Works
  <2>6. ReadIsSound(a)' BY <1>3, <1>4, <2>1 DEF ReadIsSound
  <2>7. WorkIsSound(a)' BY <1>3, <1>4, <2>1, <2>2, <2>4, <2>6 DEF WorkIsSound, NoReply
  <2>8. ReplyIsSound(a)' BY <2>1, <2>4 DEF ReplyIsSound, NoReply
  <2> QED BY <1>5, <2>3, <2>5, <2>7, <2>8, OthersAreSound DEF AskerIsSound
<1>8. CASE asker[a] = "waiting" /\ inquiry[a].kind # "explain"
  <2>1. PICK strength \in Strengths :
          LET level  == Confidence(found[a], strength)
              ruling == AnswerPolicy(found[a], level, {}) IN
          /\ Reply(a, ruling.status, ruling.reason, {Document(row) : row \in found[a].rows})
          /\ UNCHANGED found
    BY <1>8 DEF Return
  <2> DEFINE level  == Confidence(found[a], strength)
             status == AnswerPolicy(found[a], level, {}).status
             reason == AnswerPolicy(found[a], level, {}).reason
             cites  == {Document(row) : row \in found[a].rows}
  <2>2. Reply(a, status, reason, cites) /\ UNCHANGED found BY <2>1
  <2>3. status \in {"INSUFFICIENT_EVIDENCE", "HOLD", "HUMAN_REVIEW", "DRAFT_AVAILABLE"}
    BY PolicyStatuses
  <2>4. status = "DRAFT_AVAILABLE" =>
          /\ found[a].rows # {}
          /\ \A row \in found[a].rows : row.type \in LiveTypes => ~StaleAt(row, found[a].at)
    BY DraftsAreCurrent
  <2>5. status = "DRAFT_AVAILABLE" => cites # {} BY <2>4
  <2>6. cites = {Document(row) : row \in found[a].rows} OBVIOUS
  <2> HIDE DEF status, reason, cites
  <2>7. /\ asker' \in [Askers -> AskerStates] /\ asker'[a] = "done" /\ DOMAIN reply' = Askers
        /\ reply'[a].status = status /\ reply'[a].cites = cites
        /\ \A b \in Askers \ {a} : asker'[b] = asker[b] /\ reply'[b] = reply[b]
    BY <1>1, <2>2, ReplyLeaves
  <2>8. OthersStay(a) BY <1>1, <1>3, <1>5, <2>2, <2>7 DEF OthersStay, ExplanationTypes
  <2>9. StageIsSound(a)' BY <1>3, <1>4, <1>5, <2>7 DEF StageIsSound, Works
  <2>10. WorkIsSound(a)' BY <1>3, <1>4, <1>5, <2>3, <2>7 DEF WorkIsSound
  <2>11. ReplyIsSound(a)'
    <3>1. \A row \in found[a].rows : inquiry[a].wants \in {"any", row.type} BY <1>4 DEF ReadIsSound
    <3> QED BY <1>3, <1>8, <2>2, <2>3, <2>4, <2>5, <2>6, <2>7, <3>1 DEF ReplyIsSound
  <2> QED BY <1>5, <2>8, <2>9, <2>10, <2>11, OthersAreSound DEF AskerIsSound
<1> QED BY <1>6, <1>7, <1>8

\* A request that is held once its thread has ended.
LEMMA HeldIsSound ==
  ASSUME ExplanationInv, NEW a \in Askers, NEW why, asker[a] = "searched", Hold(a, why), Forget(a),
         UNCHANGED evidence, UNCHANGED calls, WorkUnchanged
  PROVE  ExplanationInv'
<1>1. ExplanationTypes /\ AskerIsSound(a) /\ LockIsHeld BY DEF ExplanationInv
<1>2. UNCHANGED <<seconds, deployment, inquiry, thread, searching>> BY DEF WorkUnchanged
<1>3. /\ asker' \in [Askers -> AskerStates] /\ asker'[a] = "done" /\ DOMAIN reply' = Askers
      /\ reply'[a].status = "HOLD" /\ reply'[a].cites = {}
      /\ \A b \in Askers \ {a} : asker'[b] = asker[b] /\ reply'[b] = reply[b]
  BY <1>1, ReplyLeaves DEF Hold
<1>4. /\ found' \in [Askers -> Reads \union {Unset}]
      /\ \A b \in Askers \ {a} : found'[b] = found[b]
  BY <1>1 DEF Forget, ExplanationTypes
<1>5. OthersStay(a) BY <1>1, <1>2, <1>3, <1>4 DEF OthersStay, ExplanationTypes
<1>6. /\ calls[a] = 0 /\ thread[a] = "none" /\ deployment \in Deployments /\ inquiry[a] \in Inquiries
  BY <1>1 DEF AskerIsSound, StageIsSound, Works
<1>7. AskerIsSound(a)' BY <1>1, <1>2, <1>3, <1>6, RefusedIsSound DEF Works
<1>8. LockIsHeld' BY <1>1, <1>2, LockStays DEF Works
<1> QED BY <1>5, <1>7, <1>8, OthersAreSound

LEMMA GroundIsSound ==
  ASSUME ExplanationInv, NEW a \in Askers, Ground(a) PROVE ExplanationInv'
<1> DEFINE claim == inquiry[a].claim
           rows  == Selection(found[a].rows, claim)
           lets  == /\ Supported(found[a].rows, claim) /\ Suitable(rows, claim)
                    /\ deployment.credential
<1>1. ExplanationTypes /\ AskerIsSound(a) /\ LockIsHeld BY DEF ExplanationInv
<1>2. asker[a] = "searched" /\ UNCHANGED calls /\ WorkUnchanged BY DEF Ground
<1>3. UNCHANGED <<seconds, deployment, inquiry, thread, searching>> BY <1>2 DEF WorkUnchanged
<1>4. CASE ~lets
  <2>1. PICK why \in {"CLAIM_NOT_SUPPORTED", "NOT_SUITABLE", "RUNTIME_UNAVAILABLE"} :
          Hold(a, why) /\ Forget(a) /\ UNCHANGED evidence
    BY <1>4 DEF Ground
  <2> QED BY <1>2, <2>1, HeldIsSound
<1>5. CASE lets
  <2>1. /\ evidence' = [evidence EXCEPT ![a] = [rows |-> rows, at |-> seconds]]
        /\ Go(a, "grounded") /\ UNCHANGED <<reply, found>>
    BY <1>5 DEF Ground
  <2>2. /\ ReadIsSound(a) /\ calls[a] = 0 /\ reply[a] = NoReply /\ thread[a] = "none"
        /\ deployment \in Deployments /\ inquiry[a] \in Inquiries
    BY <1>1, <1>2 DEF AskerIsSound, StageIsSound, WorkIsSound, Works
  <2>3. /\ rows \subseteq found[a].rows /\ Supported(rows, claim)
        /\ \A row \in rows : Supports(row, claim) /\ ~StaleAt(row, seconds)
        /\ \A row, other \in rows : row.source = other.source => row = other
    BY <1>5, <2>2, SelectionIsSound DEF ReadIsSound
  <2> DEFINE read == [rows |-> rows, at |-> seconds]
  <2>4. read \in Reads BY <1>1, <2>2, <2>3 DEF Reads, ReadIsSound, ExplanationTypes
  <2>5. read.rows = rows /\ read.at = seconds OBVIOUS
  <2>6. evidence' = [evidence EXCEPT ![a] = read] BY <2>1
  <2>7. claim = inquiry[a].claim OBVIOUS
  <2> HIDE DEF read, rows, claim
  <2>8. /\ evidence' \in [Askers -> Reads \union {Unset}] /\ evidence'[a] = read
        /\ \A b \in Askers \ {a} : evidence'[b] = evidence[b]
    BY <1>1, <2>4, <2>6 DEF ExplanationTypes
  <2>9. /\ asker' \in [Askers -> AskerStates] /\ asker'[a] = "grounded"
        /\ \A b \in Askers \ {a} : asker'[b] = asker[b]
    BY <1>1, <2>1, GoLeaves DEF AskerStates
  <2>10. OthersStay(a) BY <1>1, <1>2, <1>3, <2>1, <2>8, <2>9 DEF OthersStay, ExplanationTypes
  <2>11. EvidenceIsSound(a)'
    BY <1>3, <2>1, <2>2, <2>3, <2>4, <2>5, <2>7, <2>8 DEF EvidenceIsSound, ReadIsSound
  <2>12. StageIsSound(a)'
    BY <1>2, <1>3, <2>1, <2>2, <2>9, ExplanationAssumption DEF StageIsSound, Works
  <2>13. WorkIsSound(a)' BY <1>3, <2>2, <2>9, <2>11 DEF WorkIsSound
  <2>14. ReplyIsSound(a)' BY <2>1, <2>2 DEF ReplyIsSound, NoReply
  <2>15. LockIsHeld' BY <1>1, <1>3, LockStays DEF Works
  <2> QED BY <2>10, <2>12, <2>13, <2>14, <2>15, OthersAreSound DEF AskerIsSound
<1> QED BY <1>4, <1>5

\* An attempt to call the model counts, and leaves the evidence.
LEMMA AttemptLeaves ==
  ASSUME ExplanationInv, NEW a \in Askers, Attempt(a), UNCHANGED <<found, evidence>>, WorkUnchanged
  PROVE  /\ calls' \in [Askers -> 0 .. MaxAttempts] /\ calls'[a] \in 1 .. MaxAttempts
         /\ calls'[a] = calls[a] + 1
         /\ \A b \in Askers \ {a} : calls'[b] = calls[b]
         /\ EvidenceIsSound(a)' /\ LockIsHeld' /\ thread'[a] = "none" /\ reply[a] = NoReply
         /\ inquiry'[a] = inquiry[a] /\ inquiry[a] \in Inquiries /\ deployment' \in Deployments
         /\ UNCHANGED <<seconds, deployment, inquiry, thread, searching>>
<1>1. ExplanationTypes /\ AskerIsSound(a) /\ LockIsHeld BY DEF ExplanationInv
<1>2. UNCHANGED <<seconds, deployment, inquiry, thread, searching>> BY DEF WorkUnchanged
<1>3. asker[a] = "grounded" /\ calls' = [calls EXCEPT ![a] = @ + 1] BY DEF Attempt
<1>4. /\ calls[a] < MaxAttempts /\ reply[a] = NoReply /\ EvidenceIsSound(a) /\ thread[a] = "none"
      /\ inquiry[a] \in Inquiries /\ deployment \in Deployments
  BY <1>1, <1>3 DEF AskerIsSound, StageIsSound, WorkIsSound, Works
<1>5. /\ calls' \in [Askers -> 0 .. MaxAttempts] /\ calls'[a] \in 1 .. MaxAttempts
      /\ calls'[a] = calls[a] + 1
      /\ \A b \in Askers \ {a} : calls'[b] = calls[b]
  BY <1>1, <1>3, <1>4, ExplanationAssumption DEF ExplanationTypes
<1>6. EvidenceIsSound(a)' BY <1>2, <1>4 DEF EvidenceIsSound
<1>7. LockIsHeld' BY <1>1, <1>2, LockStays DEF Works
<1> QED BY <1>2, <1>4, <1>5, <1>6, <1>7

\* The reply to an attempt: a hold, or an answer within the evidence.
LEMMA AnsweredIsSound ==
  ASSUME ExplanationInv, NEW a \in Askers, Attempt(a), UNCHANGED <<found, evidence>>, WorkUnchanged,
         NEW s \in {"HOLD", "ANSWER"}, NEW why, NEW cites, Reply(a, s, why, cites),
         s = "HOLD" => cites = {},
         s = "ANSWER" => /\ cites \subseteq {Document(row) : row \in evidence[a].rows}
                         /\ inquiry[a].cite => cites # {}
  PROVE  ExplanationInv'
<1>1. ExplanationTypes BY DEF ExplanationInv
<1>2. /\ calls' \in [Askers -> 0 .. MaxAttempts] /\ calls'[a] \in 1 .. MaxAttempts
      /\ \A b \in Askers \ {a} : calls'[b] = calls[b]
      /\ EvidenceIsSound(a)' /\ LockIsHeld' /\ thread'[a] = "none"
      /\ inquiry'[a] = inquiry[a] /\ inquiry[a] \in Inquiries /\ deployment' \in Deployments
      /\ UNCHANGED <<seconds, deployment, inquiry, thread, searching>>
  BY AttemptLeaves
<1>3. /\ asker' \in [Askers -> AskerStates] /\ asker'[a] = "done" /\ DOMAIN reply' = Askers
      /\ reply'[a].status = s /\ reply'[a].cites = cites
      /\ \A b \in Askers \ {a} : asker'[b] = asker[b] /\ reply'[b] = reply[b]
  BY <1>1, ReplyLeaves
<1>4. OthersStay(a) BY <1>1, <1>2, <1>3 DEF OthersStay, ExplanationTypes
<1>5. StageIsSound(a)' BY <1>2, <1>3 DEF StageIsSound, Works
<1>6. WorkIsSound(a)' BY <1>2, <1>3 DEF WorkIsSound
<1>7. ReplyIsSound(a)' BY <1>2, <1>3 DEF ReplyIsSound
<1> QED BY <1>2, <1>4, <1>5, <1>6, <1>7, OthersAreSound DEF AskerIsSound

LEMMA CallFailsIsSound ==
  ASSUME ExplanationInv, NEW a \in Askers, CallFails(a) PROVE ExplanationInv'
<1>1. Attempt(a) /\ UNCHANGED <<found, evidence>> /\ WorkUnchanged BY DEF CallFails
<1>2. CASE Hold(a, "PROVIDER_FAILURE") BY <1>1, <1>2, AnsweredIsSound DEF Hold
<1>3. CASE calls[a] + 1 < MaxAttempts /\ UNCHANGED <<asker, reply>>
  <2>1. ExplanationTypes /\ AskerIsSound(a) BY DEF ExplanationInv
  <2>2. /\ calls' \in [Askers -> 0 .. MaxAttempts] /\ calls'[a] \in 1 .. MaxAttempts
        /\ calls'[a] = calls[a] + 1
        /\ \A b \in Askers \ {a} : calls'[b] = calls[b]
        /\ EvidenceIsSound(a)' /\ LockIsHeld' /\ thread'[a] = "none" /\ reply[a] = NoReply
        /\ inquiry'[a] = inquiry[a] /\ inquiry[a] \in Inquiries /\ deployment' \in Deployments
        /\ UNCHANGED <<seconds, deployment, inquiry, thread, searching>>
    BY <1>1, AttemptLeaves
  <2>3. asker[a] = "grounded" BY <1>1 DEF Attempt
  <2>4. OthersStay(a) BY <1>1, <1>3, <2>1, <2>2 DEF OthersStay, ExplanationTypes
  <2>5. StageIsSound(a)' BY <1>3, <2>2, <2>3 DEF StageIsSound, Works
  <2>6. WorkIsSound(a)' BY <1>3, <2>2, <2>3 DEF WorkIsSound
  <2>7. ReplyIsSound(a)' BY <1>3, <2>2 DEF ReplyIsSound, NoReply
  <2> QED BY <2>2, <2>4, <2>5, <2>6, <2>7, OthersAreSound DEF AskerIsSound
<1> QED BY <1>2, <1>3 DEF CallFails

LEMMA CallAnswersIsSound ==
  ASSUME ExplanationInv, NEW a \in Askers, CallAnswers(a) PROVE ExplanationInv'
<1>1. Attempt(a) /\ UNCHANGED <<found, evidence>> /\ WorkUnchanged BY DEF CallAnswers
<1>2. PICK output \in [status : {"ANSWER", "HOLD"}, cites : SUBSET (Pairs \union {Foreign}), numbers : BOOLEAN] :
        CASE ~Valid(output, a) -> Hold(a, "MODEL_VALIDATION_FAILED")
          [] Valid(output, a) /\ output.status = "HOLD" -> Hold(a, "MODEL_HOLD")
          [] OTHER -> Reply(a, "ANSWER", "none", output.cites)
  BY DEF CallAnswers
<1>3. CASE ~Valid(output, a)
  <2>1. Hold(a, "MODEL_VALIDATION_FAILED") BY <1>2, <1>3
  <2> QED BY <1>1, <2>1, AnsweredIsSound DEF Hold
<1>4. CASE Valid(output, a) /\ output.status = "HOLD"
  <2>1. Hold(a, "MODEL_HOLD") BY <1>2, <1>4
  <2> QED BY <1>1, <2>1, AnsweredIsSound DEF Hold
<1>5. CASE Valid(output, a) /\ output.status # "HOLD"
  <2>1. Reply(a, "ANSWER", "none", output.cites) BY <1>2, <1>5
  <2>2. /\ output.cites \subseteq {Document(row) : row \in evidence[a].rows}
        /\ inquiry[a].cite => output.cites # {}
    BY <1>2, <1>5 DEF Valid
  <2> QED BY <1>1, <2>1, <2>2, AnsweredIsSound
<1> QED BY <1>3, <1>4, <1>5

\* The clock, and the start of the process, which comes before every request.
LEMMA TickIsSound ==
  ASSUME ExplanationInv, Tick PROVE ExplanationInv'
<1>1. /\ UNCHANGED <<deployment, inquiry, asker, thread, searching, found, evidence, calls, reply>>
      /\ seconds' = seconds + 1 /\ seconds < MaxClock
  BY DEF Tick
<1>2. ExplanationTypes' /\ seconds \in Nat
  BY <1>1, ExplanationAssumption DEF ExplanationInv, ExplanationTypes
<1>3. LockIsHeld' BY <1>1 DEF ExplanationInv, LockIsHeld, Works
<1>4. ASSUME NEW a \in Askers PROVE AskerIsSound(a)'
  <2>1. AskerIsSound(a) BY DEF ExplanationInv
  <2>2. StageIsSound(a)' BY <1>1, <2>1 DEF AskerIsSound, StageIsSound, Works
  <2>3. \A read \in Reads : read.at \in Int BY ExplanationAssumption DEF Reads
  <2>4. ReadIsSound(a) => ReadIsSound(a)' BY <1>1, <1>2, <2>3 DEF ReadIsSound
  <2>5. EvidenceIsSound(a) => EvidenceIsSound(a)' BY <1>1 DEF EvidenceIsSound
  <2>6. WorkIsSound(a)' BY <1>1, <2>1, <2>4, <2>5 DEF AskerIsSound, WorkIsSound
  <2>7. ReplyIsSound(a)' BY <1>1, <2>1 DEF AskerIsSound, ReplyIsSound
  <2> QED BY <2>2, <2>6, <2>7 DEF AskerIsSound
<1> QED BY <1>2, <1>3, <1>4 DEF ExplanationInv

LEMMA StartUpIsSound ==
  ASSUME ExplanationInv, StartUp PROVE ExplanationInv'
<1>1. /\ UNCHANGED <<seconds, inquiry, asker, thread, searching, found, evidence, calls, reply>>
      /\ deployment' \in Deployments
  BY DEF StartUp
<1>2. ExplanationTypes' BY <1>1 DEF ExplanationInv, ExplanationTypes
<1>3. LockIsHeld' BY <1>1 DEF ExplanationInv, LockIsHeld, Works
<1>4. ASSUME NEW a \in Askers PROVE AskerIsSound(a)'
  <2>1. AskerIsSound(a) BY DEF ExplanationInv
  <2>2. StageIsSound(a)' BY <1>1, <2>1 DEF AskerIsSound, StageIsSound, Works
  <2>3. WorkIsSound(a)' BY <1>1, <2>1 DEF AskerIsSound, WorkIsSound, ReadIsSound, EvidenceIsSound
  <2>4. ReplyIsSound(a)' BY <1>1, <2>1 DEF AskerIsSound, ReplyIsSound
  <2> QED BY <2>2, <2>3, <2>4 DEF AskerIsSound
<1> QED BY <1>2, <1>3, <1>4 DEF ExplanationInv

LEMMA ExplanationStep ==
  ASSUME ExplanationInv, [ExplanationNext]_explanationVars PROVE ExplanationInv'
<1>1. CASE StartUp BY <1>1, StartUpIsSound
<1>2. CASE Tick BY <1>2, TickIsSound
<1>3. ASSUME NEW a \in Askers,
             \/ Ask(a) \/ StartSearch(a) \/ ReadRows(a) \/ Return(a) \/ Expire(a)
             \/ Ground(a) \/ CallFails(a) \/ CallAnswers(a)
      PROVE  ExplanationInv'
  BY <1>3, AskIsSound, StartSearchIsSound, ReadRowsIsSound, ReturnIsSound, ExpireIsSound,
     GroundIsSound, CallFailsIsSound, CallAnswersIsSound
<1>4. CASE UNCHANGED explanationVars
  BY <1>4 DEF explanationVars, ExplanationInv, ExplanationTypes, LockIsHeld, AskerIsSound, StageIsSound,
     WorkIsSound, ReplyIsSound, ReadIsSound, EvidenceIsSound, Works
<1> QED BY <1>1, <1>2, <1>3, <1>4 DEF ExplanationNext

LEMMA WorkingIsOne ==
  ASSUME ExplanationInv
  PROVE  Cardinality(Working) <= 1 /\ (searching <=> Working # {})
<1>1. LockIsHeld BY DEF ExplanationInv
<1>2. Working = {a \in Askers : Works(a)} BY DEF Working, Works
<1>3. searching <=> Working # {} BY <1>1, <1>2 DEF LockIsHeld
<1>4. CASE Working = {} BY <1>3, <1>4, FS_EmptySet
<1>5. CASE Working # {}
  <2>1. PICK a \in Working : TRUE BY <1>5
  <2>2. Working = {a} BY <1>1, <1>2, <2>1 DEF LockIsHeld
  <2>3. Cardinality(Working) = 1 BY <2>2, FS_Singleton
  <2> QED BY <1>3, <2>3
<1> QED BY <1>4, <1>5

LEMMA ExplanationsAreSafe ==
  ASSUME ExplanationInv PROVE AnswersAreGrounded
<1>1. \A a \in Askers : AskerIsSound(a) BY DEF ExplanationInv
<1>2. Cardinality(Working) <= 1 /\ (searching <=> Working # {}) BY WorkingIsOne
<1>3. \A a \in Working : asker[a] = "waiting" \/ reply[a].reason = "TIMEOUT"
  BY <1>1 DEF Working, AskerIsSound, StageIsSound, Works
<1>4. \A a \in Askers : reply[a].status = "DRAFT_AVAILABLE" =>
        /\ reply[a].cites = {Document(row) : row \in found[a].rows} /\ reply[a].cites # {}
        /\ \A row \in found[a].rows : /\ row.type \in LiveTypes => ~StaleAt(row, found[a].at)
                                      /\ inquiry[a].wants \in {"any", row.type}
  BY <1>1 DEF AskerIsSound, ReplyIsSound
<1>5. ASSUME NEW a \in Working, NEW strength \in Strengths, NEW minded \in MindedTogether
      PROVE  LET level  == Confidence(found[a], strength)
                 ruling == AnswerPolicy(found[a], level, minded)
                 taken  == Consumed(found[a], level, ruling) IN
             /\ taken = "ANSWER" <=> ruling.status = "DRAFT_AVAILABLE"
             /\ taken = "ANSWER" => minded = {} /\ strength = "strong"
             /\ ruling.status = "HUMAN_REVIEW" => taken = "HUMAN_REVIEW"
  BY ConsumerAgrees
<1>6. DraftIsSafe BY <1>2, <1>3, <1>4, <1>5 DEF DraftIsSafe
<1>7. ExplanationIsGrounded
  <2> SUFFICES ASSUME NEW a \in Askers
               PROVE  LET claim == inquiry[a].claim
                          given == evidence[a] IN
                 /\ (calls[a] > 0 \/ reply[a].status = "ANSWER") =>
                      /\ given # Unset /\ found[a] # Unset /\ found[a].at <= given.at
                      /\ given.rows \subseteq found[a].rows /\ Supported(given.rows, claim)
                      /\ \A row \in given.rows : Supports(row, claim) /\ ~StaleAt(row, given.at)
                      /\ \A row, other \in given.rows : row.source = other.source => row = other
                 /\ reply[a].status = "ANSWER" =>
                      /\ calls[a] \in 1 .. MaxAttempts
                      /\ reply[a].cites \subseteq {Document(row) : row \in given.rows}
                      /\ inquiry[a].cite => reply[a].cites # {}
                 /\ asker[a] # "idle" /\ inquiry[a].kind = "explain" /\ reply[a].status # "ANSWER"
                      => reply[a].cites = {}
    BY DEF ExplanationIsGrounded
  <2>1. AskerIsSound(a) BY <1>1
  <2> QED BY <2>1, UnsetAssumption DEF AskerIsSound, WorkIsSound, ReplyIsSound, EvidenceIsSound
<1> QED BY <1>6, <1>7 DEF AnswersAreGrounded

\* A draft is offered, the model called and an explanation answered only on
\* evidence that is there, current and of what was asked, and one search runs at
\* a time, for any requests, corpora and limits, whatever times out meanwhile.
THEOREM ExplanationsAreGrounded == ExplanationSpec => []AnswersAreGrounded
<1>1. ExplanationInit => ExplanationInv
  <2> SUFFICES ASSUME ExplanationInit PROVE ExplanationInv OBVIOUS
  <2>1. ExplanationTypes
    BY ExplanationAssumption DEF ExplanationInit, ExplanationTypes, AskerStates, ThreadStates
  <2>2. LockIsHeld BY DEF ExplanationInit, LockIsHeld, Works
  <2>3. ASSUME NEW a \in Askers PROVE AskerIsSound(a)
    <3>1. /\ asker[a] = "idle" /\ thread[a] = "none" /\ calls[a] = 0
          /\ reply[a] = NoReply /\ NoReply.status = "none"
      BY DEF ExplanationInit, NoReply
    <3> QED BY <3>1, ExplanationAssumption
            DEF AskerIsSound, StageIsSound, WorkIsSound, ReplyIsSound, Works
  <2> QED BY <2>1, <2>2, <2>3 DEF ExplanationInv
<1>2. ExplanationInv /\ [ExplanationNext]_explanationVars => ExplanationInv' BY ExplanationStep
<1>3. ExplanationInv => AnswersAreGrounded BY ExplanationsAreSafe
<1> QED BY <1>1, <1>2, <1>3, PTL DEF ExplanationSpec

-----------------------------------------------------------------------------
(* ReservationTasks: periods and keys                                      *)

\* Two hours of one period are less than a window apart.
LEMMA PeriodIsShort ==
  ASSUME NEW a \in Nat, NEW b \in Nat, NEW W \in Nat \ {0}, a \div W = b \div W, b > a
  PROVE  b - a < W
<1>1. a = W * (a \div W) + (a % W) /\ a % W >= 0
  BY SMT
<1>2. b = W * (b \div W) + (b % W) /\ b % W < W
  BY SMT
<1> QED BY <1>1, <1>2

\* A detection's key is a key.
LEMMA KeyTyped == ASSUME NEW d \in Detections PROVE Key(d) \in Keys
BY DEF Key, Period, Keys, Periods, Detections

\* What register and propose_shortage_task make of a detection is typed.
LEMMA SeenTyped ==
  ASSUME NEW old \in Proposals \union {NoEntry}, NEW d \in Detections
  PROVE  Seen(old, d) \in Proposals
<1>1. CASE old = NoEntry
  BY <1>1 DEF Seen, Proposals, Detections
<1>2. CASE old # NoEntry
  <2>1. old \in Proposals /\ d.at \in Hours
    BY <1>2 DEF Detections
  <2> DEFINE later == [old EXCEPT !.last = d.at]
             told  == [later EXCEPT !.evidence = old.evidence \union {d.at}]
             again == [told EXCEPT !.replays = old.replays + 1]
  <2>2. later \in Proposals
    BY <2>1 DEF Proposals
  <2>3. told \in Proposals
    <3> HIDE DEF later
    <3> QED BY <2>1, <2>2 DEF Proposals
  <2>4. again \in Proposals
    <3> HIDE DEF told
    <3> QED BY <2>1, <2>3 DEF Proposals
  <2> QED BY <1>2, <2>4 DEF Seen
<1> QED BY <1>1, <1>2

LEMMA ProposedTyped ==
  ASSUME NEW old \in ShortageTasks \union {NoEntry}, NEW d \in Detections
  PROVE  Proposed(old, d) \in ShortageTasks
<1>1. CASE old = NoEntry
  <2>1. Seen(NoEntry, d) \in Proposals
    BY SeenTyped
  <2> QED BY <1>1, <2>1 DEF Proposed, ShortageTasks
<1>2. CASE old # NoEntry
  <2>1. old.seen \in Proposals /\ old.seen.first \in Nat /\ d.at \in Nat
    BY <1>2, WindowAssumption DEF ShortageTasks, Proposals, Detections
  <2>2. Seen(old.seen, d) \in Proposals
    BY <2>1, SeenTyped
  <2>3. (IF d.at > old.seen.first THEN d.at - old.seen.first ELSE 0) \in Nat
    BY <2>1
  <2> QED BY <1>2, <2>2, <2>3 DEF Proposed, ShortageTasks
<1> QED BY <1>1, <1>2

-----------------------------------------------------------------------------
(* The task list                                                           *)

RowsOf(k) == {i \in DOMAIN taskRows : taskRows[i].key = k}

\* StoreRow on a list with at most one row of the key: the list is as long or
\* one longer, has the row at one place, and is what it was everywhere else.
LEMMA StoredRow ==
  ASSUME taskRows \in Seq(TaskRows), NEW row \in TaskRows,
         \A i, j \in RowsOf(row.key) : i = j
  PROVE  /\ StoreRow(row) \in Seq(TaskRows)
         /\ \E p \in DOMAIN StoreRow(row) :
              /\ DOMAIN StoreRow(row) = DOMAIN taskRows \union {p}
              /\ StoreRow(row)[p] = row
              /\ RowsOf(row.key) \subseteq {p}
              /\ p \in DOMAIN taskRows => p \in RowsOf(row.key)
              /\ \A i \in DOMAIN taskRows : i # p => StoreRow(row)[i] = taskRows[i]
<1> DEFINE same == {i \in DOMAIN taskRows : taskRows[i].key = row.key}
<1>1. CASE same = {}
  <2>1. StoreRow(row) = Append(taskRows, row)
    BY <1>1 DEF StoreRow
  <2>2. /\ Append(taskRows, row) \in Seq(TaskRows)
        /\ DOMAIN Append(taskRows, row) = DOMAIN taskRows \union {Len(taskRows) + 1}
        /\ Len(taskRows) + 1 \notin DOMAIN taskRows
        /\ Append(taskRows, row)[Len(taskRows) + 1] = row
        /\ \A i \in DOMAIN taskRows : Append(taskRows, row)[i] = taskRows[i]
    OBVIOUS
  <2>3. RowsOf(row.key) = {}
    BY <1>1 DEF RowsOf
  <2> HIDE DEF same
  <2> QED BY <2>1, <2>2, <2>3
<1>2. CASE same # {}
  <2>1. PICK p \in same : same = {p}
    BY <1>2 DEF RowsOf
  <2>2. (CHOOSE i \in same : \A j \in same : i <= j) = p
    BY <2>1
  <2>3. StoreRow(row) = [taskRows EXCEPT ![p] = row]
    BY <1>2, <2>2 DEF StoreRow
  <2>4. [taskRows EXCEPT ![p] = row] \in Seq(TaskRows)
    BY <2>1
  <2>5. DOMAIN [taskRows EXCEPT ![p] = row] = DOMAIN taskRows
    OBVIOUS
  <2>6. RowsOf(row.key) = {p} /\ p \in DOMAIN taskRows
    BY <2>1 DEF RowsOf
  <2> HIDE DEF same
  <2> QED BY <2>3, <2>4, <2>5, <2>6
<1> QED BY <1>1, <1>2

-----------------------------------------------------------------------------
(* Types                                                                   *)

\* What one registration does, the shortages apart from the rest.
Reported(d)  == d.of \notin UnknownShortage
RowFor(d) == [key |-> Key(d), evidence |-> tasks'[Key(d)].seen.evidence,
              replays |-> tasks'[Key(d)].seen.replays, asOf |-> d.at]

LEMMA RegisterTyped ==
  ASSUME ReservationTypeOK, NEW d \in Detections, Register(d)
  PROVE  /\ detections' \in Seq(Detections)
         /\ proposals' \in [Keys -> Proposals \union {NoEntry}]
         /\ tasks' \in [Keys -> ShortageTasks \union {NoEntry}]
         /\ Reported(d) => RowFor(d) \in TaskRows
<1>1. Key(d) \in Keys
  BY KeyTyped
<1>2. detections' \in Seq(Detections)
  BY DEF ReservationTypeOK, Register
<1>3. CASE ~Reported(d)
  BY <1>2, <1>3 DEF ReservationTypeOK, Register, Reported
<1>4. CASE Reported(d)
  <2>1. proposals' = [proposals EXCEPT ![Key(d)] = Seen(@, d)]
    BY <1>4 DEF Register, Reported
  <2>2. proposals' \in [Keys -> Proposals \union {NoEntry}]
    BY <1>1, <2>1, SeenTyped DEF ReservationTypeOK
  <2>3. tasks' = [tasks EXCEPT ![Key(d)] = Proposed(@, d)]
    BY <1>4 DEF Register, Reported
  <2>4. tasks'[Key(d)] = Proposed(tasks[Key(d)], d) /\ tasks'[Key(d)] \in ShortageTasks
    BY <1>1, <2>3, ProposedTyped DEF ReservationTypeOK
  <2>5. tasks' \in [Keys -> ShortageTasks \union {NoEntry}]
    BY <1>1, <2>3, <2>4 DEF ReservationTypeOK
  <2>6. RowFor(d) \in TaskRows
    BY <1>1, <2>4 DEF RowFor, TaskRows, ShortageTasks, Proposals, Detections
  <2> QED BY <1>2, <2>2, <2>5, <2>6
<1> QED BY <1>3, <1>4

-----------------------------------------------------------------------------
(* The inductive invariant: for every key the detections, the task and the *)
(* rows agree.                                                             *)

\* The task of a key, if it has one, has seen all of its shortages.
TaskAgrees(k) ==
  IF tasks[k] = NoEntry THEN Shortages(k) = {}
  ELSE /\ Shortages(k) # {}
       /\ tasks[k].seen.evidence = {detections[j].at : j \in Shortages(k)}
       /\ tasks[k].seen.replays = Cardinality(Shortages(k)) - 1

\* It has one row, which shows what the task has seen.
RowAgrees(k) ==
  IF tasks[k] = NoEntry THEN RowsOf(k) = {}
  ELSE \E p \in RowsOf(k) : /\ RowsOf(k) = {p}
                            /\ taskRows[p].evidence = tasks[k].seen.evidence
                            /\ taskRows[p].replays = tasks[k].seen.replays

\* It began in the period of its key and is younger than the window.
AgeAgrees(k) ==
  tasks[k] # NoEntry => Period(tasks[k].seen.first) = k.period /\ tasks[k].aging < Window

ReservationInv ==
  /\ ReservationTypeOK
  /\ \A k \in Keys : TaskAgrees(k) /\ RowAgrees(k) /\ AgeAgrees(k)

-----------------------------------------------------------------------------
(* A registration changes the shortages of its own key only                *)

LEMMA ShortagesGrow ==
  ASSUME ReservationTypeOK, NEW d \in Detections, Register(d), NEW k \in Keys
  PROVE  /\ IsFiniteSet(Shortages(k))
         /\ \A j \in Shortages(k) : detections'[j] = detections[j]
         /\ Len(detections) + 1 \notin Shortages(k)
         /\ detections'[Len(detections) + 1] = d
         /\ Shortages(k)' = IF Reported(d) /\ Key(d) = k
                              THEN Shortages(k) \union {Len(detections) + 1} ELSE Shortages(k)
<1> DEFINE n == Len(detections) + 1
<1>1. /\ detections \in Seq(Detections)
      /\ detections' = Append(detections, d)
  BY DEF ReservationTypeOK, Register
<1>2. /\ DOMAIN detections = 1 .. Len(detections)
      /\ Len(detections) \in Nat
      /\ n \notin DOMAIN detections
      /\ DOMAIN detections' = DOMAIN detections \union {n}
      /\ detections'[n] = d
      /\ \A j \in DOMAIN detections : detections'[j] = detections[j]
  BY <1>1
<1>3. Shortages(k) \subseteq 1 .. Len(detections)
  BY <1>2 DEF Shortages
<1>4. IsFiniteSet(Shortages(k))
  <2>1. IsFiniteSet(1 .. Len(detections))
    BY <1>2, FS_Interval
  <2>2. Shortages(k) \in SUBSET (1 .. Len(detections))
    BY <1>3
  <2> QED BY <2>1, <2>2, FS_Subset, Zenon
<1>5. n \notin Shortages(k)
  BY <1>2, <1>3
<1>6. Shortages(k)' =
        {i \in DOMAIN detections' : detections'[i].of \notin UnknownShortage /\ Key(detections'[i]) = k}
  BY DEF Shortages
<1> HIDE DEF n
<1>7. CASE Reported(d) /\ Key(d) = k
  <2>1. Shortages(k)' = Shortages(k) \union {n}
    BY <1>2, <1>6, <1>7 DEF Shortages, Reported
  <2> QED BY <1>2, <1>3, <1>4, <1>5, <1>7, <2>1 DEF n
<1>8. CASE ~(Reported(d) /\ Key(d) = k)
  <2>1. Shortages(k)' = Shortages(k)
    BY <1>2, <1>6, <1>8 DEF Shortages, Reported
  <2> QED BY <1>2, <1>3, <1>4, <1>5, <1>8, <2>1 DEF n
<1> QED BY <1>7, <1>8

\* The row of a reported detection is where StoredRow says.
LEMMA RegisteredRow ==
  ASSUME ReservationInv, NEW d \in Detections, Register(d), Reported(d)
  PROVE  \E p \in DOMAIN taskRows' :
           /\ DOMAIN taskRows' = DOMAIN taskRows \union {p}
           /\ taskRows'[p] = RowFor(d)
           /\ RowsOf(Key(d)) \subseteq {p}
           /\ p \in DOMAIN taskRows => p \in RowsOf(Key(d))
           /\ \A i \in DOMAIN taskRows : i # p => taskRows'[i] = taskRows[i]
<1>1. RowFor(d) \in TaskRows /\ RowFor(d).key = Key(d)
  BY RegisterTyped DEF ReservationInv, RowFor
<1>2. taskRows' = StoreRow(RowFor(d))
  BY DEF Register, Reported, RowFor
<1>3. \A i, j \in RowsOf(Key(d)) : i = j
  BY KeyTyped DEF ReservationInv, RowAgrees
<1>4. PICK row \in TaskRows : row = RowFor(d)
  BY <1>1
<1>5. \A i, j \in RowsOf(row.key) : i = j
  BY <1>1, <1>3, <1>4
<1>6. taskRows \in Seq(TaskRows)
  BY DEF ReservationInv, ReservationTypeOK
<1>7. \E p \in DOMAIN StoreRow(row) :
        /\ DOMAIN StoreRow(row) = DOMAIN taskRows \union {p}
        /\ StoreRow(row)[p] = row
        /\ RowsOf(row.key) \subseteq {p}
        /\ p \in DOMAIN taskRows => p \in RowsOf(row.key)
        /\ \A i \in DOMAIN taskRows : i # p => StoreRow(row)[i] = taskRows[i]
  BY <1>5, <1>6, StoredRow
<1> QED BY <1>1, <1>2, <1>4, <1>7

\* A key that the detection is not reported under stays as it is.
LEMMA OtherKeysStay ==
  ASSUME ReservationInv, NEW d \in Detections, Register(d), NEW k \in Keys,
         ~(Reported(d) /\ Key(d) = k)
  PROVE  TaskAgrees(k)' /\ RowAgrees(k)' /\ AgeAgrees(k)'
<1>1. ReservationTypeOK /\ TaskAgrees(k) /\ RowAgrees(k) /\ AgeAgrees(k)
  BY DEF ReservationInv
<1>2. Shortages(k)' = Shortages(k) /\ \A j \in Shortages(k) : detections'[j] = detections[j]
  BY <1>1, ShortagesGrow
<1>3. {detections'[j].at : j \in Shortages(k)'} = {detections[j].at : j \in Shortages(k)}
  BY <1>2
<1>4. tasks'[k] = tasks[k]
  BY <1>1, KeyTyped DEF Register, Reported, ReservationTypeOK
<1>5. RowsOf(k)' = RowsOf(k) /\ \A i \in RowsOf(k) : taskRows'[i] = taskRows[i]
  <2>1. CASE ~Reported(d)
    BY <2>1 DEF Register, Reported, RowsOf
  <2>2. CASE Reported(d)
    <3>1. Key(d) # k /\ Key(d) \in Keys
      BY <2>2, KeyTyped
    <3>2. RowFor(d) \in TaskRows /\ RowFor(d).key = Key(d)
      BY <1>1, <2>2, RegisterTyped DEF RowFor
    <3>3. PICK p \in DOMAIN taskRows' :
            /\ DOMAIN taskRows' = DOMAIN taskRows \union {p}
            /\ taskRows'[p] = RowFor(d)
            /\ p \in DOMAIN taskRows => p \in RowsOf(Key(d))
            /\ \A i \in DOMAIN taskRows : i # p => taskRows'[i] = taskRows[i]
      BY <2>2, RegisteredRow
    <3> QED BY <3>1, <3>2, <3>3 DEF RowsOf
  <2> QED BY <2>1, <2>2
<1> QED BY <1>1, <1>2, <1>3, <1>4, <1>5 DEF TaskAgrees, RowAgrees, AgeAgrees

\* The key it is reported under has one shortage more, and so has its task.
LEMMA ReportedKeyAgrees ==
  ASSUME ReservationInv, NEW d \in Detections, Register(d), Reported(d)
  PROVE  TaskAgrees(Key(d))' /\ RowAgrees(Key(d))' /\ AgeAgrees(Key(d))'
<1> DEFINE k == Key(d)
           n == Len(detections) + 1
           old == tasks[k]
           new == Proposed(old, d)
<1>1. k \in Keys /\ k.period = Period(d.at)
  BY KeyTyped DEF Key
<1>2. ReservationTypeOK /\ TaskAgrees(k) /\ RowAgrees(k) /\ AgeAgrees(k)
  BY <1>1 DEF ReservationInv
<1>3. /\ Shortages(k)' = Shortages(k) \union {n}
      /\ n \notin Shortages(k) /\ IsFiniteSet(Shortages(k))
      /\ detections'[n] = d
      /\ \A j \in Shortages(k) : detections'[j] = detections[j]
  BY <1>1, <1>2, ShortagesGrow
<1>4. tasks'[k] = new /\ new \in ShortageTasks /\ new # NoEntry /\ old \in ShortageTasks \union {NoEntry}
  BY <1>1, <1>2, ProposedTyped, WindowAssumption DEF Register, Reported, ReservationTypeOK
<1>5. TaskAgrees(k)'
  <2>1. Shortages(k)' # {}
    BY <1>3
  <2>2. {detections'[j].at : j \in Shortages(k)'} = {detections[j].at : j \in Shortages(k)} \union {d.at}
    BY <1>3
  <2>3. /\ Cardinality(Shortages(k)') = Cardinality(Shortages(k)) + 1
        /\ Cardinality(Shortages(k)) \in Nat
    BY <1>3, FS_AddElement, FS_CardinalityType
  <2>4. CASE old = NoEntry
    <3>1. Shortages(k) = {} /\ Cardinality(Shortages(k)) = 0
      BY <1>2, <2>4, FS_EmptySet DEF TaskAgrees
    <3>2. new.seen.evidence = {d.at} /\ new.seen.replays = 0
      BY <2>4 DEF Proposed, Seen
    <3>3. {detections'[j].at : j \in Shortages(k)'} = {d.at}
      BY <2>2, <3>1
    <3>4. Cardinality(Shortages(k)') - 1 = 0
      BY <2>3, <3>1
    <3> QED BY <1>4, <2>1, <3>2, <3>3, <3>4 DEF TaskAgrees
  <2>5. CASE old # NoEntry
    <3>1. old.seen \in Proposals /\ old.seen # NoEntry
      BY <1>4, <2>5, WindowAssumption DEF ShortageTasks
    <3>2. /\ new.seen.evidence = old.seen.evidence \union {d.at}
          /\ new.seen.replays = old.seen.replays + 1
      BY <2>5, <3>1 DEF Proposed, Seen, Proposals
    <3>3. /\ old.seen.evidence = {detections[j].at : j \in Shortages(k)}
          /\ old.seen.replays = Cardinality(Shortages(k)) - 1
      BY <1>2, <2>5 DEF TaskAgrees
    <3>4. new.seen.replays = Cardinality(Shortages(k)') - 1
      BY <2>3, <3>2, <3>3
    <3> QED BY <1>4, <2>1, <2>2, <3>2, <3>3, <3>4 DEF TaskAgrees
  <2> QED BY <2>4, <2>5
<1>6. RowAgrees(k)'
  <2>1. RowFor(d) \in TaskRows /\ RowFor(d).key = k
    BY <1>2, RegisterTyped DEF RowFor
  <2>2. PICK p \in DOMAIN taskRows' :
          /\ DOMAIN taskRows' = DOMAIN taskRows \union {p}
          /\ taskRows'[p] = RowFor(d)
          /\ RowsOf(k) \subseteq {p}
          /\ \A i \in DOMAIN taskRows : i # p => taskRows'[i] = taskRows[i]
    BY RegisteredRow
  <2>3. RowsOf(k)' = {p}
    BY <2>1, <2>2 DEF RowsOf
  <2>4. /\ taskRows'[p].evidence = tasks'[k].seen.evidence
        /\ taskRows'[p].replays = tasks'[k].seen.replays
    BY <2>2 DEF RowFor
  <2> QED BY <1>4, <2>3, <2>4 DEF RowAgrees
<1>7. AgeAgrees(k)'
  <2>0. Window \in Nat \ {0} /\ d.at \in Nat
    BY WindowAssumption DEF Detections
  <2>1. CASE old = NoEntry
    <3>1. new.seen.first = d.at /\ new.aging = 0
      BY <2>1 DEF Proposed, Seen
    <3> QED BY <1>1, <1>4, <2>0, <3>1 DEF AgeAgrees
  <2>2. CASE old # NoEntry
    <3>1. old.seen \in Proposals /\ old.seen # NoEntry /\ old.seen.first \in Nat
      BY <1>4, <2>2, WindowAssumption DEF ShortageTasks, Proposals
    <3>2. new.seen.first = old.seen.first
      BY <2>2, <3>1 DEF Proposed, Seen, Proposals
    <3>3. new.aging = IF d.at > old.seen.first THEN d.at - old.seen.first ELSE 0
      BY <2>2 DEF Proposed
    <3>4. old.seen.first \div Window = d.at \div Window
      BY <1>1, <1>2, <2>2 DEF AgeAgrees, Period
    <3>5. new.aging < Window
      <4>1. CASE d.at > old.seen.first
        <5>1. d.at - old.seen.first < Window
          BY <2>0, <3>1, <3>4, <4>1, PeriodIsShort
        <5> QED BY <3>3, <4>1, <5>1
      <4>2. CASE ~(d.at > old.seen.first)
        BY <2>0, <3>3, <4>2
      <4> QED BY <4>1, <4>2
    <3> QED BY <1>1, <1>2, <1>4, <2>2, <3>2, <3>5 DEF AgeAgrees
  <2> QED BY <2>1, <2>2
<1> QED BY <1>5, <1>6, <1>7

\* A registration keeps the invariant; what it leaves to its caller is the seed.
LEMMA RegisterKeeps ==
  ASSUME ReservationInv, NEW d \in Detections, Register(d), seed' \in 0 .. Len(Seeds)
  PROVE  ReservationInv'
<1>1. ReservationTypeOK'
  <2>1. ReservationTypeOK
    BY DEF ReservationInv
  <2>2. taskRows' \in Seq(TaskRows)
    <3>1. CASE ~Reported(d)
      BY <2>1, <3>1 DEF Register, Reported, ReservationTypeOK
    <3>2. CASE Reported(d)
      <4>1. PICK row \in TaskRows : row = RowFor(d)
        BY <2>1, <3>2, RegisterTyped
      <4>2. \A i, j \in RowsOf(row.key) : i = j
        BY <4>1, KeyTyped DEF ReservationInv, RowAgrees, RowFor
      <4>3. StoreRow(row) \in Seq(TaskRows)
        BY <2>1, <4>2, StoredRow DEF ReservationTypeOK
      <4>4. taskRows' = StoreRow(row)
        BY <3>2, <4>1 DEF Register, Reported, RowFor
      <4> QED BY <4>3, <4>4
    <3> QED BY <3>1, <3>2
  <2> QED BY <2>1, <2>2, RegisterTyped DEF ReservationTypeOK
<1>2. ASSUME NEW k \in Keys
      PROVE  TaskAgrees(k)' /\ RowAgrees(k)' /\ AgeAgrees(k)'
  BY OtherKeysStay, ReportedKeyAgrees
<1> QED BY <1>1, <1>2 DEF ReservationInv

\* So does a step that touches only the preparation's place.
LEMMA SeedStepKeeps ==
  ASSUME ReservationInv, UNCHANGED <<detections, proposals, tasks, taskRows>>, seed' \in 0 .. Len(Seeds)
  PROVE  ReservationInv'
<1>1. ReservationTypeOK'
  BY DEF ReservationInv, ReservationTypeOK
<1>2. ASSUME NEW k \in Keys
      PROVE  TaskAgrees(k)' /\ RowAgrees(k)' /\ AgeAgrees(k)'
  <2>1. TaskAgrees(k) /\ RowAgrees(k) /\ AgeAgrees(k)
    BY DEF ReservationInv
  <2>2. Shortages(k)' = Shortages(k) /\ RowsOf(k)' = RowsOf(k)
    BY DEF Shortages, RowsOf
  <2>3. TaskAgrees(k)'
    BY <2>1, <2>2 DEF TaskAgrees
  <2>4. RowAgrees(k)' /\ AgeAgrees(k)'
    BY <2>1, <2>2 DEF RowAgrees, AgeAgrees
  <2> QED BY <2>3, <2>4
<1> QED BY <1>1, <1>2 DEF ReservationInv

-----------------------------------------------------------------------------
(* Theorems                                                                *)

LEMMA ReservationInitially == ReservationInit => ReservationInv
<1> SUFFICES ASSUME ReservationInit PROVE ReservationInv
  OBVIOUS
<1>1. Len(Seeds) \in Nat
  BY WindowAssumption
<1>2. ReservationTypeOK
  BY <1>1 DEF ReservationInit, ReservationTypeOK
<1>3. \A k \in Keys : tasks[k] = NoEntry /\ Shortages(k) = {} /\ RowsOf(k) = {}
  BY DEF ReservationInit, Shortages, RowsOf
<1> QED BY <1>2, <1>3 DEF ReservationInv, TaskAgrees, RowAgrees, AgeAgrees

LEMMA ReservationStep ==
  ASSUME ReservationInv, [ReservationNext]_reservationVars
  PROVE  ReservationInv'
<1>0. seed \in 0 .. Len(Seeds) /\ Len(Seeds) \in Nat
  BY WindowAssumption DEF ReservationInv, ReservationTypeOK
<1>1. CASE RegisterShortage
  <2>1. PICK r \in Reservations, h \in Hours : Register([of |-> r, at |-> h, demo |-> FALSE])
    BY <1>1 DEF RegisterShortage
  <2>2. [of |-> r, at |-> h, demo |-> FALSE] \in Detections
    BY DEF Detections
  <2>3. seed' \in 0 .. Len(Seeds)
    BY <1>0, <1>1 DEF RegisterShortage
  <2> QED BY <2>1, <2>2, <2>3, RegisterKeeps
<1>2. CASE TakePrepareLock
  <2>1. seed' \in 0 .. Len(Seeds)
    BY <1>0, <1>2, WindowAssumption DEF TakePrepareLock
  <2> QED BY <1>2, <2>1, SeedStepKeeps DEF TakePrepareLock
<1>3. CASE PrepareSeed
  <2>1. PICK h \in Hours : Register([of |-> Seeds[seed], at |-> h, demo |-> TRUE])
    BY <1>3 DEF PrepareSeed
  <2>2. Seeds[seed] \in Reservations
    BY <1>0, <1>3, WindowAssumption DEF PrepareSeed
  <2>3. [of |-> Seeds[seed], at |-> h, demo |-> TRUE] \in Detections
    BY <2>2 DEF Detections
  <2>4. seed' \in 0 .. Len(Seeds)
    BY <1>0, <1>3 DEF PrepareSeed, NextSeed
  <2> QED BY <2>1, <2>3, <2>4, RegisterKeeps
<1>4. CASE PreparedBefore
  <2>1. seed' \in 0 .. Len(Seeds)
    BY <1>0, <1>4 DEF PreparedBefore, NextSeed
  <2> QED BY <1>4, <2>1, SeedStepKeeps DEF PreparedBefore
<1>5. CASE SeedConflict
  <2>1. seed' \in 0 .. Len(Seeds)
    BY <1>0, <1>5 DEF SeedConflict
  <2> QED BY <1>5, <2>1, SeedStepKeeps DEF SeedConflict
<1>6. CASE UNCHANGED reservationVars
  <2>1. seed' \in 0 .. Len(Seeds)
    BY <1>0, <1>6 DEF reservationVars
  <2> QED BY <1>6, <2>1, SeedStepKeeps DEF reservationVars
<1> QED BY <1>1, <1>2, <1>3, <1>4, <1>5, <1>6 DEF ReservationNext

THEOREM ReservationInvariance == ReservationSpec => []ReservationInv
<1>1. ReservationInit => ReservationInv
  BY ReservationInitially
<1>2. ReservationInv /\ [ReservationNext]_reservationVars => ReservationInv'
  BY ReservationStep
<1> QED BY <1>1, <1>2, PTL DEF ReservationSpec

\* Every state of the services is typed: detections, proposals, tasks, rows.
THEOREM ReservationTypeCorrect == ReservationSpec => []ReservationTypeOK
<1>1. ReservationInv => ReservationTypeOK
  BY DEF ReservationInv
<1> QED BY <1>1, ReservationInvariance, PTL

\* One row for each reservation and period with a shortage, nothing that was
\* detected in it is missing from the row, for any order of detections, and no
\* task lives to the length of the window, whatever it is, so that with 24 hours
\* or less none ever rises above the priority it began with.
THEOREM RowsCurrent == ReservationSpec => []TaskRowsAreCurrent
<1>1. ReservationInv => RowsKnowDetections
  <2> SUFFICES ASSUME ReservationInv, NEW k \in Keys
               PROVE  /\ Cardinality(RowsOf(k)) = IF Shortages(k) = {} THEN 0 ELSE 1
                      /\ \A i \in RowsOf(k) :
                           /\ taskRows[i].evidence = {detections[j].at : j \in Shortages(k)}
                           /\ taskRows[i].replays = Cardinality(Shortages(k)) - 1
    BY DEF RowsKnowDetections, RowsOf
  <2>1. TaskAgrees(k) /\ RowAgrees(k)
    BY DEF ReservationInv
  <2>2. CASE tasks[k] = NoEntry
    BY <2>1, <2>2, FS_EmptySet DEF TaskAgrees, RowAgrees
  <2>3. CASE tasks[k] # NoEntry
    <3>1. PICK p \in RowsOf(k) : /\ RowsOf(k) = {p}
                                /\ taskRows[p].evidence = tasks[k].seen.evidence
                                /\ taskRows[p].replays = tasks[k].seen.replays
      BY <2>1, <2>3 DEF RowAgrees
    <3>2. Cardinality(RowsOf(k)) = 1
      BY <3>1, FS_Singleton
    <3> QED BY <2>1, <2>3, <3>1, <3>2 DEF TaskAgrees
  <2> QED BY <2>2, <2>3
<1>2. ReservationInv => AgingStaysInPeriod
  <2> SUFFICES ASSUME ReservationInv, NEW k \in Keys, tasks[k] # NoEntry
               PROVE  /\ tasks[k].aging < Window
                      /\ Window <= 24 => Priority(tasks[k].aging) = 30
    BY DEF AgingStaysInPeriod
  <2>1. tasks[k].aging < Window
    BY DEF ReservationInv, AgeAgrees
  <2>2. tasks[k].aging \in Nat /\ Window \in Nat
    BY WindowAssumption DEF ReservationInv, ReservationTypeOK, ShortageTasks
  <2>3. Window <= 24 => Priority(tasks[k].aging) = 30
    BY <2>1, <2>2 DEF Priority
  <2> QED BY <2>1, <2>3
<1>3. ReservationInv => TaskRowsAreCurrent
  BY <1>1, <1>2 DEF TaskRowsAreCurrent
<1> QED BY <1>3, ReservationInvariance, PTL


-----------------------------------------------------------------------------
(* Sums over finite sets                                                   *)

\* Some set of a family of parts of a finite set has no smaller one in it.
LEMMA SmallestPart ==
  ASSUME NEW S, IsFiniteSet(S), NEW C \in SUBSET SUBSET S, C # {}
  PROVE  \E s \in C : \A t \in C : t \subseteq s => t = s
<1>1. IsWellFoundedOn(StrictSubsetOrdering(S), SUBSET S)
  BY FS_StrictSubsetOrderingWellFounded, FS_FiniteSubsetsOfFinite
<1>2. PICK R : R = StrictSubsetOrdering(S) OBVIOUS
<1>3. PICK s \in C : \A t \in C : ~(<<t, s>> \in R) BY <1>1, <1>2, WFMin
<1>4. ASSUME NEW t \in C, t \subseteq s, t # s PROVE FALSE
  <2>1. <<t, s>> \in (SUBSET S) \X (SUBSET S) OBVIOUS
  <2>2. <<t, s>> \in R BY <1>2, <1>4, <2>1 DEF StrictSubsetOrdering
  <2>3. QED BY <1>3, <2>2
<1>5. QED BY <1>4

\* g is the fold that adds up f over the parts of S, an element at a time.
Picked(s)       == CHOOSE x \in s : TRUE
Adding(f, S, g) == g = [s \in SUBSET S |-> IF s = {} THEN 0 ELSE f[Picked(s)] + g[s \ {Picked(s)}]]

LEMMA PickedIsIn == ASSUME NEW s, s # {} PROVE Picked(s) \in s
  BY DEF Picked

LEMMA AddingIsOne ==
  ASSUME NEW S, IsFiniteSet(S), NEW T \in SUBSET S, NEW f, NEW g, NEW h, Adding(f, S, g), Adding(f, T, h),
         NEW s \in SUBSET T
  PROVE  g[s] = h[s]
<1> DEFINE Bad == {t \in SUBSET T : g[t] # h[t]}
<1>1. SUFFICES ASSUME Bad # {} PROVE FALSE OBVIOUS
<1>2. Bad \in SUBSET SUBSET S OBVIOUS
<1>3. PICK t \in Bad : \A u \in Bad : u \subseteq t => u = t
  <2> HIDE DEF Bad
  <2> QED BY <1>1, <1>2, SmallestPart
<1>4. t \in SUBSET T /\ t \in SUBSET S /\ g[t] # h[t] OBVIOUS
<1>5. /\ g[t] = IF t = {} THEN 0 ELSE f[Picked(t)] + g[t \ {Picked(t)}]
      /\ h[t] = IF t = {} THEN 0 ELSE f[Picked(t)] + h[t \ {Picked(t)}]
  BY <1>4 DEF Adding
<1>6. t # {} BY <1>4, <1>5
<1>7. Picked(t) \in t BY <1>6, PickedIsIn
<1>8. PICK u : u = t \ {Picked(t)} OBVIOUS
<1>9. u \in SUBSET T /\ u \subseteq t /\ u # t BY <1>4, <1>7, <1>8
<1>10. g[u] = h[u] BY <1>3, <1>9
<1> QED BY <1>4, <1>5, <1>6, <1>8, <1>10

LEMMA SumIsAdding ==
  ASSUME NEW f, NEW S
  PROVE  SumFunctionOnSet(f, S) = (CHOOSE g : Adding(f, S, g))[S]
  BY DEF SumFunctionOnSet, FoldFunctionOnSet, MapThenFoldSet, Adding, Picked

LEMMA AddingExists ==
  ASSUME NEW S, IsFiniteSet(S), NEW f
  PROVE  \E g : Adding(f, S, g)
<1> DEFINE Bad == {T \in SUBSET S : ~\E g : Adding(f, T, g)}
<1>1. SUFFICES ASSUME Bad # {} PROVE FALSE OBVIOUS
<1>2. PICK T \in Bad : \A u \in Bad : u \subseteq T => u = T
  <2>1. Bad \in SUBSET SUBSET S OBVIOUS
  <2> HIDE DEF Bad
  <2> QED BY <1>1, <2>1, SmallestPart
<1> DEFINE G(s) == CHOOSE g : Adding(f, s, g)
           V(s) == G(s)[s]
           h    == [s \in SUBSET T |-> IF s = {} THEN 0 ELSE f[Picked(s)] + V(s \ {Picked(s)})]
<1>3. T \in SUBSET S /\ ~\E g : Adding(f, T, g) OBVIOUS
<1>4. ASSUME NEW s \in SUBSET T, s # T PROVE Adding(f, s, G(s))
  <2>1. \E g : Adding(f, s, g) BY <1>2, <1>3, <1>4
  <2> QED BY <2>1
<1>5. ASSUME NEW u \in SUBSET T, u # T PROVE h[u] = V(u)
  <2>1. PICK g : g = G(u) OBVIOUS
  <2>2. Adding(f, u, g) /\ V(u) = g[u] BY <1>4, <1>5, <2>1
  <2>3. u \in SUBSET u OBVIOUS
  <2>4. g[u] = IF u = {} THEN 0 ELSE f[Picked(u)] + g[u \ {Picked(u)}] BY <2>2, <2>3 DEF Adding
  <2>5. CASE u = {} BY <2>2, <2>4, <2>5
  <2>6. CASE u # {}
    <3>1. PICK w : w = u \ {Picked(u)} OBVIOUS
    <3>2. Picked(u) \in u BY <2>6, PickedIsIn
    <3>3. w \in SUBSET u /\ w \in SUBSET T /\ w # T BY <1>5, <3>1, <3>2
    <3>4. PICK k : k = G(w) OBVIOUS
    <3>5. Adding(f, w, k) /\ V(w) = k[w] BY <1>4, <3>3, <3>4
    <3>6. IsFiniteSet(u) BY <1>3, FS_Subset
    <3>7. w \in SUBSET w OBVIOUS
    <3>8. g[w] = k[w] BY <2>2, <3>3, <3>5, <3>6, <3>7, AddingIsOne
    <3>9. h[u] = f[Picked(u)] + V(w) BY <1>5, <2>6, <3>1
    <3>10. g[u] = f[Picked(u)] + g[w] BY <2>4, <2>6, <3>1
    <3> HIDE DEF h, V, G
    <3> QED BY <2>2, <3>5, <3>8, <3>9, <3>10
  <2> QED BY <2>5, <2>6
<1>6. ASSUME NEW s \in SUBSET T
      PROVE  h[s] = IF s = {} THEN 0 ELSE f[Picked(s)] + h[s \ {Picked(s)}]
  <2>1. CASE s = {} BY <2>1
  <2>2. CASE s # {}
    <3>1. PICK u : u = s \ {Picked(s)} OBVIOUS
    <3>2. Picked(s) \in s BY <2>2, PickedIsIn
    <3>3. u \in SUBSET T /\ u # T BY <1>6, <3>1, <3>2
    <3>4. h[u] = V(u) BY <1>5, <3>3
    <3>5. h[s] = f[Picked(s)] + V(u) BY <1>6, <2>2, <3>1
    <3> HIDE DEF h, V
    <3> QED BY <2>2, <3>1, <3>4, <3>5
  <2> QED BY <2>1, <2>2
<1>7. h = [s \in SUBSET T |-> IF s = {} THEN 0 ELSE f[Picked(s)] + h[s \ {Picked(s)}]]
  <2> DEFINE k == [s \in SUBSET T |-> IF s = {} THEN 0 ELSE f[Picked(s)] + h[s \ {Picked(s)}]]
  <2>1. h = [s \in SUBSET T |-> h[s]] OBVIOUS
  <2>2. \A s \in SUBSET T : h[s] = k[s]
    <3> HIDE DEF h
    <3> QED BY <1>6
  <2>3. k = [s \in SUBSET T |-> k[s]] BY DEF k
  <2> HIDE DEF h, k
  <2>4. h = k BY <2>1, <2>2, <2>3
  <2> QED BY <2>4 DEF k
<1>8. Adding(f, T, h)
  <2> HIDE DEF h
  <2> QED BY <1>7 DEF Adding
<1> HIDE DEF h
<1> QED BY <1>3, <1>8

LEMMA SumIsFound ==
  ASSUME NEW S, IsFiniteSet(S), NEW f
  PROVE  \E g : Adding(f, S, g) /\ \A T \in SUBSET S : SumFunctionOnSet(f, T) = g[T]
<1>1. PICK g : Adding(f, S, g) BY AddingExists
<1>2. ASSUME NEW T \in SUBSET S PROVE SumFunctionOnSet(f, T) = g[T]
  <2>1. IsFiniteSet(T) BY FS_Subset
  <2>2. PICK h : h = CHOOSE k : Adding(f, T, k) OBVIOUS
  <2>3. Adding(f, T, h) BY <2>1, <2>2, AddingExists
  <2>4. T \in SUBSET T OBVIOUS
  <2>5. g[T] = h[T] BY <1>1, <2>3, <2>4, AddingIsOne
  <2> QED BY <2>2, <2>5, SumIsAdding
<1> QED BY <1>1, <1>2

LEMMA SumOfNothing == ASSUME NEW f PROVE SumFunctionOnSet(f, {}) = 0
<1>1. IsFiniteSet({}) BY FS_EmptySet
<1>2. PICK g : Adding(f, {}, g) /\ SumFunctionOnSet(f, {}) = g[{}] BY <1>1, SumIsFound
<1> QED BY <1>2 DEF Adding

\* One element after the other: the one the fold takes first ...
LEMMA SumTakesPicked ==
  ASSUME NEW S, IsFiniteSet(S), S # {}, NEW f
  PROVE  SumFunctionOnSet(f, S) = f[Picked(S)] + SumFunctionOnSet(f, S \ {Picked(S)})
<1>1. PICK g : Adding(f, S, g) /\ \A T \in SUBSET S : SumFunctionOnSet(f, T) = g[T] BY SumIsFound
<1>2. S \in SUBSET S /\ S \ {Picked(S)} \in SUBSET S OBVIOUS
<1>3. g[S] = f[Picked(S)] + g[S \ {Picked(S)}] BY <1>1, <1>2 DEF Adding
<1> QED BY <1>1, <1>2, <1>3

LEMMA SumIsNumber ==
  ASSUME NEW S, IsFiniteSet(S), NEW f, \A x \in S : f[x] \in Nat
  PROVE  SumFunctionOnSet(f, S) \in Nat
<1> DEFINE Bad == {T \in SUBSET S : SumFunctionOnSet(f, T) \notin Nat}
<1>1. SUFFICES ASSUME Bad # {} PROVE FALSE OBVIOUS
<1>2. PICK T \in Bad : \A u \in Bad : u \subseteq T => u = T
  <2>1. Bad \in SUBSET SUBSET S OBVIOUS
  <2> HIDE DEF Bad
  <2> QED BY <1>1, <2>1, SmallestPart
<1>3. T \in SUBSET S /\ SumFunctionOnSet(f, T) \notin Nat /\ IsFiniteSet(T) BY FS_Subset
<1>4. T # {} BY <1>3, SumOfNothing
<1>5. Picked(T) \in T BY <1>4, PickedIsIn
<1>6. PICK u : u = T \ {Picked(T)} OBVIOUS
<1>7. SumFunctionOnSet(f, u) \in Nat BY <1>2, <1>3, <1>5, <1>6
<1>8. SumFunctionOnSet(f, T) = f[Picked(T)] + SumFunctionOnSet(f, u) BY <1>3, <1>4, <1>6, SumTakesPicked
<1>9. f[Picked(T)] \in Nat BY <1>3, <1>5
<1> QED BY <1>3, <1>7, <1>8, <1>9

\* ... and so any other one.
LEMMA SumTakesAny ==
  ASSUME NEW S, IsFiniteSet(S), NEW f, \A x \in S : f[x] \in Nat, NEW y \in S
  PROVE  SumFunctionOnSet(f, S) = f[y] + SumFunctionOnSet(f, S \ {y})
<1> DEFINE Bad == {T \in SUBSET S : \E x \in T : SumFunctionOnSet(f, T) # f[x] + SumFunctionOnSet(f, T \ {x})}
<1>1. SUFFICES ASSUME Bad # {} PROVE FALSE OBVIOUS
<1>2. PICK T \in Bad : \A u \in Bad : u \subseteq T => u = T
  <2>1. Bad \in SUBSET SUBSET S OBVIOUS
  <2> HIDE DEF Bad
  <2> QED BY <1>1, <2>1, SmallestPart
<1>3. PICK x \in T : SumFunctionOnSet(f, T) # f[x] + SumFunctionOnSet(f, T \ {x}) OBVIOUS
<1>4. T \in SUBSET S /\ IsFiniteSet(T) BY FS_Subset
<1>5. PICK c : c = Picked(T) OBVIOUS
<1>6. c \in T BY <1>3, <1>5, PickedIsIn
<1>7. SumFunctionOnSet(f, T) = f[c] + SumFunctionOnSet(f, T \ {c}) BY <1>3, <1>4, <1>5, SumTakesPicked
<1>8. x # c BY <1>3, <1>7
<1>9. PICK A, B, D : A = T \ {c} /\ B = T \ {x} /\ D = T \ {c, x} OBVIOUS
<1>10. A \notin Bad /\ B \notin Bad BY <1>2, <1>3, <1>6, <1>9
<1>11. A \in SUBSET S /\ B \in SUBSET S /\ x \in A /\ c \in B /\ A \ {x} = D /\ B \ {c} = D
  BY <1>3, <1>4, <1>6, <1>8, <1>9
<1>12. /\ SumFunctionOnSet(f, A) = f[x] + SumFunctionOnSet(f, A \ {x})
       /\ SumFunctionOnSet(f, B) = f[c] + SumFunctionOnSet(f, B \ {c})
  BY <1>10, <1>11
<1>13. IsFiniteSet(D) /\ \A z \in D : f[z] \in Nat BY <1>4, <1>9, FS_Subset
<1>14. SumFunctionOnSet(f, D) \in Nat BY <1>13, SumIsNumber
<1>15. f[x] \in Nat /\ f[c] \in Nat BY <1>4, <1>6
<1> HIDE DEF Bad
<1>16. PICK a, b, d, s : /\ a = SumFunctionOnSet(f, A) /\ b = SumFunctionOnSet(f, B)
                         /\ d = SumFunctionOnSet(f, D) /\ s = SumFunctionOnSet(f, T) OBVIOUS
<1>17. a = f[x] + d /\ b = f[c] + d /\ s = f[c] + a /\ s # f[x] + b
  BY <1>3, <1>7, <1>9, <1>11, <1>12, <1>16
<1> QED BY <1>14, <1>15, <1>16, <1>17

LEMMA SumGrows ==
  ASSUME NEW S, IsFiniteSet(S), NEW f, NEW y, y \notin S, \A x \in S \union {y} : f[x] \in Nat
  PROVE  SumFunctionOnSet(f, S \union {y}) = SumFunctionOnSet(f, S) + f[y]
<1>1. PICK T : T = S \union {y} OBVIOUS
<1>2. IsFiniteSet(T) /\ y \in T /\ T \ {y} = S BY <1>1, FS_AddElement
<1>3. SumFunctionOnSet(f, T) = f[y] + SumFunctionOnSet(f, T \ {y}) BY <1>1, <1>2, SumTakesAny
<1>4. SumFunctionOnSet(f, S) \in Nat /\ f[y] \in Nat BY SumIsNumber
<1> QED BY <1>1, <1>2, <1>3, <1>4

LEMMA SumsAgree ==
  ASSUME NEW S, IsFiniteSet(S), NEW f, NEW g, \A x \in S : f[x] = g[x]
  PROVE  SumFunctionOnSet(f, S) = SumFunctionOnSet(g, S)
<1> DEFINE Bad == {T \in SUBSET S : SumFunctionOnSet(f, T) # SumFunctionOnSet(g, T)}
<1>1. SUFFICES ASSUME Bad # {} PROVE FALSE OBVIOUS
<1>2. PICK T \in Bad : \A u \in Bad : u \subseteq T => u = T
  <2>1. Bad \in SUBSET SUBSET S OBVIOUS
  <2> HIDE DEF Bad
  <2> QED BY <1>1, <2>1, SmallestPart
<1>3. T \in SUBSET S /\ SumFunctionOnSet(f, T) # SumFunctionOnSet(g, T) /\ IsFiniteSet(T) BY FS_Subset
<1>4. T # {} BY <1>3, SumOfNothing
<1>5. Picked(T) \in T BY <1>4, PickedIsIn
<1>6. PICK u : u = T \ {Picked(T)} OBVIOUS
<1>7. SumFunctionOnSet(f, u) = SumFunctionOnSet(g, u) BY <1>2, <1>3, <1>5, <1>6
<1>8. /\ SumFunctionOnSet(f, T) = f[Picked(T)] + SumFunctionOnSet(f, u)
      /\ SumFunctionOnSet(g, T) = g[Picked(T)] + SumFunctionOnSet(g, u)
  BY <1>3, <1>4, <1>6, SumTakesPicked
<1> QED BY <1>3, <1>5, <1>7, <1>8


-----------------------------------------------------------------------------
(* ShortageProjection: the inductive invariant                             *)

KnownLines(k)   == {i \in CountedFor(k) : Asks(lineOf[i]) # Unknown}
KnownDeliveries == {d \in TrustedDeliveries : ~NoQuantity(d)}

\* A bucket holds what the lines counted for it ask for, as far as it is known.
BucketIsSum(k) ==
  /\ aggregate[k].quantity = SumFunctionOnSet(Asked, KnownLines(k))
  /\ aggregate[k].unknown <=> \E i \in CountedFor(k) : Asks(lineOf[i]) = Unknown

\* Every line that was taken is in the place it belongs to, and in no other.
LinesArePlaced ==
  /\ toReview \union excluded \subseteq DOMAIN lineOf /\ toReview \intersect excluded = {}
  /\ \A i \in DOMAIN lineOf :
       /\ Counts(lineOf[i]) <=> i \notin toReview \union excluded
       /\ Counts(lineOf[i]) => DemandKey(lineOf[i]) \in DOMAIN aggregate
       /\ i \in toReview => lineOf[i].canceled # "T" /\ lineOf[i].shipping \in {"F", "W"}

DemandIsSum ==
  /\ IsFiniteSet(DOMAIN lineOf) /\ IsFiniteSet(DOMAIN aggregate)
  /\ LinesArePlaced
  /\ \A k \in DOMAIN aggregate : BucketIsSum(k)

IncomingIsSum ==
  /\ IsFiniteSet(DOMAIN deliveryOf)
  /\ confirmedTotal = SumFunctionOnSet(Brought, KnownDeliveries)
  /\ confirmedUnknown <=> \E d \in TrustedDeliveries : NoQuantity(d)
  /\ DOMAIN setAside = {d \in DOMAIN deliveryOf : ~Trusted(deliveryOf[d]) \/ NoQuantity(d)}

ShortageInv == ShortageTypeOK /\ DemandIsSum /\ IncomingIsSum

LEMMA LineFields ==
  ASSUME NEW l \in LineKinds
  PROVE  /\ l.shipping \in {"F", "M", "T", "W"} /\ l.canceled \in {"F", "M", "T"}
         /\ l.quantity \in Quantities /\ l.remaining \in Quantities /\ Asks(l) \in Quantities
  BY ShortageAssumption DEF Asks

\* Where a line goes is where Counts says, whatever else was taken.
LEMMA LineIsPlaced ==
  ASSUME NEW i \in OrderLines, TakeLine(i)
  PROVE  /\ i \notin DOMAIN lineOf /\ UNCHANGED incomingVars
         /\ \E l \in LineKinds :
              /\ lineOf' = With(lineOf, i, l)
              /\ \/ /\ ~Counts(l) /\ UNCHANGED aggregate
                    /\ \/ excluded' = excluded \union {i} /\ UNCHANGED toReview
                       \/ /\ toReview' = toReview \union {i} /\ UNCHANGED excluded
                          /\ l.canceled # "T" /\ l.shipping \in {"F", "W"}
                 \/ Counts(l) /\ IntoBucket(l, Asks(l)) /\ UNCHANGED <<toReview, excluded>>
<1>1. PICK l \in LineKinds :
        /\ lineOf' = With(lineOf, i, l)
        /\ CASE Classify(l) = "EXCLUDE" \/ l.product \notin EligibleProducts ->
                  excluded' = excluded \union {i} /\ UNCHANGED <<aggregate, toReview>>
             [] Classify(l) = "INCLUDE" /\ l.product \in EligibleProducts ->
                  IntoBucket(l, l.quantity) /\ UNCHANGED <<excluded, toReview>>
             [] Classify(l) = "REVIEW" /\ l.product \in EligibleProducts /\ LeftOver(l) ->
                  IntoBucket(l, l.remaining) /\ UNCHANGED <<excluded, toReview>>
             [] OTHER ->
                  toReview' = toReview \union {i} /\ UNCHANGED <<aggregate, excluded>>
  BY DEF TakeLine
<1>2. i \notin DOMAIN lineOf /\ UNCHANGED incomingVars BY DEF TakeLine
<1>3. /\ Classify(l) = "EXCLUDE" <=> l.canceled = "T" \/ l.shipping \in {"M", "T"}
      /\ Classify(l) = "INCLUDE" <=> l.shipping = "F" /\ l.canceled = "F"
      /\ Classify(l) \in {"EXCLUDE", "INCLUDE", "REVIEW"}
  BY DEF Classify
<1>4. CASE Classify(l) = "EXCLUDE" \/ l.product \notin EligibleProducts
  <2>1. ~Counts(l) BY <1>3, <1>4 DEF Counts
  <2>2. excluded' = excluded \union {i} /\ UNCHANGED <<aggregate, toReview>> BY <1>1, <1>3, <1>4
  <2> QED BY <1>1, <1>2, <2>1, <2>2
<1>5. CASE Classify(l) = "INCLUDE" /\ l.product \in EligibleProducts
  <2>1. Counts(l) /\ Asks(l) = l.quantity BY <1>3, <1>5 DEF Counts, Asks
  <2>2. IntoBucket(l, l.quantity) /\ UNCHANGED <<excluded, toReview>> BY <1>1, <1>3, <1>5
  <2> QED BY <1>1, <1>2, <2>1, <2>2
<1>6. CASE Classify(l) = "REVIEW" /\ l.product \in EligibleProducts /\ LeftOver(l)
  <2>1. Counts(l) /\ Asks(l) = l.remaining BY <1>3, <1>6 DEF Counts, Asks, LeftOver
  <2>2. IntoBucket(l, l.remaining) /\ UNCHANGED <<excluded, toReview>> BY <1>1, <1>3, <1>6
  <2> QED BY <1>1, <1>2, <2>1, <2>2
<1>7. CASE Classify(l) = "REVIEW" /\ l.product \in EligibleProducts /\ ~LeftOver(l)
  <2>1. l.canceled # "T" /\ l.shipping \in {"F", "W"} BY <1>3, <1>7, LineFields
  <2>2. ~Counts(l) BY <1>3, <1>7 DEF Counts, LeftOver
  <2>3. toReview' = toReview \union {i} /\ UNCHANGED <<aggregate, excluded>> BY <1>1, <1>3, <1>7
  <2> QED BY <1>1, <1>2, <2>1, <2>2, <2>3
<1> QED BY <1>3, <1>4, <1>5, <1>6, <1>7

\* What a bucket has after a line that may be counted for it.
LEMMA CountedGrows ==
  ASSUME ShortageInv, NEW i \in OrderLines, i \notin DOMAIN lineOf, NEW l \in LineKinds,
         lineOf' = With(lineOf, i, l), NEW k
  PROVE  /\ Counts(l) /\ DemandKey(l) = k =>
              /\ CountedFor(k)' = CountedFor(k) \union {i}
              /\ KnownLines(k)' = IF Asks(l) = Unknown THEN KnownLines(k) ELSE KnownLines(k) \union {i}
         /\ ~(Counts(l) /\ DemandKey(l) = k) => CountedFor(k)' = CountedFor(k) /\ KnownLines(k)' = KnownLines(k)
         /\ \A j \in CountedFor(k) : Asks(lineOf'[j]) = Asks(lineOf[j]) /\ Asked'[j] = Asked[j]
         /\ lineOf'[i] = l /\ Asked'[i] = Asks(l) /\ i \notin CountedFor(k)
<1>1. PICK n : n = lineOf' OBVIOUS
<1>2. DOMAIN n = DOMAIN lineOf \union {i} /\ n[i] = l /\ \A j \in DOMAIN lineOf : n[j] = lineOf[j]
  BY <1>1 DEF With
<1>3. /\ CountedFor(k)' = {j \in DOMAIN n : Counts(n[j]) /\ DemandKey(n[j]) = k}
      /\ KnownLines(k)' = {j \in CountedFor(k)' : Asks(n[j]) # Unknown}
      /\ Asked' = [j \in DOMAIN n |-> Asks(n[j])]
  BY <1>1 DEF CountedFor, KnownLines, Asked
<1>4. \A j \in CountedFor(k) : j \in DOMAIN lineOf /\ n[j] = lineOf[j] /\ j # i BY <1>2 DEF CountedFor
<1>5. \A j \in CountedFor(k) : Asked'[j] = Asked[j] BY <1>2, <1>3, <1>4 DEF Asked
<1>6. Asked'[i] = Asks(l) BY <1>2, <1>3
<1>7. ASSUME Counts(l), DemandKey(l) = k
      PROVE  /\ CountedFor(k)' = CountedFor(k) \union {i}
             /\ KnownLines(k)' = IF Asks(l) = Unknown THEN KnownLines(k) ELSE KnownLines(k) \union {i}
  <2>1. CountedFor(k)' = CountedFor(k) \union {i} BY <1>2, <1>3, <1>7 DEF CountedFor
  <2>2. KnownLines(k)' = {j \in CountedFor(k) \union {i} : Asks(n[j]) # Unknown} BY <1>3, <2>1
  <2>3. KnownLines(k)' = IF Asks(l) = Unknown THEN KnownLines(k) ELSE KnownLines(k) \union {i}
    BY <1>2, <1>4, <2>2 DEF KnownLines
  <2> QED BY <2>1, <2>3
<1>8. ASSUME ~(Counts(l) /\ DemandKey(l) = k)
      PROVE  CountedFor(k)' = CountedFor(k) /\ KnownLines(k)' = KnownLines(k)
  <2>1. CountedFor(k)' = CountedFor(k) BY <1>2, <1>3, <1>8 DEF CountedFor
  <2>2. KnownLines(k)' = {j \in CountedFor(k) : Asks(n[j]) # Unknown} BY <1>3, <2>1
  <2>3. KnownLines(k)' = KnownLines(k) BY <1>4, <2>2 DEF KnownLines
  <2> QED BY <2>1, <2>3
<1> QED BY <1>1, <1>2, <1>4, <1>5, <1>6, <1>7, <1>8

LEMMA KnownLinesAreNumbers ==
  ASSUME ShortageInv, NEW k
  PROVE  /\ IsFiniteSet(KnownLines(k)) /\ KnownLines(k) \subseteq CountedFor(k)
         /\ \A i \in KnownLines(k) : Asked[i] \in Nat
<1>1. KnownLines(k) \in SUBSET DOMAIN lineOf /\ KnownLines(k) \subseteq CountedFor(k) BY DEF KnownLines, CountedFor
<1>2. IsFiniteSet(KnownLines(k)) BY <1>1, FS_Subset DEF ShortageInv, DemandIsSum
<1>3. ASSUME NEW i \in KnownLines(k) PROVE Asked[i] \in Nat
  <2>1. i \in DOMAIN lineOf /\ lineOf[i] \in LineKinds /\ Asks(lineOf[i]) # Unknown
    BY <1>1 DEF KnownLines, ShortageInv, ShortageTypeOK
  <2>2. Asks(lineOf[i]) \in Quantities BY <2>1, LineFields
  <2> QED BY <2>1, <2>2 DEF Asked, Quantities
<1> QED BY <1>1, <1>2, <1>3

\* A bucket that the line is not counted for stays the sum of its lines.
LEMMA OtherBucketsStay ==
  ASSUME ShortageInv, NEW i \in OrderLines, i \notin DOMAIN lineOf, NEW l \in LineKinds,
         lineOf' = With(lineOf, i, l), NEW k \in DOMAIN aggregate, ~(Counts(l) /\ DemandKey(l) = k),
         aggregate'[k] = aggregate[k]
  PROVE  BucketIsSum(k)'
<1>1. /\ CountedFor(k)' = CountedFor(k) /\ KnownLines(k)' = KnownLines(k)
      /\ \A j \in CountedFor(k) : Asks(lineOf'[j]) = Asks(lineOf[j]) /\ Asked'[j] = Asked[j]
  BY CountedGrows
<1>2. PICK K, f, g : K = KnownLines(k) /\ f = Asked /\ g = Asked' OBVIOUS
<1>3. IsFiniteSet(K) /\ \A j \in K : f[j] = g[j] BY <1>1, <1>2, KnownLinesAreNumbers
<1>4. SumFunctionOnSet(f, K) = SumFunctionOnSet(g, K) BY <1>3, SumsAgree
<1>5. aggregate[k].quantity = SumFunctionOnSet(f, K) BY <1>2 DEF ShortageInv, DemandIsSum, BucketIsSum
<1>6. aggregate'[k].quantity = SumFunctionOnSet(Asked', KnownLines(k)') BY <1>1, <1>2, <1>4, <1>5
<1>7. aggregate'[k].unknown <=> \E j \in CountedFor(k)' : Asks(lineOf'[j]) = Unknown
  BY <1>1 DEF ShortageInv, DemandIsSum, BucketIsSum
<1> QED BY <1>6, <1>7 DEF BucketIsSum

\* The bucket of a line that counts has its quantity, or knows that it is unknown.
LEMMA BucketTakesLine ==
  ASSUME ShortageInv, NEW i \in OrderLines, i \notin DOMAIN lineOf, NEW l \in LineKinds,
         lineOf' = With(lineOf, i, l), Counts(l), IntoBucket(l, Asks(l))
  PROVE  /\ DOMAIN aggregate' = DOMAIN aggregate \union {DemandKey(l)}
         /\ \A k \in DOMAIN aggregate' : aggregate'[k] \in Buckets /\ BucketIsSum(k)'
<1>1. PICK key, q : key = DemandKey(l) /\ q = Asks(l) OBVIOUS
<1>2. PICK bucket : bucket = IF key \in DOMAIN aggregate THEN aggregate[key] ELSE EmptyBucket OBVIOUS
<1>3. aggregate' = With(aggregate, key, WithQuantity(bucket, q)) BY <1>1, <1>2 DEF IntoBucket
<1>4. /\ DOMAIN aggregate' = DOMAIN aggregate \union {key} /\ aggregate'[key] = WithQuantity(bucket, q)
      /\ \A k \in DOMAIN aggregate : k # key => aggregate'[k] = aggregate[k]
  BY <1>3 DEF With
<1>5. q \in Quantities BY <1>1, LineFields
<1>6. PICK f, g, K, K1 : f = Asked /\ g = Asked' /\ K = KnownLines(key) /\ K1 = KnownLines(key)' OBVIOUS
<1>7. /\ bucket \in Buckets /\ bucket.quantity = SumFunctionOnSet(f, K)
      /\ bucket.unknown <=> \E j \in CountedFor(key) : Asks(lineOf[j]) = Unknown
  <2>1. CASE key \in DOMAIN aggregate
    BY <1>2, <1>6, <2>1 DEF ShortageInv, ShortageTypeOK, DemandIsSum, BucketIsSum
  <2>2. CASE key \notin DOMAIN aggregate
    <3>1. CountedFor(key) = {} BY <2>2 DEF CountedFor, ShortageInv, DemandIsSum, LinesArePlaced
    <3>2. K = {} BY <1>6, <3>1 DEF KnownLines
    <3>3. SumFunctionOnSet(f, K) = 0 BY <3>2, SumOfNothing
    <3>4. bucket \in Buckets /\ bucket.quantity = 0 /\ ~bucket.unknown BY <1>2, <2>2 DEF EmptyBucket, Buckets
    <3> QED BY <3>1, <3>3, <3>4
  <2> QED BY <2>1, <2>2
<1>8. /\ CountedFor(key)' = CountedFor(key) \union {i} /\ i \notin CountedFor(key)
      /\ K1 = IF q = Unknown THEN K ELSE K \union {i}
      /\ \A j \in CountedFor(key) : Asks(lineOf'[j]) = Asks(lineOf[j]) /\ g[j] = f[j]
      /\ lineOf'[i] = l /\ g[i] = q
  BY <1>1, <1>6, CountedGrows
<1>9. IsFiniteSet(K) /\ K \subseteq CountedFor(key) /\ \A j \in K : f[j] \in Nat BY <1>6, KnownLinesAreNumbers
<1>10. SumFunctionOnSet(f, K) = SumFunctionOnSet(g, K) BY <1>8, <1>9, SumsAgree
<1>11. aggregate'[key] \in Buckets /\ BucketIsSum(key)'
  <2>1. CASE q = Unknown
    <3>1. /\ aggregate'[key] \in Buckets /\ aggregate'[key].unknown = TRUE
          /\ aggregate'[key].quantity = bucket.quantity
      BY <1>4, <1>7, <2>1 DEF WithQuantity, Buckets
    <3>2. aggregate'[key].quantity = SumFunctionOnSet(Asked', KnownLines(key)')
      BY <1>6, <1>7, <1>8, <1>10, <2>1, <3>1
    <3>3. i \in CountedFor(key)' /\ Asks(lineOf'[i]) = Unknown BY <1>1, <1>8, <2>1
    <3> QED BY <3>1, <3>2, <3>3 DEF BucketIsSum
  <2>2. CASE q # Unknown
    <3>1. q \in Nat BY <1>5, <2>2 DEF Quantities
    <3>2. /\ aggregate'[key] \in Buckets /\ aggregate'[key].unknown = bucket.unknown
          /\ aggregate'[key].quantity = bucket.quantity + q
      BY <1>4, <1>7, <2>2, <3>1 DEF WithQuantity, Buckets
    <3>3. \A j \in K \union {i} : g[j] \in Nat BY <1>8, <1>9, <3>1
    <3>4. i \notin K BY <1>8, <1>9
    <3>5. SumFunctionOnSet(g, K \union {i}) = SumFunctionOnSet(g, K) + g[i] BY <1>9, <3>3, <3>4, SumGrows
    <3>6. aggregate'[key].quantity = SumFunctionOnSet(Asked', KnownLines(key)')
      BY <1>6, <1>7, <1>8, <1>10, <2>2, <3>2, <3>5
    <3>7. (\E j \in CountedFor(key)' : Asks(lineOf'[j]) = Unknown)
            <=> (\E j \in CountedFor(key) : Asks(lineOf[j]) = Unknown)
      BY <1>1, <1>8, <2>2
    <3> QED BY <1>7, <3>2, <3>6, <3>7 DEF BucketIsSum
  <2> QED BY <2>1, <2>2
<1>12. ASSUME NEW k \in DOMAIN aggregate, k # key PROVE aggregate'[k] \in Buckets /\ BucketIsSum(k)'
  <2>1. aggregate'[k] = aggregate[k] BY <1>4, <1>12
  <2>2. BucketIsSum(k)' BY <1>1, <1>12, <2>1, OtherBucketsStay
  <2> QED BY <2>1, <2>2 DEF ShortageInv, ShortageTypeOK
<1> QED BY <1>1, <1>4, <1>11, <1>12

LEMMA LineStep ==
  ASSUME ShortageInv, NEW i \in OrderLines, TakeLine(i)
  PROVE  ShortageInv'
<1>1. i \notin DOMAIN lineOf /\ UNCHANGED incomingVars BY LineIsPlaced
<1>2. PICK l \in LineKinds :
        /\ lineOf' = With(lineOf, i, l)
        /\ \/ /\ ~Counts(l) /\ UNCHANGED aggregate
              /\ \/ excluded' = excluded \union {i} /\ UNCHANGED toReview
                 \/ /\ toReview' = toReview \union {i} /\ UNCHANGED excluded
                    /\ l.canceled # "T" /\ l.shipping \in {"F", "W"}
           \/ Counts(l) /\ IntoBucket(l, Asks(l)) /\ UNCHANGED <<toReview, excluded>>
  BY LineIsPlaced
<1>3. PICK n : n = lineOf' OBVIOUS
<1>4. DOMAIN n = DOMAIN lineOf \union {i} /\ n[i] = l /\ \A j \in DOMAIN lineOf : n[j] = lineOf[j]
  BY <1>1, <1>2, <1>3 DEF With
<1>5. IsFiniteSet(DOMAIN n) BY <1>4, FS_AddElement DEF ShortageInv, DemandIsSum
<1>6. /\ DOMAIN aggregate' = DOMAIN aggregate \union (IF Counts(l) THEN {DemandKey(l)} ELSE {})
      /\ \A k \in DOMAIN aggregate' : aggregate'[k] \in Buckets /\ BucketIsSum(k)'
  <2>1. CASE Counts(l) BY <1>1, <1>2, <2>1, BucketTakesLine
  <2>2. CASE ~Counts(l)
    <3>1. aggregate' = aggregate BY <1>2, <2>2
    <3>2. ASSUME NEW k \in DOMAIN aggregate PROVE BucketIsSum(k)' BY <1>1, <1>2, <2>2, <3>1, OtherBucketsStay
    <3> QED BY <2>2, <3>1, <3>2 DEF ShortageInv, ShortageTypeOK
  <2> QED BY <2>1, <2>2
<1>7. IsFiniteSet(DOMAIN aggregate') BY <1>6, FS_AddElement DEF ShortageInv, DemandIsSum
<1>8. LinesArePlaced'
  <2>1. LinesArePlaced BY DEF ShortageInv, DemandIsSum
  <2>2. /\ toReview' \union excluded' \subseteq DOMAIN n /\ toReview' \intersect excluded' = {}
    BY <1>1, <1>2, <1>4, <2>1 DEF LinesArePlaced
  <2>3. ASSUME NEW j \in DOMAIN lineOf
        PROVE  /\ Counts(n[j]) <=> j \notin toReview' \union excluded'
               /\ Counts(n[j]) => DemandKey(n[j]) \in DOMAIN aggregate'
               /\ j \in toReview' => n[j].canceled # "T" /\ n[j].shipping \in {"F", "W"}
    BY <1>1, <1>2, <1>4, <1>6, <2>1 DEF LinesArePlaced
  <2>4. /\ Counts(n[i]) <=> i \notin toReview' \union excluded'
        /\ Counts(n[i]) => DemandKey(n[i]) \in DOMAIN aggregate'
        /\ i \in toReview' => n[i].canceled # "T" /\ n[i].shipping \in {"F", "W"}
    BY <1>1, <1>2, <1>4, <1>6, <2>1 DEF LinesArePlaced
  <2> QED BY <1>3, <1>4, <2>2, <2>3, <2>4 DEF LinesArePlaced
<1>9. ShortageTypeOK'
  <2>1. toReview' \subseteq OrderLines /\ excluded' \subseteq OrderLines BY <1>2 DEF ShortageInv, ShortageTypeOK
  <2> QED BY <1>1, <1>2, <1>3, <1>4, <1>6, <2>1 DEF ShortageInv, ShortageTypeOK, incomingVars
<1>10. IncomingIsSum' BY <1>1 DEF ShortageInv, IncomingIsSum, incomingVars, Brought, KnownDeliveries,
                         TrustedDeliveries, NoQuantity
<1> QED BY <1>3, <1>5, <1>6, <1>7, <1>8, <1>9, <1>10 DEF ShortageInv, DemandIsSum

-----------------------------------------------------------------------------
(* ShortageProjection: the deliveries                                      *)

LEMMA DeliveryFields ==
  ASSUME NEW e \in DeliveryKinds
  PROVE  /\ e.quantity \in Quantities
         /\ Reason(e) = "USED" <=> Trusted(e) /\ e.quantity # Unknown
         /\ Reason(e) = "QUANTITY_UNKNOWN" <=> Trusted(e) /\ e.quantity = Unknown
<1>1. /\ e.confirmation \in {"CONFIRMED", "TENTATIVE"} /\ e.quality \in {"CONFIRMED", "BLOCKED"}
      /\ e.freshness \in {"FRESH", "STALE", "UNKNOWN"} /\ e.quantity \in Quantities
  BY ShortageAssumption
<1> QED BY <1>1 DEF Reason, Trusted

LEMMA DeliveryStep ==
  ASSUME ShortageInv, NEW d \in Deliveries, TakeDelivery(d)
  PROVE  ShortageInv'
<1>1. PICK e \in DeliveryKinds :
        /\ deliveryOf' = With(deliveryOf, d, e)
        /\ setAside' = IF Reason(e) = "USED" THEN setAside ELSE With(setAside, d, Reason(e))
        /\ confirmedTotal' = IF Reason(e) = "USED" THEN confirmedTotal + e.quantity ELSE confirmedTotal
        /\ tentativeTotal' = IF Reason(e) = "TENTATIVE" /\ e.quantity # Unknown
                             THEN tentativeTotal + e.quantity ELSE tentativeTotal
        /\ confirmedUnknown' = (confirmedUnknown \/ Reason(e) = "QUANTITY_UNKNOWN")
  BY DEF TakeDelivery
<1>2. d \notin DOMAIN deliveryOf /\ UNCHANGED demandVars BY DEF TakeDelivery
<1>3. PICK n : n = deliveryOf' OBVIOUS
<1>4. DOMAIN n = DOMAIN deliveryOf \union {d} /\ n[d] = e /\ \A c \in DOMAIN deliveryOf : n[c] = deliveryOf[c]
  BY <1>1, <1>2, <1>3 DEF With
<1>5. /\ e.quantity \in Quantities
      /\ Reason(e) = "USED" <=> Trusted(e) /\ e.quantity # Unknown
      /\ Reason(e) = "QUANTITY_UNKNOWN" <=> Trusted(e) /\ e.quantity = Unknown
  BY DeliveryFields
<1>6. PICK f, g, K, K1 : f = Brought /\ g = Brought' /\ K = KnownDeliveries /\ K1 = KnownDeliveries' OBVIOUS
<1>7. /\ f = [c \in DOMAIN deliveryOf |-> deliveryOf[c].quantity] /\ g = [c \in DOMAIN n |-> n[c].quantity]
      /\ K = {c \in DOMAIN deliveryOf : Trusted(deliveryOf[c]) /\ deliveryOf[c].quantity # Unknown}
      /\ K1 = {c \in DOMAIN n : Trusted(n[c]) /\ n[c].quantity # Unknown}
  BY <1>3, <1>6 DEF Brought, KnownDeliveries, TrustedDeliveries, NoQuantity
<1>8. K1 = IF Reason(e) = "USED" THEN K \union {d} ELSE K BY <1>4, <1>5, <1>7
<1>9. IsFiniteSet(DOMAIN deliveryOf) /\ \A c \in DOMAIN deliveryOf : deliveryOf[c].quantity \in Quantities
  BY DeliveryFields DEF ShortageInv, ShortageTypeOK, IncomingIsSum
<1>10. IsFiniteSet(K) /\ d \notin K /\ K \subseteq DOMAIN deliveryOf BY <1>2, <1>7, <1>9, FS_Subset
<1>11. \A c \in K : f[c] \in Nat /\ f[c] = g[c] BY <1>4, <1>7, <1>9 DEF Quantities
<1>12. SumFunctionOnSet(f, K) = SumFunctionOnSet(g, K) /\ SumFunctionOnSet(f, K) \in Nat
  BY <1>10, <1>11, SumsAgree, SumIsNumber
<1>13. confirmedTotal = SumFunctionOnSet(f, K) BY <1>6 DEF ShortageInv, IncomingIsSum
<1>14. confirmedTotal' = SumFunctionOnSet(g, K1) /\ confirmedTotal' \in Nat
  <2>1. CASE Reason(e) = "USED"
    <3>1. e.quantity \in Nat /\ g[d] = e.quantity BY <1>4, <1>5, <1>7, <2>1 DEF Quantities
    <3>2. SumFunctionOnSet(g, K \union {d}) = SumFunctionOnSet(g, K) + g[d]
      BY <1>10, <1>11, <3>1, SumGrows
    <3> QED BY <1>1, <1>8, <1>12, <1>13, <2>1, <3>1, <3>2
  <2>2. CASE Reason(e) # "USED" BY <1>1, <1>8, <1>12, <1>13, <2>2
  <2> QED BY <2>1, <2>2
<1>15. /\ confirmedUnknown' \in BOOLEAN
       /\ confirmedUnknown' <=> \E c \in DOMAIN n : Trusted(n[c]) /\ n[c].quantity = Unknown
  <2>1. /\ confirmedUnknown \in BOOLEAN
        /\ confirmedUnknown <=> \E c \in DOMAIN deliveryOf : Trusted(deliveryOf[c]) /\ deliveryOf[c].quantity = Unknown
    BY DEF ShortageInv, ShortageTypeOK, IncomingIsSum, TrustedDeliveries, NoQuantity
  <2> QED BY <1>1, <1>4, <1>5, <2>1
<1>16. DOMAIN setAside' = {c \in DOMAIN n : ~Trusted(n[c]) \/ n[c].quantity = Unknown} /\ DOMAIN setAside' \subseteq Deliveries
  <2>1. DOMAIN setAside = {c \in DOMAIN deliveryOf : ~Trusted(deliveryOf[c]) \/ deliveryOf[c].quantity = Unknown}
    BY DEF ShortageInv, IncomingIsSum, NoQuantity
  <2>2. DOMAIN setAside' = IF Reason(e) = "USED" THEN DOMAIN setAside ELSE DOMAIN setAside \union {d}
    BY <1>1 DEF With
  <2>3. DOMAIN deliveryOf \subseteq Deliveries BY DEF ShortageInv, ShortageTypeOK
  <2> QED BY <1>4, <1>5, <2>1, <2>2, <2>3
<1>17. tentativeTotal' \in Nat
  <2>1. tentativeTotal \in Nat BY DEF ShortageInv, ShortageTypeOK
  <2> QED BY <1>1, <1>5, <2>1 DEF Quantities
<1>18. IsFiniteSet(DOMAIN n) BY <1>4, <1>9, FS_AddElement
<1>19. IncomingIsSum'
  <2>1. confirmedTotal' = SumFunctionOnSet(Brought', KnownDeliveries') BY <1>6, <1>14
  <2> QED BY <1>3, <1>15, <1>16, <1>18, <2>1 DEF IncomingIsSum, TrustedDeliveries, NoQuantity
<1>20. DemandIsSum' BY <1>2 DEF ShortageInv, DemandIsSum, LinesArePlaced, BucketIsSum, KnownLines, CountedFor, Asked, demandVars
<1>21. ShortageTypeOK'
  BY <1>2, <1>3, <1>4, <1>14, <1>15, <1>16, <1>17 DEF ShortageInv, ShortageTypeOK, demandVars
<1> QED BY <1>19, <1>20, <1>21 DEF ShortageInv


LEMMA ShortageInvariance == ShortageSpec => []ShortageInv
<1>1. ShortageInit => ShortageInv
  <2> SUFFICES ASSUME ShortageInit PROVE ShortageInv OBVIOUS
  <2>1. /\ DOMAIN lineOf = {} /\ DOMAIN aggregate = {} /\ DOMAIN deliveryOf = {} /\ DOMAIN setAside = {}
        /\ toReview = {} /\ excluded = {} /\ confirmedTotal = 0 /\ tentativeTotal = 0 /\ confirmedUnknown = FALSE
    BY DEF ShortageInit, Nothing
  <2>2. ShortageTypeOK BY <2>1 DEF ShortageTypeOK
  <2>3. DemandIsSum BY <2>1, FS_EmptySet DEF DemandIsSum, LinesArePlaced
  <2>4. KnownDeliveries = {} BY <2>1 DEF KnownDeliveries, TrustedDeliveries
  <2>5. IncomingIsSum BY <2>1, <2>4, FS_EmptySet, SumOfNothing DEF IncomingIsSum, TrustedDeliveries
  <2> QED BY <2>2, <2>3, <2>5 DEF ShortageInv
<1>2. ShortageInv /\ [ShortageNext]_shortageVars => ShortageInv'
  <2> SUFFICES ASSUME ShortageInv, [ShortageNext]_shortageVars PROVE ShortageInv' OBVIOUS
  <2>1. CASE UNCHANGED shortageVars
    <3>1. ShortageTypeOK' BY <2>1 DEF ShortageInv, ShortageTypeOK, shortageVars
    <3>2. DemandIsSum'
      BY <2>1 DEF ShortageInv, DemandIsSum, LinesArePlaced, BucketIsSum, KnownLines, CountedFor, Asked, shortageVars
    <3>3. IncomingIsSum'
      BY <2>1 DEF ShortageInv, IncomingIsSum, Brought, KnownDeliveries, TrustedDeliveries, NoQuantity, shortageVars
    <3> QED BY <3>1, <3>2, <3>3 DEF ShortageInv
  <2>2. ASSUME NEW i \in OrderLines, TakeLine(i) PROVE ShortageInv' BY <2>2, LineStep
  <2>3. ASSUME NEW d \in Deliveries, TakeDelivery(d) PROVE ShortageInv' BY <2>3, DeliveryStep
  <2> QED BY <2>1, <2>2, <2>3 DEF ShortageNext
<1> QED BY <1>1, <1>2, PTL DEF ShortageSpec

\* The total of all demands is a number exactly if each of them is.
LEMMA TotalIsKnown ==
  ASSUME ShortageInv
  PROVE  ConfirmedRequired = Unknown <=> \E i \in DOMAIN lineOf : Counts(lineOf[i]) /\ Asks(lineOf[i]) = Unknown
<1>1. \A k \in DOMAIN aggregate : Demand(k) = Unknown <=> \E i \in CountedFor(k) : Asks(lineOf[i]) = Unknown
  BY ShortageAssumption DEF Demand, ShortageInv, ShortageTypeOK, DemandIsSum, BucketIsSum, Buckets
<1>2. (\E k \in DOMAIN aggregate : Demand(k) = Unknown)
        <=> \E i \in DOMAIN lineOf : Counts(lineOf[i]) /\ Asks(lineOf[i]) = Unknown
  BY <1>1 DEF CountedFor, ShortageInv, DemandIsSum, LinesArePlaced
<1>3. ASSUME ~\E k \in DOMAIN aggregate : Demand(k) = Unknown PROVE ConfirmedRequired # Unknown
  <2>1. PICK f : f = [k \in DOMAIN aggregate |-> Demand(k)] OBVIOUS
  <2>2. \A k \in DOMAIN aggregate : f[k] \in Nat
    BY <1>3, <2>1 DEF Demand, ShortageInv, ShortageTypeOK, Buckets
  <2>3. SumFunctionOnSet(f, DOMAIN aggregate) \in Nat BY <2>2, SumIsNumber DEF ShortageInv, DemandIsSum
  <2>4. ConfirmedRequired = SumFunctionOnSet(f, DOMAIN aggregate) BY <1>3, <2>1 DEF ConfirmedRequired, SumFunction
  <2> QED BY <2>3, <2>4, ShortageAssumption
<1>4. ASSUME \E k \in DOMAIN aggregate : Demand(k) = Unknown PROVE ConfirmedRequired = Unknown
  BY <1>4 DEF ConfirmedRequired
<1> QED BY <1>2, <1>3, <1>4

LEMMA ShortageLeft ==
  ASSUME NEW a \in Int
  PROVE  Max({a, 0}) = IF a >= 0 THEN a ELSE 0
<1>1. \E x \in {a, 0} : \A y \in {a, 0} : x >= y OBVIOUS
<1>2. PICK m : m = Max({a, 0}) OBVIOUS
<1>3. m \in {a, 0} /\ \A y \in {a, 0} : m >= y BY <1>1, <1>2 DEF Max
<1> QED BY <1>2, <1>3

\* Every line ends up in one place, a demand is the sum of its lines and unknown as
\* soon as one of them is, and a shortage is what confirmed, good and fresh
\* deliveries leave: for any lines and deliveries in any order
\* (project_current_reservation_demand, calculate_reservation_shortage).
THEOREM ShortagesAreAccounted == ShortageSpec => []ShortageIsAccounted
<1>1. ShortageInv => ShortageIsAccounted
  <2> SUFFICES ASSUME ShortageInv PROVE ShortageIsAccounted OBVIOUS
  <2>1. ASSUME NEW i \in DOMAIN lineOf
        PROVE  /\ Cardinality({p \in {"counted", "review", "excluded"} :
                                 CASE p = "counted" -> DemandKey(lineOf[i]) \in DOMAIN aggregate /\ Counts(lineOf[i])
                                   [] p = "review"  -> i \in toReview
                                   [] OTHER         -> i \in excluded}) = 1
               /\ i \in toReview => lineOf[i].canceled # "T" /\ lineOf[i].shipping \in {"F", "W"}
    <3>1. LinesArePlaced BY DEF ShortageInv, DemandIsSum
    <3>2. PICK P : P = {p \in {"counted", "review", "excluded"} :
                          CASE p = "counted" -> DemandKey(lineOf[i]) \in DOMAIN aggregate /\ Counts(lineOf[i])
                            [] p = "review"  -> i \in toReview
                            [] OTHER         -> i \in excluded} OBVIOUS
    <3>3. /\ "counted" \in P <=> Counts(lineOf[i])
          /\ "review" \in P <=> i \in toReview
          /\ "excluded" \in P <=> i \in excluded
          /\ P \subseteq {"counted", "review", "excluded"}
      BY <3>1, <3>2 DEF LinesArePlaced
    <3>4. P = {"counted"} \/ P = {"review"} \/ P = {"excluded"} BY <3>1, <3>3 DEF LinesArePlaced
    <3>5. Cardinality(P) = 1 BY <3>4, FS_Singleton
    <3> QED BY <3>1, <3>2, <3>5 DEF LinesArePlaced
  <2>2. ASSUME NEW k \in DOMAIN aggregate
        PROVE  IF \E i \in CountedFor(k) : Asks(lineOf[i]) = Unknown THEN Demand(k) = Unknown
               ELSE Demand(k) = SumFunctionOnSet(Asked, CountedFor(k))
    <3>1. BucketIsSum(k) BY DEF ShortageInv, DemandIsSum
    <3>2. CASE \E i \in CountedFor(k) : Asks(lineOf[i]) = Unknown BY <3>1, <3>2 DEF BucketIsSum, Demand
    <3>3. CASE ~\E i \in CountedFor(k) : Asks(lineOf[i]) = Unknown
      <4>1. KnownLines(k) = CountedFor(k) BY <3>3 DEF KnownLines
      <4> QED BY <3>1, <3>3, <4>1 DEF BucketIsSum, Demand
    <3> QED BY <3>2, <3>3
  <2>3. DOMAIN setAside = {d \in DOMAIN deliveryOf : ~Trusted(deliveryOf[d]) \/ NoQuantity(d)}
    BY DEF ShortageInv, IncomingIsSum
  <2>4. ASSUME NEW secured \in SecuredQtys, NEW required \in RequiredQtys
        PROVE  LET short == Shortage(required, secured) IN
               IF secured = Unknown \/ \E d \in TrustedDeliveries : NoQuantity(d) THEN short = Unknown
               ELSE /\ short \in Nat
                    /\ LET brought == SumFunctionOnSet(Brought, TrustedDeliveries) IN
                       IF secured + brought >= required THEN short = 0 ELSE secured + brought + short = required
    <3>1. IncomingIsSum /\ ShortageTypeOK BY DEF ShortageInv
    <3>2. CASE secured = Unknown \/ \E d \in TrustedDeliveries : NoQuantity(d)
      BY <3>1, <3>2 DEF IncomingIsSum, Shortage
    <3>3. CASE secured # Unknown /\ ~\E d \in TrustedDeliveries : NoQuantity(d)
      <4>1. PICK b, t : b = SumFunctionOnSet(Brought, TrustedDeliveries) /\ t = confirmedTotal OBVIOUS
      <4>2. KnownDeliveries = TrustedDeliveries BY <3>3 DEF KnownDeliveries
      <4>3. t = b /\ t \in Nat BY <3>1, <4>1, <4>2 DEF IncomingIsSum, ShortageTypeOK
      <4>4. secured \in Nat /\ required \in Nat BY <3>3, ShortageAssumption DEF Quantities
      <4>5. Shortage(required, secured) = Max({required - secured - t, 0})
        BY <3>1, <3>3, <4>1 DEF Shortage, IncomingIsSum
      <4>6. PICK a : a = required - secured - t OBVIOUS
      <4>7. a \in Int BY <4>3, <4>4, <4>6
      <4>8. Shortage(required, secured) = IF a >= 0 THEN a ELSE 0 BY <4>5, <4>6, <4>7, ShortageLeft
      <4> QED BY <3>3, <4>1, <4>3, <4>4, <4>6, <4>7, <4>8
    <3> QED BY <3>2, <3>3
  <2> QED BY <2>1, <2>2, <2>3, <2>4, TotalIsKnown DEF ShortageIsAccounted
<1> QED BY <1>1, ShortageInvariance, PTL

-----------------------------------------------------------------------------
(* Sequences that are joined                                               *)

\* A set of numbers has a smallest one.
LEMMA SmallestNumber ==
  ASSUME NEW S \in SUBSET Nat, S # {}
  PROVE  \E n \in S : \A m \in S : n <= m
<1>1. PICK k \in S : k \in Nat OBVIOUS
<1> DEFINE C == {0 .. n : n \in {i \in S : i <= k}}
<1>2. IsFiniteSet(0 .. k) BY <1>1, FS_Interval
<1>3. C \in SUBSET SUBSET (0 .. k) BY <1>1
<1>4. C # {} BY <1>1
<1>5. PICK s \in C : \A t \in C : t \subseteq s => t = s
  <2>1. PICK B : B = 0 .. k OBVIOUS
  <2>2. IsFiniteSet(B) /\ C \in SUBSET SUBSET B BY <1>2, <1>3, <2>1
  <2> HIDE DEF C
  <2>3. QED BY <1>4, <2>2, SmallestPart
<1>6. PICK n \in S : n <= k /\ s = 0 .. n OBVIOUS
<1>7. ASSUME NEW m \in S, m < n PROVE FALSE
  <2>1. m <= k /\ m \in Nat /\ n \in Nat BY <1>1, <1>6, <1>7
  <2>2. (0 .. m) \in C BY <2>1
  <2>3. (0 .. m) \subseteq 0 .. n BY <1>7, <2>1
  <2>4. (0 .. m) = 0 .. n BY <1>5, <1>6, <2>2, <2>3
  <2>5. n \in 0 .. n /\ n \notin 0 .. m BY <1>7, <2>1
  <2>6. QED BY <2>4, <2>5
<1>8. \A m \in S : n <= m BY <1>7
<1>9. QED BY <1>8

\* g has at n what the first n sequences of ss are when they are joined.
JoinedUpTo(ss, n, g) == g = [i \in 1 .. n |-> IF i = 1 THEN ss[i] ELSE g[i - 1] \o ss[i]]

LEMMA FlattenIsJoined ==
  ASSUME NEW ss, Len(ss) # 0
  PROVE  FlattenSeq(ss) = (CHOOSE g : JoinedUpTo(ss, Len(ss), g))[Len(ss)]
  BY DEF FlattenSeq, JoinedUpTo

LEMMA JoinedExists ==
  ASSUME NEW ss, NEW n \in Nat
  PROVE  \E g : JoinedUpTo(ss, n, g)
<1> DEFINE Bad == {m \in Nat : ~\E g : JoinedUpTo(ss, m, g)}
<1>1. SUFFICES ASSUME Bad # {} PROVE FALSE OBVIOUS
<1>2. PICK m \in Bad : \A k \in Bad : m <= k
  <2>1. Bad \in SUBSET Nat OBVIOUS
  <2> HIDE DEF Bad
  <2> QED BY <1>1, <2>1, SmallestNumber
<1>3. m \in Nat /\ ~\E g : JoinedUpTo(ss, m, g) OBVIOUS
<1>4. CASE m = 0
  <2>1. JoinedUpTo(ss, 0, [i \in 1 .. 0 |-> 0]) BY DEF JoinedUpTo
  <2>2. QED BY <1>3, <1>4, <2>1
<1>5. CASE m # 0
  <2>1. m - 1 \in Nat /\ ~(m <= m - 1) BY <1>3, <1>5
  <2>2. m - 1 \notin Bad
    <3> HIDE DEF Bad
    <3> QED BY <1>2, <2>1
  <2>3. PICK g : JoinedUpTo(ss, m - 1, g) BY <2>1, <2>2
  <2> DEFINE h == [i \in 1 .. m |-> IF i = m THEN (IF m = 1 THEN ss[m] ELSE g[m - 1] \o ss[m]) ELSE g[i]]
  <2>4. ASSUME NEW i \in 1 .. m PROVE h[i] = IF i = 1 THEN ss[i] ELSE h[i - 1] \o ss[i]
    <3>1. CASE i = m
      <4>1. i # 1 => h[i - 1] = g[m - 1] BY <1>3, <3>1
      <4>2. QED BY <1>3, <3>1, <4>1
    <3>2. CASE i # m
      <4>1. i \in 1 .. (m - 1) BY <1>3, <3>2
      <4>2. g[i] = IF i = 1 THEN ss[i] ELSE g[i - 1] \o ss[i] BY <2>3, <4>1 DEF JoinedUpTo
      <4>3. i # 1 => h[i - 1] = g[i - 1] BY <1>3, <4>1
      <4>4. h[i] = g[i] BY <3>2
      <4>5. QED BY <4>2, <4>3, <4>4
    <3>3. QED BY <3>1, <3>2
  <2>5. h = [i \in 1 .. m |-> h[i]] OBVIOUS
  <2> HIDE DEF h
  <2>6. [i \in 1 .. m |-> h[i]] = [i \in 1 .. m |-> IF i = 1 THEN ss[i] ELSE h[i - 1] \o ss[i]] BY <2>4
  <2>7. JoinedUpTo(ss, m, h) BY <2>5, <2>6 DEF JoinedUpTo
  <2>8. QED BY <1>3, <2>7
<1>6. QED BY <1>4, <1>5

AgreeUpTo(s, t, n)  == \A i \in 1 .. n : s[i] = t[i]
ElementsUpTo(ss, n) == UNION {ToSet(ss[k]) : k \in 1 .. n}

\* What comes later does not change what was joined.
LEMMA JoinedAgree ==
  ASSUME NEW ss, NEW tt, NEW n \in Nat, NEW m \in Nat, n <= m, NEW g, NEW h,
         JoinedUpTo(ss, n, g), JoinedUpTo(tt, m, h), AgreeUpTo(ss, tt, n)
  PROVE  AgreeUpTo(g, h, n)
<1> DEFINE Bad == {i \in 1 .. n : g[i] # h[i]}
<1>1. SUFFICES ASSUME Bad # {} PROVE FALSE BY DEF AgreeUpTo
<1>2. PICK i \in Bad : \A k \in Bad : i <= k
  <2>1. Bad \in SUBSET Nat OBVIOUS
  <2> HIDE DEF Bad
  <2> QED BY <1>1, <2>1, SmallestNumber
<1>3. i \in 1 .. n /\ i \in 1 .. m /\ g[i] # h[i] OBVIOUS
<1>4. /\ g[i] = IF i = 1 THEN ss[i] ELSE g[i - 1] \o ss[i]
      /\ h[i] = IF i = 1 THEN tt[i] ELSE h[i - 1] \o tt[i]
  BY <1>3 DEF JoinedUpTo
<1>5. ss[i] = tt[i] BY <1>3 DEF AgreeUpTo
<1>6. i # 1 BY <1>3, <1>4, <1>5
<1>7. i - 1 \in 1 .. n /\ ~(i <= i - 1) BY <1>3, <1>6
<1>8. g[i - 1] = h[i - 1]
  <2>1. (i - 1) \notin Bad
    <3> HIDE DEF Bad
    <3> QED BY <1>2, <1>7
  <2>2. QED BY <1>7, <2>1
<1>9. QED BY <1>3, <1>4, <1>5, <1>6, <1>8

LEMMA ConcatElements ==
  ASSUME NEW S, NEW s \in Seq(S), NEW t \in Seq(S)
  PROVE  ToSet(s \o t) = ToSet(s) \union ToSet(t)
<1>1. Range(s \o t) = Range(s) \cup Range(t) BY RangeConcatenation
<1>2. QED BY <1>1 DEF Range, ToSet

LEMMA JoinedElements ==
  ASSUME NEW S, NEW ss \in Seq(Seq(S)), NEW n \in 0 .. Len(ss), NEW g, JoinedUpTo(ss, n, g)
  PROVE  \A i \in 1 .. n : g[i] \in Seq(S) /\ ToSet(g[i]) = ElementsUpTo(ss, i)
<1> DEFINE Fine(i) == g[i] \in Seq(S) /\ ToSet(g[i]) = ElementsUpTo(ss, i)
           Bad == {i \in 1 .. n : ~Fine(i)}
<1>1. SUFFICES ASSUME Bad # {} PROVE FALSE OBVIOUS
<1>2. PICK i \in Bad : \A k \in Bad : i <= k
  <2>1. Bad \in SUBSET Nat OBVIOUS
  <2> HIDE DEF Bad
  <2> QED BY <1>1, <2>1, SmallestNumber
<1>3. i \in 1 .. n /\ ~Fine(i) OBVIOUS
<1>4. i \in 1 .. Len(ss) /\ Len(ss) \in Nat OBVIOUS
<1>5. ss[i] \in Seq(S) BY <1>4
<1>6. g[i] = IF i = 1 THEN ss[i] ELSE g[i - 1] \o ss[i] BY <1>3 DEF JoinedUpTo
<1>7. CASE i = 1
  <2>1. {ToSet(ss[k]) : k \in 1 .. i} = {ToSet(ss[1])} BY <1>7
  <2>2. Fine(i) BY <1>5, <1>6, <1>7, <2>1 DEF ElementsUpTo
  <2>3. QED BY <1>3, <2>2
<1>8. CASE i # 1
  <2>1. i - 1 \in 1 .. n /\ ~(i <= i - 1) BY <1>3, <1>8
  <2>2. Fine(i - 1)
    <3>1. (i - 1) \notin Bad
      <4> HIDE DEF Bad
      <4> QED BY <1>2, <2>1
    <3> HIDE DEF Fine
    <3>2. QED BY <2>1, <3>1
  <2>3. ToSet(g[i]) = ToSet(g[i - 1]) \union ToSet(ss[i]) /\ g[i] \in Seq(S)
    BY <1>5, <1>6, <1>8, <2>2, ConcatElements, ConcatProperties
  <2>4. 1 .. i = (1 .. (i - 1)) \union {i} BY <1>3
  <2>5. {ToSet(ss[k]) : k \in 1 .. i} = {ToSet(ss[k]) : k \in 1 .. (i - 1)} \union {ToSet(ss[i])} BY <2>4
  <2>6. Fine(i) BY <2>2, <2>3, <2>5 DEF ElementsUpTo
  <2>7. QED BY <1>3, <2>6
<1>9. QED BY <1>7, <1>8

\* FlattenSeq has the elements of the sequences, and grows with them.
LEMMA FlattenElements ==
  ASSUME NEW S, NEW ss \in Seq(Seq(S))
  PROVE  /\ FlattenSeq(ss) \in Seq(S)
         /\ ToSet(FlattenSeq(ss)) = ElementsUpTo(ss, Len(ss))
<1>1. PICK n \in Nat : n = Len(ss) OBVIOUS
<1>2. CASE n = 0
  <2>1. ss = <<>> BY <1>1, <1>2, EmptySeq
  <2>2. FlattenSeq(ss) = <<>> BY <1>1, <1>2, <2>1 DEF FlattenSeq
  <2>3. ToSet(<<>>) = {} BY DEF ToSet
  <2>4. {ToSet(ss[i]) : i \in 1 .. n} = {} BY <1>2
  <2>5. <<>> \in Seq(S) OBVIOUS
  <2>6. QED BY <1>1, <2>2, <2>3, <2>4, <2>5 DEF ElementsUpTo
<1>3. CASE n # 0
  <2>0. PICK g : g = CHOOSE f : JoinedUpTo(ss, n, f) OBVIOUS
  <2>1. JoinedUpTo(ss, n, g) BY <2>0, JoinedExists
  <2>2. FlattenSeq(ss) = g[n] BY <1>1, <1>3, <2>0, FlattenIsJoined
  <2>3. n \in 0 .. Len(ss) /\ n \in 1 .. n BY <1>1, <1>3
  <2>4. \A i \in 1 .. n : g[i] \in Seq(S) /\ ToSet(g[i]) = ElementsUpTo(ss, i)
    BY <2>1, <2>3, JoinedElements
  <2>5. QED BY <1>1, <2>2, <2>3, <2>4
<1>4. QED BY <1>2, <1>3

LEMMA FlattenGrows ==
  ASSUME NEW S, NEW ss \in Seq(Seq(S)), NEW s \in Seq(S)
  PROVE  FlattenSeq(Append(ss, s)) = FlattenSeq(ss) \o s
<1>1. PICK n \in Nat : n = Len(ss) OBVIOUS
<1>2. PICK tt : tt = Append(ss, s) OBVIOUS
<1>3. /\ tt \in Seq(Seq(S)) /\ Len(tt) = n + 1 /\ tt[n + 1] = s
      /\ AgreeUpTo(ss, tt, n)
  BY <1>1, <1>2, AppendProperties DEF AgreeUpTo
<1>0. PICK m : m = n + 1 OBVIOUS
<1>4. PICK h : h = CHOOSE f : JoinedUpTo(tt, m, f) OBVIOUS
<1>5. JoinedUpTo(tt, m, h) /\ FlattenSeq(tt) = h[m]
  <2>1. m \in Nat /\ m # 0 /\ Len(tt) = m BY <1>0, <1>3
  <2>2. QED BY <1>4, <2>1, JoinedExists, FlattenIsJoined
<1>6. h[m] = IF m = 1 THEN tt[m] ELSE h[m - 1] \o tt[m]
  <2>1. m \in 1 .. m BY <1>0
  <2>2. QED BY <1>5, <2>1 DEF JoinedUpTo
<1>7. CASE n = 0
  <2>1. ss = <<>> BY <1>1, <1>7, EmptySeq
  <2>2. FlattenSeq(ss) = <<>> BY <1>1, <1>7, <2>1 DEF FlattenSeq
  <2>3. <<>> \o s = s BY ConcatEmptySeq
  <2>4. m = 1 BY <1>0, <1>7
  <2>5. QED BY <1>0, <1>2, <1>3, <1>5, <1>6, <2>2, <2>3, <2>4
<1>8. CASE n # 0
  <2>0. PICK g : g = CHOOSE f : JoinedUpTo(ss, n, f) OBVIOUS
  <2>1. JoinedUpTo(ss, n, g) BY <2>0, JoinedExists
  <2>2. FlattenSeq(ss) = g[n] BY <1>1, <1>8, <2>0, FlattenIsJoined
  <2>3. AgreeUpTo(g, h, n)
    <3>1. m \in Nat /\ n <= m BY <1>0
    <3>2. QED BY <1>3, <1>5, <2>1, <3>1, JoinedAgree
  <2>4. g[n] = h[n] BY <1>8, <2>3 DEF AgreeUpTo
  <2>5. m # 1 /\ m - 1 = n BY <1>0, <1>8
  <2>6. QED BY <1>0, <1>2, <1>3, <1>5, <1>6, <2>2, <2>4, <2>5
<1>9. QED BY <1>7, <1>8

-----------------------------------------------------------------------------
(* ReadBootstrap: the records of pages                                     *)

PageRows == [under : Int, id : Int]
RawPages == [no : Nat, of : ReadResources, under : Int, offset : Nat, ids : Seq(Int), by : Nat]

\* The ids that the pages of a resource have under a parent.
IdsRead(pages, res, p) ==
  UNION {ToSet(pages[i].ids) : i \in {j \in 1 .. Len(pages) : pages[j].of = res /\ pages[j].under = p}}

PageCuts(pages, res) ==
  [i \in DOMAIN pages |-> IF pages[i].of = res THEN IdsUnder(pages[i].ids, pages[i].under) ELSE <<>>]

LEMMA SequencesBySize ==
  ASSUME NEW S, NEW n \in Nat, NEW f \in [1 .. n -> S]
  PROVE  f \in Seq(S) /\ Len(f) = n
  OBVIOUS

LEMMA IdsUnderAreRows ==
  ASSUME NEW ids \in Seq(Int), NEW p \in Int
  PROVE  /\ IdsUnder(ids, p) \in Seq(PageRows)
         /\ ToSet(IdsUnder(ids, p)) = {[under |-> p, id |-> x] : x \in ToSet(ids)}
<1>1. PICK n \in Nat : n = Len(ids) OBVIOUS
<1>2. DOMAIN ids = 1 .. n /\ \A i \in 1 .. n : ids[i] \in Int BY <1>1
<1>3. IdsUnder(ids, p) = [i \in 1 .. n |-> [under |-> p, id |-> ids[i]]] BY <1>2 DEF IdsUnder
<1>4. \A i \in 1 .. n : [under |-> p, id |-> ids[i]] \in PageRows BY <1>2 DEF PageRows
<1>5. IdsUnder(ids, p) \in [1 .. n -> PageRows] BY <1>3, <1>4
<1>6. IdsUnder(ids, p) \in Seq(PageRows) BY <1>5, SequencesBySize
<1>7. PICK rows : rows = IdsUnder(ids, p) OBVIOUS
<1>8. DOMAIN rows = 1 .. n /\ \A i \in 1 .. n : rows[i] = [under |-> p, id |-> ids[i]] BY <1>3, <1>7
<1>9. \A x : x \in ToSet(rows) <=> \E i \in 1 .. n : x = [under |-> p, id |-> ids[i]] BY <1>8 DEF ToSet
<1>10. \A x : x \in ToSet(ids) <=> \E i \in 1 .. n : x = ids[i] BY <1>2 DEF ToSet
<1>11. ToSet(rows) = {[under |-> p, id |-> x] : x \in ToSet(ids)} BY <1>9, <1>10
<1>12. QED BY <1>6, <1>7, <1>11

LEMMA CutsAreSequences ==
  ASSUME NEW pages \in Seq(RawPages), NEW res
  PROVE  PageCuts(pages, res) \in Seq(Seq(PageRows)) /\ Len(PageCuts(pages, res)) = Len(pages)
<1>1. PICK n \in Nat : n = Len(pages) OBVIOUS
<1>2. DOMAIN pages = 1 .. n /\ \A i \in 1 .. n : pages[i] \in RawPages BY <1>1
<1>3. \A i \in 1 .. n : pages[i].ids \in Seq(Int) /\ pages[i].under \in Int BY <1>2 DEF RawPages
<1>4. <<>> \in Seq(PageRows) OBVIOUS
<1>5. \A i \in 1 .. n :
        (IF pages[i].of = res THEN IdsUnder(pages[i].ids, pages[i].under) ELSE <<>>) \in Seq(PageRows)
  BY <1>3, <1>4, IdsUnderAreRows
<1>6. PageCuts(pages, res) \in [1 .. n -> Seq(PageRows)] BY <1>2, <1>5 DEF PageCuts
<1>7. QED BY <1>1, <1>6, SequencesBySize

\* An export has the ids of its pages, each under its parent.
LEMMA RecordsAreRead ==
  ASSUME NEW pages \in Seq(RawPages), NEW res
  PROVE  LET e == RecordsOf(pages, res) IN
         /\ e \in Seq(PageRows)
         /\ \A p : {e[i].id : i \in {j \in DOMAIN e : e[j].under = p}} = IdsRead(pages, res, p)
<1>1. PICK n \in Nat : n = Len(pages) OBVIOUS
<1>2. DOMAIN pages = 1 .. n /\ \A i \in 1 .. n : pages[i] \in RawPages BY <1>1
<1>3. PICK cuts : cuts = PageCuts(pages, res) OBVIOUS
<1>4. cuts \in Seq(Seq(PageRows)) /\ Len(cuts) = n BY <1>1, <1>3, CutsAreSequences
<1>5. PICK e : e = RecordsOf(pages, res) OBVIOUS
<1>6. e = FlattenSeq(cuts) BY <1>3, <1>5 DEF RecordsOf, PageCuts
<1>7. e \in Seq(PageRows) /\ ToSet(e) = UNION {ToSet(cuts[i]) : i \in 1 .. n}
  BY <1>4, <1>6, FlattenElements DEF ElementsUpTo
<1>8. \A i \in 1 .. n : pages[i].of = res =>
        ToSet(cuts[i]) = {[under |-> pages[i].under, id |-> x] : x \in ToSet(pages[i].ids)}
  <2> SUFFICES ASSUME NEW i \in 1 .. n, pages[i].of = res
               PROVE  ToSet(cuts[i]) = {[under |-> pages[i].under, id |-> x] : x \in ToSet(pages[i].ids)}
    OBVIOUS
  <2>1. pages[i].ids \in Seq(Int) /\ pages[i].under \in Int BY <1>2 DEF RawPages
  <2>2. cuts[i] = IdsUnder(pages[i].ids, pages[i].under) BY <1>2, <1>3 DEF PageCuts
  <2>3. QED BY <2>1, <2>2, IdsUnderAreRows
<1>9. \A i \in 1 .. n : pages[i].of # res => ToSet(cuts[i]) = {}
  <2>1. \A i \in 1 .. n : pages[i].of # res => cuts[i] = <<>> BY <1>2, <1>3 DEF PageCuts
  <2>2. ToSet(<<>>) = {} BY DEF ToSet
  <2>3. QED BY <2>1, <2>2
<1>10. ASSUME NEW p, NEW x
       PROVE  (\E i \in DOMAIN e : e[i].under = p /\ e[i].id = x) <=> x \in IdsRead(pages, res, p)
  <2>1. ASSUME NEW i \in DOMAIN e, e[i].under = p, e[i].id = x PROVE x \in IdsRead(pages, res, p)
    <3>1. e[i] \in ToSet(e) BY DEF ToSet
    <3>2. PICK k \in 1 .. n : e[i] \in ToSet(cuts[k]) BY <1>7, <3>1
    <3>3. pages[k].of = res BY <1>9, <3>2
    <3>4. PICK y \in ToSet(pages[k].ids) : e[i] = [under |-> pages[k].under, id |-> y] BY <1>8, <3>2, <3>3
    <3>5. y = x /\ pages[k].under = p BY <2>1, <3>4
    <3>6. k \in 1 .. Len(pages) BY <1>1
    <3>7. QED BY <3>3, <3>4, <3>5, <3>6 DEF IdsRead
  <2>2. ASSUME x \in IdsRead(pages, res, p) PROVE \E i \in DOMAIN e : e[i].under = p /\ e[i].id = x
    <3>1. PICK k \in 1 .. n : pages[k].of = res /\ pages[k].under = p /\ x \in ToSet(pages[k].ids)
      BY <1>1, <2>2 DEF IdsRead
    <3>2. [under |-> p, id |-> x] \in ToSet(cuts[k]) BY <1>8, <3>1
    <3>3. [under |-> p, id |-> x] \in ToSet(e) BY <1>7, <3>2
    <3>4. PICK i \in DOMAIN e : e[i] = [under |-> p, id |-> x] BY <3>3 DEF ToSet
    <3>5. QED BY <3>4
  <2>3. QED BY <2>1, <2>2
<1>11. \A p : {e[i].id : i \in {j \in DOMAIN e : e[j].under = p}} = IdsRead(pages, res, p) BY <1>10
<1>12. QED BY <1>5, <1>7, <1>11

\* A page of another resource changes no export, and no page takes anything back.
LEMMA RecordsStay ==
  ASSUME NEW pages \in Seq(RawPages), NEW raw \in RawPages, NEW res, raw.of # res
  PROVE  RecordsOf(Append(pages, raw), res) = RecordsOf(pages, res)
<1>1. PICK n \in Nat : n = Len(pages) OBVIOUS
<1>2. PICK more : more = Append(pages, raw) OBVIOUS
<1>3. /\ DOMAIN more = 1 .. (n + 1) /\ more[n + 1] = raw
      /\ DOMAIN pages = 1 .. n /\ \A i \in 1 .. n : more[i] = pages[i]
  BY <1>1, <1>2, AppendProperties
<1>4. PICK cuts, longer : cuts = PageCuts(pages, res) /\ longer = PageCuts(more, res) OBVIOUS
<1>5. cuts \in Seq(Seq(PageRows)) /\ Len(cuts) = n BY <1>1, <1>4, CutsAreSequences
<1>6. more \in Seq(RawPages) /\ Len(more) = n + 1 BY <1>1, <1>2, AppendProperties
<1>7. longer \in Seq(Seq(PageRows)) /\ Len(longer) = n + 1 BY <1>4, <1>6, CutsAreSequences
<1>8. \A i \in 1 .. n : longer[i] = cuts[i] BY <1>3, <1>4 DEF PageCuts
<1>9. longer[n + 1] = <<>>
  <2>1. n + 1 \in 1 .. (n + 1) OBVIOUS
  <2>2. QED BY <1>3, <1>4, <2>1 DEF PageCuts
<1>10. <<>> \in Seq(PageRows) OBVIOUS
<1>11. Append(cuts, <<>>) \in Seq(Seq(PageRows)) /\ Len(Append(cuts, <<>>)) = n + 1
       /\ Append(cuts, <<>>)[n + 1] = <<>> /\ \A i \in 1 .. n : Append(cuts, <<>>)[i] = cuts[i]
  BY <1>5, <1>10, AppendProperties
<1>12. longer = Append(cuts, <<>>)
  <2>1. \A i \in 1 .. (n + 1) : longer[i] = Append(cuts, <<>>)[i]
    <3>1. \A i \in 1 .. (n + 1) : i \in 1 .. n \/ i = n + 1 OBVIOUS
    <3>2. QED BY <1>8, <1>9, <1>11, <3>1
  <2>2. QED BY <1>7, <1>11, <2>1, SeqEqual
<1>13. FlattenSeq(longer) = FlattenSeq(cuts) \o <<>> BY <1>5, <1>10, <1>12, FlattenGrows
<1>14. FlattenSeq(cuts) \in Seq(PageRows) BY <1>5, FlattenElements
<1>15. FlattenSeq(cuts) \o <<>> = FlattenSeq(cuts) BY <1>14, ConcatEmptySeq
<1>16. QED BY <1>2, <1>4, <1>13, <1>15 DEF RecordsOf, PageCuts

LEMMA IdsReadGrow ==
  ASSUME NEW pages \in Seq(RawPages), NEW raw \in RawPages
  PROVE  /\ Append(pages, raw) \in Seq(RawPages)
         /\ \A res, p : IdsRead(pages, res, p) \subseteq IdsRead(Append(pages, raw), res, p)
         /\ ToSet(raw.ids) \subseteq IdsRead(Append(pages, raw), raw.of, raw.under)
<1>1. PICK n \in Nat : n = Len(pages) OBVIOUS
<1>2. PICK more : more = Append(pages, raw) OBVIOUS
<1>3. /\ more \in Seq(RawPages) /\ Len(more) = n + 1 /\ more[n + 1] = raw
      /\ \A i \in 1 .. n : more[i] = pages[i]
  BY <1>1, <1>2, AppendProperties
<1>4. \A i \in 1 .. n : i \in 1 .. (n + 1) OBVIOUS
<1>5. n + 1 \in 1 .. (n + 1) OBVIOUS
<1>6. ASSUME NEW res, NEW p PROVE IdsRead(pages, res, p) \subseteq IdsRead(more, res, p)
  BY <1>1, <1>3, <1>4 DEF IdsRead
<1>7. ToSet(raw.ids) \subseteq IdsRead(more, raw.of, raw.under) BY <1>3, <1>5 DEF IdsRead
<1>8. QED BY <1>2, <1>3, <1>6, <1>7

\* The records that are taken of a list.
ChosenIds(records, take) == LET first == FirstOfEach(records, take) IN [i \in DOMAIN first |-> first[i].id]

LEMMA ChosenAreAmong ==
  ASSUME NEW e \in Seq(PageRows), NEW take
  PROVE  /\ ChosenIds(e, take) \in Seq(Int)
         /\ ToSet(ChosenIds(e, take)) = {e[i].id : i \in {j \in DOMAIN e : Among(e, take, j)}}
<1>1. PICK n \in Nat : n = Len(e) OBVIOUS
<1>2. DOMAIN e = 1 .. n /\ \A i \in 1 .. n : e[i] \in PageRows BY <1>1
<1>3. PICK cuts : cuts = [i \in DOMAIN e |-> IF Among(e, take, i) THEN <<e[i]>> ELSE <<>>] OBVIOUS
<1>4. \A i \in 1 .. n : cuts[i] = IF Among(e, take, i) THEN <<e[i]>> ELSE <<>> BY <1>2, <1>3
<1>5. \A i \in 1 .. n : cuts[i] \in Seq(PageRows)
  <2>1. \A i \in 1 .. n : <<e[i]>> \in Seq(PageRows) BY <1>2
  <2>2. <<>> \in Seq(PageRows) OBVIOUS
  <2>3. QED BY <1>4, <2>1, <2>2
<1>6. cuts \in [1 .. n -> Seq(PageRows)] BY <1>2, <1>3, <1>5
<1>7. cuts \in Seq(Seq(PageRows)) /\ Len(cuts) = n BY <1>6, SequencesBySize
<1>8. PICK first : first = FirstOfEach(e, take) OBVIOUS
<1>9. first = FlattenSeq(cuts) BY <1>3, <1>8 DEF FirstOfEach
<1>10. first \in Seq(PageRows) /\ ToSet(first) = UNION {ToSet(cuts[i]) : i \in 1 .. n}
  BY <1>7, <1>9, FlattenElements DEF ElementsUpTo
<1>11. \A i \in 1 .. n : ToSet(cuts[i]) = IF Among(e, take, i) THEN {e[i]} ELSE {}
  <2>1. \A x : ToSet(<<x>>) = {x} BY DEF ToSet
  <2>2. ToSet(<<>>) = {} BY DEF ToSet
  <2>3. QED BY <1>4, <2>1, <2>2
<1>12. ToSet(first) = {e[i] : i \in {j \in DOMAIN e : Among(e, take, j)}}
  <2>1. ASSUME NEW x PROVE x \in ToSet(first) <=> \E i \in 1 .. n : x \in ToSet(cuts[i]) BY <1>10
  <2>2. \A x : x \in ToSet(first) <=> \E i \in 1 .. n : Among(e, take, i) /\ x = e[i] BY <1>11, <2>1
  <2>3. QED BY <1>2, <2>2
<1>13. PICK m \in Nat : m = Len(first) BY <1>10
<1>14. DOMAIN first = 1 .. m /\ \A i \in 1 .. m : first[i].id \in Int
  <2>1. DOMAIN first = 1 .. m /\ \A i \in 1 .. m : first[i] \in PageRows BY <1>10, <1>13
  <2>2. QED BY <2>1 DEF PageRows
<1>15. ChosenIds(e, take) = [i \in 1 .. m |-> first[i].id] BY <1>8, <1>14 DEF ChosenIds
<1>16. ChosenIds(e, take) \in [1 .. m -> Int] BY <1>14, <1>15
<1>17. ToSet(ChosenIds(e, take)) = {x.id : x \in ToSet(first)} BY <1>14, <1>15 DEF ToSet
<1>18. {x.id : x \in ToSet(first)} = {e[i].id : i \in {j \in DOMAIN e : Among(e, take, j)}} BY <1>12
<1>19. QED BY <1>16, <1>17, <1>18, SequencesBySize

-----------------------------------------------------------------------------
(* ReadBootstrap: pages of lists that grow                                 *)

PagedLists  == {"products", "variants", "categories", "orders", "refunds", "boards", "articles", "article_comments"}
SingleLists == {"variant_inventories", "order_items"}
TopLists    == {"products", "categories", "orders", "refunds", "boards"}

LEMMA ListsAreSequences ==
  ASSUME NEW res \in ReadResources, NEW p, NEW k \in Nat
  PROVE  LET rest == IF p \in DOMAIN SourceLists[res] THEN SourceLists[res][p] ELSE <<>> IN
         /\ Arrived(k) \in Seq(Int) /\ Len(Arrived(k)) = k /\ \A i \in 1 .. k : Arrived(k)[i] = NewOrder + k - i
         /\ rest \in Seq(Int)
         /\ ListOf(res, p, k) = (IF res = "orders" THEN Arrived(k) ELSE <<>>) \o rest
         /\ ListOf(res, p, k) \in Seq(Int)
<1> DEFINE rest == IF p \in DOMAIN SourceLists[res] THEN SourceLists[res][p] ELSE <<>>
<1>1. Arrived(k) = [i \in 1 .. k |-> NewOrder + k - i] BY DEF Arrived
<1>2. Arrived(k) \in [1 .. k -> Int] BY <1>1 DEF NewOrder
<1>3. Arrived(k) \in Seq(Int) /\ Len(Arrived(k)) = k BY <1>2, SequencesBySize
<1>4. rest \in Seq(Int)
  <2>1. CASE p \in DOMAIN SourceLists[res]
    <3>1. SourceLists[res][p] \in Seq(Nat) BY <2>1, ReadAssumption
    <3>2. Nat \subseteq Int OBVIOUS
    <3>3. QED BY <2>1, <3>1, <3>2, SeqMonotonic
  <2>2. CASE p \notin DOMAIN SourceLists[res] BY <2>2
  <2>3. QED BY <2>1, <2>2
<1>5. ListOf(res, p, k) = (IF res = "orders" THEN Arrived(k) ELSE <<>>) \o rest BY DEF ListOf
<1> HIDE DEF rest
<1>6. <<>> \in Seq(Int) OBVIOUS
<1>7. ListOf(res, p, k) \in Seq(Int) BY <1>3, <1>4, <1>5, <1>6, ConcatProperties
<1>8. QED BY <1>1, <1>3, <1>4, <1>5, <1>7 DEF rest

\* How far the records of a list have moved since n fewer orders had come in.
Shift(res, n) == IF res = "orders" THEN n ELSE 0

\* Orders that come in move the others to the back, and nothing else moves.
LEMMA ListsMoveBack ==
  ASSUME NEW res \in ReadResources, NEW p, NEW since \in Nat, NEW k \in Nat, since <= k
  PROVE  LET then == ListOf(res, p, since)
             now  == ListOf(res, p, k)
             d    == Shift(res, k - since) IN
         Len(now) = Len(then) + d /\ \A i \in 1 .. Len(then) : now[i + d] = then[i]
<1> DEFINE rest == IF p \in DOMAIN SourceLists[res] THEN SourceLists[res][p] ELSE <<>>
<1>1. CASE res # "orders"
  <2>1. ListOf(res, p, since) = ListOf(res, p, k) BY <1>1 DEF ListOf
  <2>2. PICK l : l = ListOf(res, p, k) OBVIOUS
  <2>3. l \in Seq(Int) BY <2>2, ListsAreSequences
  <2>4. Shift(res, k - since) = 0 BY <1>1 DEF Shift
  <2>5. Len(l) = Len(l) + 0 /\ \A i \in 1 .. Len(l) : l[i + 0] = l[i] BY <2>3
  <2>6. QED BY <2>1, <2>2, <2>4, <2>5
<1>2. CASE res = "orders"
  <2>1. PICK l, m : l = rest /\ m = Len(rest) OBVIOUS
  <2>2. PICK then, now, before, after :
          /\ then = ListOf(res, p, since) /\ now = ListOf(res, p, k)
          /\ before = Arrived(since) /\ after = Arrived(k)
    OBVIOUS
  <2>3. l \in Seq(Int) /\ before \in Seq(Int) /\ after \in Seq(Int) /\ Len(before) = since /\ Len(after) = k
    BY <2>1, <2>2, ListsAreSequences
  <2>4. m \in Nat /\ m = Len(l) BY <2>1, <2>3
  <2>5. then = before \o l /\ now = after \o l BY <1>2, <2>1, <2>2, ListsAreSequences
  <2>6. /\ \A i \in 1 .. since : before[i] = NewOrder + since - i
        /\ \A i \in 1 .. k : after[i] = NewOrder + k - i
    BY <2>2, ListsAreSequences
  <2>7. /\ Len(then) = since + m
        /\ \A i \in 1 .. (since + m) : then[i] = IF i <= since THEN before[i] ELSE l[i - since]
    BY <2>3, <2>4, <2>5, ConcatProperties
  <2>8. /\ Len(now) = k + m
        /\ \A i \in 1 .. (k + m) : now[i] = IF i <= k THEN after[i] ELSE l[i - k]
    BY <2>3, <2>4, <2>5, ConcatProperties
  <2>9. PICK d : d = k - since OBVIOUS
  <2>10. d \in Nat /\ k = since + d BY <2>9
  <2>11. ASSUME NEW i \in 1 .. (since + m) PROVE now[i + d] = then[i]
    <3>1. i + d \in 1 .. (k + m) BY <2>4, <2>10
    <3>2. CASE i <= since
      <4>1. i + d <= k /\ i \in 1 .. since /\ i + d \in 1 .. k BY <2>10, <3>2
      <4>2. now[i + d] = NewOrder + k - (i + d) BY <2>6, <2>8, <3>1, <4>1
      <4>3. then[i] = NewOrder + since - i BY <2>6, <2>7, <3>2, <4>1
      <4>4. NewOrder \in Int BY DEF NewOrder
      <4>5. QED BY <2>10, <4>2, <4>3, <4>4
    <3>3. CASE ~(i <= since)
      <4>0. PICK x : x = i + d OBVIOUS
      <4>1. ~(x <= k) /\ x \in 1 .. (k + m) BY <2>10, <3>1, <3>3, <4>0
      <4>2. now[x] = l[x - k] BY <2>8, <4>1
      <4>3. then[i] = l[i - since] BY <2>7, <3>3
      <4>4. x - k = i - since BY <2>10, <4>0
      <4>5. QED BY <4>0, <4>2, <4>3, <4>4
    <3>4. QED BY <3>2, <3>3
  <2>12. Len(now) = Len(then) + d BY <2>4, <2>7, <2>8, <2>10
  <2>13. Shift(res, k - since) = d BY <1>2, <2>9 DEF Shift
  <2>14. QED BY <2>2, <2>7, <2>11, <2>12, <2>13
<1>3. QED BY <1>1, <1>2

LEMMA PagesAreCut ==
  ASSUME NEW l \in Seq(Int), NEW offset \in Nat
  PROVE  LET page == PageAt(l, offset) IN
         /\ page \in Seq(Int) /\ Len(page) <= PageSize
         /\ Len(page) < PageSize => Len(l) < offset + PageSize
         /\ \A n \in 1 .. Len(l) : (offset < n /\ n <= offset + PageSize) => l[n] \in ToSet(page)
<1>1. PICK m, size \in Nat : m = Len(l) /\ size = PageSize BY ReadAssumption
<1>2. size > 0 BY <1>1, ReadAssumption
<1>3. PICK last : last = Min({offset + size, m}) OBVIOUS
<1>4. last = IF offset + size <= m THEN offset + size ELSE m
  <2>1. PICK a \in Nat : a = offset + size OBVIOUS
  <2>2. Min({a, m}) = CHOOSE x \in {a, m} : \A y \in {a, m} : x <= y BY DEF Min
  <2>3. \E x \in {a, m} : \A y \in {a, m} : x <= y BY <1>1, <2>1
  <2>4. Min({a, m}) \in {a, m} /\ \A y \in {a, m} : Min({a, m}) <= y BY <2>2, <2>3
  <2>5. QED BY <1>1, <1>3, <2>1, <2>4
<1>5. last \in Nat /\ last <= m /\ last <= offset + size BY <1>1, <1>4
<1>6. PICK page : page = SubSeq(l, offset + 1, last) OBVIOUS
<1>7. PageAt(l, offset) = page BY <1>1, <1>3, <1>6 DEF PageAt
<1>8. \A i \in (offset + 1) .. last : l[i] \in Int
  <2>1. \A i \in (offset + 1) .. last : i \in 1 .. m BY <1>1, <1>5
  <2>2. QED BY <1>1, <2>1
<1>9. /\ page \in Seq(Int)
      /\ Len(page) = IF offset + 1 <= last THEN last - (offset + 1) + 1 ELSE 0
      /\ \A i \in 1 .. (last - (offset + 1) + 1) : page[i] = l[offset + 1 + i - 1]
  <2>1. offset + 1 \in Int /\ last \in Int BY <1>5
  <2>2. QED BY <1>6, <1>8, <2>1, SubSeqProperties
<1>10. Len(page) <= size BY <1>1, <1>5, <1>9
<1>11. Len(page) < size => m < offset + size BY <1>1, <1>2, <1>4, <1>9
<1>12. ASSUME NEW n \in 1 .. m, offset < n, n <= offset + size PROVE l[n] \in ToSet(page)
  <2>1. n <= last BY <1>1, <1>4, <1>12
  <2>2. PICK i : i = n - offset OBVIOUS
  <2>3. i \in 1 .. (last - (offset + 1) + 1) /\ offset + 1 + i - 1 = n BY <1>1, <1>5, <1>12, <2>1, <2>2
  <2>4. page[i] = l[n] BY <1>9, <2>3
  <2>5. i \in 1 .. Len(page) BY <1>5, <1>9, <2>3
  <2>6. i \in DOMAIN page BY <1>9, <2>5
  <2>7. QED BY <2>4, <2>6 DEF ToSet
<1>13. QED BY <1>1, <1>7, <1>9, <1>10, <1>11, <1>12

\* A page has what the list has there, and says that there is no more only at its end.
PageIsHonest(page, l, offset) ==
  /\ page.ids \in Seq(Int)
  /\ ~page.more => Len(l) < offset + PageSize
  /\ \A n \in 1 .. Len(l) : (offset < n /\ n <= offset + PageSize) => l[n] \in ToSet(page.ids)

LEMMA FullPagesAreHonest ==
  ASSUME NEW l \in Seq(Int), NEW offset \in Nat
  PROVE  PageIsHonest(FullPage(PageAt(l, offset)), l, offset)
<1>1. PICK ids : ids = PageAt(l, offset) OBVIOUS
<1>2. PageSize \in Nat BY ReadAssumption
<1>3. FullPage(ids).ids = ids /\ (~FullPage(ids).more <=> Len(ids) # PageSize) BY DEF FullPage
<1>4. /\ ids \in Seq(Int) /\ Len(ids) <= PageSize /\ (Len(ids) < PageSize => Len(l) < offset + PageSize)
      /\ \A n \in 1 .. Len(l) : (offset < n /\ n <= offset + PageSize) => l[n] \in ToSet(ids)
  BY <1>1, PagesAreCut
<1>5. Len(ids) \in Nat BY <1>4
<1>6. QED BY <1>1, <1>2, <1>3, <1>4, <1>5 DEF PageIsHonest

LEMMA OverPagesAreHonest ==
  ASSUME NEW l \in Seq(Int), NEW offset \in Nat, NEW above \in Seq(Int)
  PROVE  PageIsHonest(OverPage(above \o PageAt(l, offset)), l, offset)
<1>1. PICK ids, all : ids = PageAt(l, offset) /\ all = above \o ids OBVIOUS
<1>2. PageSize \in Nat BY ReadAssumption
<1>3. OverPage(all).ids = all /\ (~OverPage(all).more <=> ~(Len(all) >= PageSize)) BY DEF OverPage
<1>4. /\ ids \in Seq(Int) /\ (Len(ids) < PageSize => Len(l) < offset + PageSize)
      /\ \A n \in 1 .. Len(l) : (offset < n /\ n <= offset + PageSize) => l[n] \in ToSet(ids)
  BY <1>1, PagesAreCut
<1>5. all \in Seq(Int) /\ Len(all) = Len(above) + Len(ids) BY <1>1, <1>4, ConcatProperties
<1>6. ToSet(ids) \subseteq ToSet(all) BY <1>1, <1>4, ConcatElements
<1>7. Len(ids) \in Nat /\ Len(above) \in Nat BY <1>4
<1>8. ~OverPage(all).more => Len(l) < offset + PageSize BY <1>2, <1>3, <1>4, <1>5, <1>7
<1>9. QED BY <1>1, <1>3, <1>4, <1>5, <1>6, <1>8 DEF PageIsHonest

LEMMA ListsArePaged ==
  ASSUME NEW res \in PagedLists, NEW p \in Int, res \in TopLists => p = Top, NEW offset \in Nat, arrivals \in Nat
  PROVE  PageIsHonest(PageOf(res, p, offset), ListOf(res, p, arrivals), offset)
<1>1. res \in ReadResources BY DEF PagedLists, ReadResources
<1>2. PICK l : l = ListOf(res, p, arrivals) OBVIOUS
<1>3. l \in Seq(Int) BY <1>1, <1>2, ListsAreSequences
<1>4. res # "orders" => ListOf(res, p, 0) = l BY <1>2 DEF ListOf
<1>5. CASE res \in {"products", "variants", "categories", "orders", "refunds", "boards"}
  <2>1. PageOf(res, p, offset) = FullPage(PageAt(l, offset))
    BY <1>2, <1>4, <1>5
       DEF PageOf, ReadProducts, ReadVariants, ReadCategories, ReadOrders, ReadRefunds, ReadBoards, TopLists
  <2>2. QED BY <1>2, <1>3, <2>1, FullPagesAreHonest
<1>6. CASE res = "articles"
  <2>1. PICK above : above = IF offset = 0 THEN Notices(p) ELSE <<>> OBVIOUS
  <2>2. Notices(p) \in Seq(Int)
    <3>1. CASE p \in DOMAIN NoticesOf
      <4>1. NoticesOf[p] \in Seq(Nat) BY <3>1, ReadAssumption
      <4>2. Nat \subseteq Int OBVIOUS
      <4>3. NoticesOf[p] \in Seq(Int) BY <4>1, <4>2, SeqMonotonic
      <4>4. QED BY <3>1, <4>3 DEF Notices
    <3>2. CASE p \notin DOMAIN NoticesOf BY <3>2 DEF Notices
    <3>3. QED BY <3>1, <3>2
  <2>3. above \in Seq(Int) BY <2>1, <2>2
  <2>4. PageOf(res, p, offset) = OverPage(above \o PageAt(l, offset)) BY <1>4, <1>6, <2>1 DEF PageOf, ReadArticles
  <2>5. QED BY <1>2, <1>3, <2>3, <2>4, OverPagesAreHonest
<1>7. CASE res = "article_comments"
  <2>1. PageOf(res, p, offset) = OverPage(PageAt(l, offset)) BY <1>4, <1>7 DEF PageOf, ReadArticleComments
  <2>2. PageAt(l, offset) \in Seq(Int) BY <1>3, PagesAreCut
  <2>3. <<>> \o PageAt(l, offset) = PageAt(l, offset) BY <2>2, ConcatEmptySeq
  <2>4. <<>> \in Seq(Int) OBVIOUS
  <2>5. PageIsHonest(OverPage(<<>> \o PageAt(l, offset)), l, offset) BY <1>3, <2>4, OverPagesAreHonest
  <2>6. QED BY <1>2, <2>1, <2>3, <2>5
<1>8. QED BY <1>5, <1>6, <1>7 DEF PagedLists

LEMMA SingleListsAreWhole ==
  ASSUME NEW res \in SingleLists, NEW p, NEW offset, NEW k
  PROVE  PageOf(res, p, offset).ids = ListOf(res, p, k)
<1>1. ListOf(res, p, 0) = ListOf(res, p, k) BY DEF ListOf, SingleLists
<1>2. CASE res = "variant_inventories" BY <1>1, <1>2 DEF PageOf, ReadVariantInventory, FullPage
<1>3. CASE res = "order_items" BY <1>1, <1>3 DEF PageOf, ReadOrderItems, WholeList
<1>4. QED BY <1>2, <1>3 DEF SingleLists

-----------------------------------------------------------------------------
(* ReadBootstrap: endpoints and stages                                     *)

\* What an endpoint reads does not depend on its argument.
OrdinaryStages(of) ==
  CASE of = "category-products/snapshot" -> SnapshotStages
    [] of = "products/probe"             -> ProductStages(10)
    [] of = "community/probe"            -> CommunityStages(2, 3)
    [] of = "orders/probe"               -> OrderStages(3)
    [] of = "categories/probe"           -> CategoryStages
    [] of = "products/full"              -> ProductStages(PageSize)
    [] of = "read_bootstrap"             -> BootstrapStages
    [] of = "smoke"                      -> LiveReadSmoke.stages
    [] of = "smoke-core"                 -> << TopStage("products", "first"), TopStage("orders", "first") >>
    [] OTHER                             -> <<>>

LEMMA EndpointParts ==
  ASSUME NEW job, job.of \in ReadEndpoints
  PROVE  LET e == Endpoint(job) IN
         /\ e.stages = OrdinaryStages(job.of)
         /\ e.reserves = TRUE <=>
              job.of \in {"products/probe", "community/probe", "orders/probe", "categories/probe",
                           "products/full", "read_bootstrap"}
         /\ e.reserves \in BOOLEAN
         /\ e.keep = "batch" <=>
              job.of \in {"category-products/snapshot", "products/probe", "community/probe", "orders/probe",
                           "categories/probe", "products/full", "read_bootstrap"}
         /\ job.of = "read_bootstrap" => e.from = 0
<1> DEFINE e == Endpoint(job)
<1>1. CASE job.of \in {"products/probe", "community/probe", "orders/probe", "categories/probe", "products/full",
                        "read_bootstrap"}
  BY <1>1 DEF Endpoint, OrdinaryStages, ProductProbe, CommunityProbe, OrderProbe, CategoryProbe, ProductFull,
              WholeBootstrap, Collects
<1>2. CASE job.of = "category-products/snapshot"
  <2>1. OrdinaryStages(job.of) = SnapshotStages BY <1>2 DEF OrdinaryStages
  <2>2. e = CategoryProductsSnapshot(job.arg) BY <1>2 DEF Endpoint
  <2>3. e.stages = SnapshotStages /\ e.reserves = FALSE /\ e.keep = "batch"
    BY <2>2 DEF CategoryProductsSnapshot, Collects
  <2> HIDE DEF e
  <2>4. QED BY <1>2, <2>1, <2>3 DEF e
<1>3. CASE job.of \in {"community/articles/full", "community/comments/full", "orders/full", "orders/items/full",
                        "categories/full", "products/full/run", "refunds/full"}
  <2>1. OrdinaryStages(job.of) = <<>> BY <1>3 DEF OrdinaryStages
  <2>2. \E ok : e = RunsFully(ok)
    BY <1>3 DEF Endpoint, CommunityArticlesFullRun, CommunityCommentsFullRun, OrdersFullRun, OrderItemsFullRun,
                CategoryFullRun, ProductFullRun, RefundsFullRun
  <2>3. e.stages = <<>> /\ e.reserves = FALSE /\ e.keep = "runner" BY <2>2 DEF RunsFully
  <2> HIDE DEF e
  <2>4. QED BY <1>3, <2>1, <2>3 DEF e
<1>4. CASE job.of \in {"community/attachments/full", "smoke", "smoke-core"}
  <2>1. e.stages = OrdinaryStages(job.of)
    BY <1>4 DEF Endpoint, OrdinaryStages, AttachmentsFullRun, LiveReadSmoke, LiveReadCoreSmoke, Looks
  <2>2. e.reserves = FALSE /\ e.keep = "nothing"
    BY <1>4 DEF Endpoint, AttachmentsFullRun, LiveReadSmoke, LiveReadCoreSmoke, Looks
  <2> HIDE DEF e
  <2>3. QED BY <1>4, <2>1, <2>2 DEF e
<1>5. QED BY <1>1, <1>2, <1>3, <1>4 DEF ReadEndpoints

LEMMA StagesAreCounted ==
  ASSUME NEW of
  PROVE  /\ Len(OrdinaryStages(of)) \in Nat
         /\ DOMAIN OrdinaryStages(of) = 1 .. Len(OrdinaryStages(of))
  BY DEF OrdinaryStages, SnapshotStages, ProductStages, CommunityStages, OrderStages, CategoryStages,
         BootstrapStages, LiveReadSmoke, Looks

LEMMA BootstrapHasTen == Len(BootstrapStages) = 10 /\ DOMAIN BootstrapStages = 1 .. 10
  BY DEF BootstrapStages

LEMMA BootstrapStagesFacts ==
  ASSUME NEW j \in 1 .. 10
  PROVE  LET s == BootstrapStages[j] IN
         /\ s.of \in ReadResources /\ s.take \in {Every, ProductBatchSize}
         /\ \/ s.pages = "all" /\ s.of \in PagedLists
            \/ s.pages = "only" /\ s.of \in SingleLists
         /\ s.under \in ReadResources \union {"none"}
         /\ s.of \in TopLists <=> s.under = "none"
         /\ s.take # Every => s.under = "products"
<1>1. j = 1 \/ j = 2 \/ j = 3 \/ j = 4 \/ j = 5 \/ j = 6 \/ j = 7 \/ j = 8 \/ j = 9 \/ j = 10 OBVIOUS
<1>2. QED
  BY <1>1 DEF BootstrapStages, TopStage, Stage, ReadResources, PagedLists, SingleLists, TopLists

\* A stage reads under what an earlier one has read.
LEMMA StagesInOrder ==
  ASSUME NEW i \in 1 .. 10, NEW j \in 1 .. 10, i <= j
  PROVE  BootstrapStages[i].under # BootstrapStages[j].of
<1>1. i = 1 \/ i = 2 \/ i = 3 \/ i = 4 \/ i = 5 \/ i = 6 \/ i = 7 \/ i = 8 \/ i = 9 \/ i = 10 OBVIOUS
<1>2. j = 1 \/ j = 2 \/ j = 3 \/ j = 4 \/ j = 5 \/ j = 6 \/ j = 7 \/ j = 8 \/ j = 9 \/ j = 10 OBVIOUS
<1>3. QED BY <1>1, <1>2 DEF BootstrapStages, TopStage, Stage

LEMMA BootstrapParents ==
  ASSUME NEW job, NEW j \in 1 .. 10, NEW pages \in Seq(RawPages)
  PROVE  LET s  == BootstrapStages[j]
             ps == Parents(job, s, pages) IN
         /\ ps \in Seq(Int)
         /\ s.under = "none" => ps = <<Top>>
         /\ s.under # "none" => ps = ChosenIds(RecordsOf(pages, s.under), s.take)
<1>1. PICK s, ps : s = BootstrapStages[j] /\ ps = Parents(job, s, pages) OBVIOUS
<1>2. s.under \in ReadResources \union {"none"} BY <1>1, BootstrapStagesFacts
<1>3. CASE s.under = "none"
  <2>1. ps = <<Top>> BY <1>1, <1>3 DEF Parents
  <2>2. ps \in Seq(Int) BY <2>1 DEF Top
  <2>3. QED BY <1>1, <1>3, <2>1, <2>2
<1>4. CASE s.under # "none"
  <2>1. s.under \notin {"none", "argument", "commented"} BY <1>2, <1>4 DEF ReadResources
  <2>2. ps = ChosenIds(RecordsOf(pages, s.under), s.take) BY <1>1, <2>1 DEF Parents, ChosenIds
  <2>3. RecordsOf(pages, s.under) \in Seq(PageRows) BY RecordsAreRead
  <2>4. ps \in Seq(Int) BY <2>2, <2>3, ChosenAreAmong
  <2>5. QED BY <1>1, <1>4, <2>2, <2>4
<1>5. QED BY <1>3, <1>4

LEMMA ParentsStay ==
  ASSUME NEW job, NEW j \in 1 .. 10, NEW pages \in Seq(RawPages), NEW raw \in RawPages,
         raw.of # BootstrapStages[j].under
  PROVE  Parents(job, BootstrapStages[j], Append(pages, raw)) = Parents(job, BootstrapStages[j], pages)
<1>1. Append(pages, raw) \in Seq(RawPages) BY IdsReadGrow
<1>2. RecordsOf(Append(pages, raw), BootstrapStages[j].under) = RecordsOf(pages, BootstrapStages[j].under)
  BY RecordsStay
<1>3. QED BY <1>1, <1>2, BootstrapParents

-----------------------------------------------------------------------------
(* ReadBootstrap: what a read bootstrap has read                           *)

\* All that list of the source had when the bootstrap began has been read.
ListIsRead(pages, since, j, p) ==
  ToSet(ListOf(BootstrapStages[j].of, p, since)) \subseteq IdsRead(pages, BootstrapStages[j].of, p)

ParentsAt(job, j, pages) == ToSet(Parents(job, BootstrapStages[j], pages))

StagesAreRead(job, pages, since, n) ==
  \A j \in 1 .. 10 : j < n => \A p \in ParentsAt(job, j, pages) : ListIsRead(pages, since, j, p)

\* Of the list that is being read, what has moved behind the offset was read
\* before it was passed.
ReadUpTo(pages, since, j, p, offset, now) ==
  LET l == ListOf(BootstrapStages[j].of, p, since) IN
  \A i \in 1 .. Len(l) :
    i + Shift(BootstrapStages[j].of, now - since) <= offset => l[i] \in IdsRead(pages, BootstrapStages[j].of, p)

StageIsUnderWay(job, pages, since, j, left, offset, now) ==
  /\ left \in Seq(Int) /\ left # <<>> /\ offset \in Nat
  /\ ToSet(left) \subseteq ParentsAt(job, j, pages)
  /\ \A p \in ParentsAt(job, j, pages) : p \in ToSet(left) \/ ListIsRead(pages, since, j, p)
  /\ ReadUpTo(pages, since, j, Head(left), offset, now)

BootstrapRead(job, pages, since, stage, left, offset, now) ==
  /\ stage \in 1 .. 11 /\ since \in Nat /\ now \in Nat /\ since <= now
  /\ pages \in Seq(RawPages)
  /\ \A i \in 1 .. Len(pages) : pages[i].of \in TopLists => pages[i].under = Top
  /\ StagesAreRead(job, pages, since, stage)
  /\ stage <= 10 => StageIsUnderWay(job, pages, since, stage, left, offset, now)

\* An order that comes in moves the rest away from the offset.
LEMMA OrdersComeIn ==
  ASSUME NEW job, NEW pages, NEW since, NEW stage, NEW left, NEW offset, NEW now,
         BootstrapRead(job, pages, since, stage, left, offset, now)
  PROVE  BootstrapRead(job, pages, since, stage, left, offset, now + 1)
<1>1. since \in Nat /\ now \in Nat /\ since <= now + 1 /\ now + 1 \in Nat BY DEF BootstrapRead
<1>2. ASSUME stage <= 10 PROVE StageIsUnderWay(job, pages, since, stage, left, offset, now + 1)
  <2>1. StageIsUnderWay(job, pages, since, stage, left, offset, now) BY <1>2 DEF BootstrapRead
  <2>2. PICK res, p : res = BootstrapStages[stage].of /\ p = Head(left) OBVIOUS
  <2>3. PICK l : l = ListOf(res, p, since) OBVIOUS
  <2>4. stage \in 1 .. 10 BY <1>2 DEF BootstrapRead
  <2>5. l \in Seq(Int) BY <1>1, <2>2, <2>3, <2>4, BootstrapStagesFacts, ListsAreSequences
  <2>6. \A i \in 1 .. Len(l) : i + Shift(res, now - since) <= offset => l[i] \in IdsRead(pages, res, p)
    BY <2>1, <2>2, <2>3 DEF StageIsUnderWay, ReadUpTo
  <2>0. PICK later : later = now + 1 OBVIOUS
  <2>7. PICK d, e : d = Shift(res, now - since) /\ e = Shift(res, later - since) OBVIOUS
  <2>8. d \in Int /\ e \in Int /\ d <= e BY <1>1, <2>0, <2>7 DEF Shift
  <2>9. offset \in Nat BY <2>1 DEF StageIsUnderWay
  <2>10. \A i \in 1 .. Len(l) : i + e <= offset => i + d <= offset BY <2>5, <2>8, <2>9
  <2>12. \A i \in 1 .. Len(l) : i + Shift(res, later - since) <= offset => l[i] \in IdsRead(pages, res, p)
    BY <2>6, <2>7, <2>10
  <2>13. ReadUpTo(pages, since, stage, Head(left), offset, later) BY <2>2, <2>3, <2>12 DEF ReadUpTo
  <2>14. QED BY <2>0, <2>1, <2>13 DEF StageIsUnderWay
<1>3. QED BY <1>1, <1>2 DEF BootstrapRead

\* The next stage that has lists is under way, and those that are passed over have none.
LEMMA NextStageBegins ==
  ASSUME NEW run, NEW n \in 1 .. 11, NEW now, Endpoint(run.call).stages = BootstrapStages, Endpoint(run.call).from = 0,
         {"stage", "left", "offset", "nr", "tries", "call", "pages", "since"} \subseteq DOMAIN run,
         run.since \in Nat, now \in Nat, run.since <= now, run.pages \in Seq(RawPages),
         \A i \in 1 .. Len(run.pages) : run.pages[i].of \in TopLists => run.pages[i].under = Top,
         StagesAreRead(run.call, run.pages, run.since, n)
  PROVE  LET v == ToStage(run, n) IN
         BootstrapRead(run.call, run.pages, run.since, v.stage, v.left, v.offset, now)
<1>1. PICK job, pages, since : job = run.call /\ pages = run.pages /\ since = run.since OBVIOUS
<1>2. PICK ready : ready = {j \in n .. 10 : Parents(job, BootstrapStages[j], pages) # <<>>} OBVIOUS
<1>3. ready = {j \in n .. Len(Endpoint(run.call).stages) :
                 Parents(run.call, Endpoint(run.call).stages[j], run.pages) # <<>>}
  BY <1>1, <1>2, BootstrapHasTen
<1>4. PICK v : v = ToStage(run, n) OBVIOUS
<1>5. \A j \in n .. 10 : j \notin ready => ParentsAt(job, j, pages) = {}
  <2>1. ToSet(<<>>) = {} BY DEF ToSet
  <2>2. QED BY <1>2, <2>1 DEF ParentsAt
<1>6. CASE ready = {}
  <2>1. v = [run EXCEPT !.stage = 10 + 1, !.left = <<>>] BY <1>3, <1>4, <1>6, BootstrapHasTen DEF ToStage
  <2>2. v.stage = 11 BY <2>1
  <2>3. StagesAreRead(job, pages, since, 11)
    <3>1. \A j \in 1 .. 10 : j < n \/ j \in n .. 10 OBVIOUS
    <3>2. QED BY <1>1, <1>5, <1>6, <3>1 DEF StagesAreRead
  <2>4. QED BY <1>1, <1>4, <2>2, <2>3 DEF BootstrapRead
<1>7. CASE ready # {}
  <2>1. PICK j : j = CHOOSE x \in ready : \A y \in ready : x <= y OBVIOUS
  <2>2. ready \in SUBSET Nat BY <1>2
  <2>3. j \in ready /\ \A y \in ready : j <= y BY <1>7, <2>1, <2>2, SmallestNumber
  <2>4. v = [run EXCEPT !.stage = j, !.left = Parents(job, BootstrapStages[j], pages),
               !.offset = IF j = 1 THEN 0 ELSE 0, !.nr = 0, !.tries = 0]
    BY <1>1, <1>3, <1>4, <1>7, <2>1 DEF ToStage
  <2>5. v.stage = j /\ v.left = Parents(job, BootstrapStages[j], pages) /\ v.offset = 0 BY <2>4
  <2>6. j \in n .. 10 /\ j \in 1 .. 10 /\ v.left # <<>> BY <1>2, <2>3, <2>5
  <2>7. StagesAreRead(job, pages, since, j)
    <3>1. \A i \in 1 .. 10 : i < j => i < n \/ (i \in n .. 10 /\ i \notin ready) BY <2>2, <2>3, <2>6
    <3>2. QED BY <1>1, <1>5, <3>1 DEF StagesAreRead
  <2>8. v.left \in Seq(Int)
    <3>1. pages \in Seq(RawPages) BY <1>1
    <3>2. Parents(job, BootstrapStages[j], pages) \in Seq(Int) BY <2>6, <3>1, BootstrapParents
    <3>3. QED BY <2>5, <3>2
  <2>9. ReadUpTo(pages, since, j, Head(v.left), 0, now)
    <3>1. PICK res, p : res = BootstrapStages[j].of /\ p = Head(v.left) OBVIOUS
    <3>2. PICK l : l = ListOf(res, p, since) OBVIOUS
    <3>3. l \in Seq(Int) BY <1>1, <2>6, <3>1, <3>2, BootstrapStagesFacts, ListsAreSequences
    <3>4. PICK d : d = Shift(res, now - since) OBVIOUS
    <3>5. d \in Nat BY <1>1, <3>4 DEF Shift
    <3>6. \A i \in 1 .. Len(l) : ~(i + d <= 0) BY <3>3, <3>5
    <3>7. QED BY <3>1, <3>2, <3>4, <3>6 DEF ReadUpTo
  <2>10. StageIsUnderWay(job, pages, since, j, v.left, v.offset, now)
    BY <2>5, <2>6, <2>8, <2>9 DEF StageIsUnderWay, ParentsAt
  <2>11. QED BY <1>1, <1>4, <2>5, <2>6, <2>7, <2>10 DEF BootstrapRead
<1>8. QED BY <1>6, <1>7

\* A page is read: the list goes on after it, or all of it has been read.
LEMMA PageIsPassed ==
  ASSUME NEW job, NEW pages, NEW since, NEW j \in 1 .. 10, NEW left, NEW offset,
         BootstrapRead(job, pages, since, j, left, offset, arrivals),
         NEW raw \in RawPages, raw.of = BootstrapStages[j].of, raw.under = Head(left),
         NEW page, page = PageOf(BootstrapStages[j].of, Head(left), offset), raw.ids = page.ids,
         NEW on, on = offset + PageSize, NEW next, next = j + 1
  PROVE  LET s    == BootstrapStages[j]
             more == Append(pages, raw) IN
         /\ more \in Seq(RawPages)
         /\ \A i \in 1 .. Len(more) : more[i].of \in TopLists => more[i].under = Top
         /\ StagesAreRead(job, more, since, j)
         /\ (s.pages = "all" /\ page.more) => StageIsUnderWay(job, more, since, j, left, on, arrivals)
         /\ ~(s.pages = "all" /\ page.more) /\ Len(left) > 1 =>
              StageIsUnderWay(job, more, since, j, Tail(left), 0, arrivals)
         /\ ~(s.pages = "all" /\ page.more) /\ ~(Len(left) > 1) => StagesAreRead(job, more, since, next)
<1>1. PICK s, more : s = BootstrapStages[j] /\ more = Append(pages, raw) OBVIOUS
<1>2. PICK res, p : res = s.of /\ p = Head(left) OBVIOUS
<1>3. /\ s.of \in ReadResources
      /\ \/ s.pages = "all" /\ s.of \in PagedLists
         \/ s.pages = "only" /\ s.of \in SingleLists
      /\ s.of \in TopLists <=> s.under = "none"
  BY <1>1, BootstrapStagesFacts
<1>4. /\ pages \in Seq(RawPages) /\ StagesAreRead(job, pages, since, j)
      /\ since \in Nat /\ arrivals \in Nat /\ since <= arrivals
      /\ \A i \in 1 .. Len(pages) : pages[i].of \in TopLists => pages[i].under = Top
  BY DEF BootstrapRead
<1>5. StageIsUnderWay(job, pages, since, j, left, offset, arrivals) BY DEF BootstrapRead
<1>6. /\ left \in Seq(Int) /\ left # <<>> /\ offset \in Nat /\ ToSet(left) \subseteq ParentsAt(job, j, pages)
      /\ \A q \in ParentsAt(job, j, pages) : q \in ToSet(left) \/ ListIsRead(pages, since, j, q)
      /\ ReadUpTo(pages, since, j, p, offset, arrivals)
  BY <1>2, <1>5 DEF StageIsUnderWay
<1>7. /\ more \in Seq(RawPages) /\ \A a, q : IdsRead(pages, a, q) \subseteq IdsRead(more, a, q)
      /\ ToSet(page.ids) \subseteq IdsRead(more, res, p)
  <2>1. ToSet(raw.ids) \subseteq IdsRead(Append(pages, raw), raw.of, raw.under) BY <1>4, IdsReadGrow
  <2>2. QED BY <1>1, <1>2, <1>4, <2>1, IdsReadGrow
<1>8. PICK m \in Nat : m = Len(left) BY <1>6
<1>9. m > 0 /\ DOMAIN left = 1 .. m /\ p = left[1] /\ p \in Int /\ p \in ToSet(left)
  <2>1. m > 0 /\ DOMAIN left = 1 .. m BY <1>6, <1>8
  <2>2. p = left[1] BY <1>2, <1>6, <2>1
  <2>3. QED BY <1>6, <2>1, <2>2 DEF ToSet
<1>10. \A i \in 1 .. 10 : i <= j => ParentsAt(job, i, more) = ParentsAt(job, i, pages)
  <2>1. \A i \in 1 .. 10 : i <= j => raw.of # BootstrapStages[i].under BY StagesInOrder
  <2>2. QED BY <1>1, <1>4, <2>1, ParentsStay DEF ParentsAt
<1>11. res \in TopLists => p = Top
  <2>1. ASSUME s.under = "none" PROVE p = Top
    <3>1. Parents(job, s, pages) = <<Top>> BY <1>1, <1>4, <2>1, BootstrapParents
    <3>2. ParentsAt(job, j, pages) = {Top} BY <1>1, <3>1 DEF ParentsAt, ToSet
    <3>3. QED BY <1>6, <1>9, <3>2
  <2>2. QED BY <1>2, <1>3, <2>1
<1>12. \A i \in 1 .. Len(more) : more[i].of \in TopLists => more[i].under = Top
  <2>1. PICK n \in Nat : n = Len(pages) BY <1>4
  <2>2. /\ Len(more) = n + 1 /\ more[n + 1] = raw /\ \A i \in 1 .. n : more[i] = pages[i]
    BY <1>1, <1>4, <2>1, AppendProperties
  <2>3. \A i \in 1 .. (n + 1) : i \in 1 .. n \/ i = n + 1 OBVIOUS
  <2>4. raw.of = res /\ raw.under = p BY <1>1, <1>2
  <2>5. QED BY <1>4, <1>11, <2>1, <2>2, <2>3, <2>4
<1>13. \A i \in 1 .. 10 : \A q : ListIsRead(pages, since, i, q) => ListIsRead(more, since, i, q)
  BY <1>7 DEF ListIsRead
<1>14. StagesAreRead(job, more, since, j)
  <2>1. \A i \in 1 .. 10 : i < j => i <= j OBVIOUS
  <2>2. QED BY <1>4, <1>10, <1>13, <2>1 DEF StagesAreRead
<1>15. ParentsAt(job, j, more) = ParentsAt(job, j, pages) BY <1>10
<1>16. PICK then, now, d : then = ListOf(res, p, since) /\ now = ListOf(res, p, arrivals)
                           /\ d = Shift(res, arrivals - since)
  OBVIOUS
<1>17. then \in Seq(Int) /\ now \in Seq(Int) BY <1>2, <1>3, <1>4, <1>16, ListsAreSequences
<1>18. Len(now) = Len(then) + d /\ \A i \in 1 .. Len(then) : now[i + d] = then[i]
  BY <1>2, <1>3, <1>4, <1>16, ListsMoveBack
<1>19. d \in Nat BY <1>4, <1>16 DEF Shift
<1>20. \A i \in 1 .. Len(then) : i + d <= offset => then[i] \in IdsRead(more, res, p)
  <2>1. \A i \in 1 .. Len(then) : i + d <= offset => then[i] \in IdsRead(pages, res, p)
    BY <1>1, <1>2, <1>6, <1>16 DEF ReadUpTo
  <2>2. QED BY <1>7, <2>1
<1>21. ASSUME s.pages = "all"
       PROVE  /\ \A i \in 1 .. Len(then) : i + d <= offset + PageSize => then[i] \in IdsRead(more, res, p)
              /\ ~page.more => \A i \in 1 .. Len(then) : then[i] \in IdsRead(more, res, p)
  <2>1. res \in PagedLists BY <1>2, <1>3, <1>21
  <2>2. PageIsHonest(page, now, offset) BY <1>1, <1>2, <1>4, <1>6, <1>9, <1>11, <1>16, <2>1, ListsArePaged
  <2>3. PageSize \in Nat BY ReadAssumption
  <2>4. ASSUME NEW i \in 1 .. Len(then), i + d <= offset + PageSize PROVE then[i] \in IdsRead(more, res, p)
    <3>1. CASE i + d <= offset BY <1>20, <3>1
    <3>2. CASE ~(i + d <= offset)
      <4>1. i + d \in 1 .. Len(now) BY <1>17, <1>18, <1>19
      <4>2. offset < i + d BY <1>6, <1>19, <3>2
      <4>3. now[i + d] \in ToSet(page.ids) BY <2>2, <2>4, <4>1, <4>2 DEF PageIsHonest
      <4>4. QED BY <1>7, <1>18, <4>3
    <3>3. QED BY <3>1, <3>2
  <2>5. ~page.more => Len(now) < offset + PageSize BY <2>2 DEF PageIsHonest
  <2>6. ~page.more => \A i \in 1 .. Len(then) : i + d <= offset + PageSize
    BY <1>6, <1>17, <1>18, <1>19, <2>3, <2>5
  <2>7. QED BY <2>4, <2>6
<1>22. ASSUME s.pages = "all", page.more
       PROVE  StageIsUnderWay(job, more, since, j, left, offset + PageSize, arrivals)
  <2>1. ReadUpTo(more, since, j, p, offset + PageSize, arrivals) BY <1>1, <1>2, <1>16, <1>21, <1>22 DEF ReadUpTo
  <2>2. offset + PageSize \in Nat BY <1>6, ReadAssumption
  <2>3. QED BY <1>2, <1>6, <1>13, <1>15, <2>1, <2>2 DEF StageIsUnderWay
<1>23. ASSUME ~(s.pages = "all" /\ page.more) PROVE ListIsRead(more, since, j, p)
  <2>1. CASE s.pages = "all"
    <3>1. \A i \in 1 .. Len(then) : then[i] \in IdsRead(more, res, p) BY <1>21, <1>23, <2>1
    <3>2. ToSet(then) \subseteq IdsRead(more, res, p) BY <1>17, <3>1 DEF ToSet
    <3>3. QED BY <1>1, <1>2, <1>16, <3>2 DEF ListIsRead
  <2>2. CASE s.pages # "all"
    <3>1. res \in SingleLists BY <1>2, <1>3, <2>2
    <3>2. page.ids = then BY <1>1, <1>2, <1>16, <3>1, SingleListsAreWhole
    <3>3. QED BY <1>1, <1>2, <1>7, <1>16, <3>2 DEF ListIsRead
  <2>3. QED BY <2>1, <2>2
<1>24. ASSUME ~(s.pages = "all" /\ page.more), m > 1
       PROVE  StageIsUnderWay(job, more, since, j, Tail(left), 0, arrivals)
  <2>1. PICK rest : rest = Tail(left) OBVIOUS
  <2>2. rest \in Seq(Int) /\ Len(rest) = m - 1 /\ \A i \in 1 .. (m - 1) : rest[i] = left[i + 1]
    BY <1>6, <1>8, <2>1, HeadTailProperties
  <2>3. DOMAIN rest = 1 .. (m - 1) /\ rest # <<>> BY <1>24, <2>2
  <2>4. ToSet(left) = {p} \union ToSet(rest)
    <3>1. \A i \in 1 .. m : i = 1 \/ (i - 1 \in 1 .. (m - 1) /\ left[i] = rest[i - 1]) BY <2>2
    <3>2. \A i \in 1 .. (m - 1) : i + 1 \in 1 .. m /\ rest[i] = left[i + 1] BY <2>2
    <3>3. \A x : x \in ToSet(left) <=> \E i \in 1 .. m : x = left[i] BY <1>9 DEF ToSet
    <3>4. \A x : x \in ToSet(rest) <=> \E i \in 1 .. (m - 1) : x = rest[i] BY <2>3 DEF ToSet
    <3>5. ASSUME NEW x PROVE x \in ToSet(left) <=> x = p \/ x \in ToSet(rest)
      <4>1. ASSUME x \in ToSet(left), x # p PROVE x \in ToSet(rest)
        <5>1. PICK i \in 1 .. m : x = left[i] BY <3>3, <4>1
        <5>2. i # 1 BY <1>9, <4>1, <5>1
        <5>3. i - 1 \in 1 .. (m - 1) /\ x = rest[i - 1] BY <3>1, <5>1, <5>2
        <5>4. QED BY <3>4, <5>3
      <4>2. ASSUME x \in ToSet(rest) PROVE x \in ToSet(left)
        <5>1. PICK i \in 1 .. (m - 1) : x = rest[i] BY <3>4, <4>2
        <5>2. i + 1 \in 1 .. m /\ x = left[i + 1] BY <3>2, <5>1
        <5>3. QED BY <3>3, <5>2
      <4>3. QED BY <1>9, <4>1, <4>2
    <3>6. QED BY <3>5
  <2>5. ToSet(rest) \subseteq ParentsAt(job, j, more) BY <1>6, <1>15, <2>4
  <2>6. \A q \in ParentsAt(job, j, more) : q \in ToSet(rest) \/ ListIsRead(more, since, j, q)
    BY <1>6, <1>13, <1>15, <1>23, <1>24, <2>4
  <2>7. ReadUpTo(more, since, j, Head(rest), 0, arrivals)
    <3>1. PICK l : l = ListOf(res, Head(rest), since) OBVIOUS
    <3>2. l \in Seq(Int) BY <1>2, <1>3, <1>4, <3>1, ListsAreSequences
    <3>3. \A i \in 1 .. Len(l) : ~(i + d <= 0) BY <1>19, <3>2
    <3>4. QED BY <1>1, <1>2, <1>16, <3>1, <3>3 DEF ReadUpTo
  <2>8. QED BY <2>1, <2>2, <2>3, <2>5, <2>6, <2>7 DEF StageIsUnderWay
<1>25. ASSUME ~(s.pages = "all" /\ page.more), ~(m > 1) PROVE StagesAreRead(job, more, since, j + 1)
  <2>1. ToSet(left) = {p} BY <1>8, <1>9, <1>25 DEF ToSet
  <2>2. \A q \in ParentsAt(job, j, more) : ListIsRead(more, since, j, q)
    BY <1>6, <1>13, <1>15, <1>23, <1>25, <2>1
  <2>3. \A i \in 1 .. 10 : i < j + 1 => i < j \/ i = j OBVIOUS
  <2>4. QED BY <1>14, <2>2, <2>3 DEF StagesAreRead
<1>26. QED BY <1>1, <1>7, <1>8, <1>12, <1>14, <1>22, <1>24, <1>25

\* The page of a list that a bootstrap is at, and what has been read after it.
AtList(job, pages, since, j, left, offset, raw, page) ==
  /\ j \in 1 .. 10 /\ BootstrapRead(job, pages, since, j, left, offset, arrivals)
  /\ raw \in RawPages /\ raw.of = BootstrapStages[j].of /\ raw.under = Head(left)
  /\ page = PageOf(BootstrapStages[j].of, Head(left), offset) /\ raw.ids = page.ids

ListPassed(job, more, since, j, left, page, on, next) ==
  LET goesOn == BootstrapStages[j].pages = "all" /\ page.more IN
  /\ more \in Seq(RawPages)
  /\ \A i \in 1 .. Len(more) : more[i].of \in TopLists => more[i].under = Top
  /\ StagesAreRead(job, more, since, j)
  /\ goesOn => StageIsUnderWay(job, more, since, j, left, on, arrivals)
  /\ ~goesOn /\ Len(left) > 1 => StageIsUnderWay(job, more, since, j, Tail(left), 0, arrivals)
  /\ ~goesOn /\ ~(Len(left) > 1) => StagesAreRead(job, more, since, next)

LEMMA ListIsPassed ==
  ASSUME NEW job, NEW pages, NEW since, NEW j, NEW left, NEW offset, NEW raw, NEW page,
         AtList(job, pages, since, j, left, offset, raw, page),
         NEW on, on = offset + PageSize, NEW next, next = j + 1
  PROVE  ListPassed(job, Append(pages, raw), since, j, left, page, on, next)
BY PageIsPassed, ZenonT(30) DEF AtList, ListPassed

-----------------------------------------------------------------------------
(* ReadBootstrap: the inductive invariant of batches                       *)

IsList(s) == \E S : s \in Seq(S)

RunFields ==
  {"pc", "call", "token", "scopes", "at", "since", "by", "sent", "pages", "stage", "left", "offset", "nr", "tries",
   "exported"}

KeepsBatch(v) == Endpoint(v.call).keep = "batch"
Reserving(v)  == Endpoint(v.call).reserves
BatchAt(v)    == BatchId(v.call, v.at)

\* A call owns its batch once it has reserved it or stored a page in it.
OwnsBatch(v) == v.pc = "read" /\ KeepsBatch(v) /\ (Reserving(v) \/ v.pages # <<>>)

MemoryOK(v, now) ==
  /\ v.pc # "idle" => {"pc", "call", "by"} \subseteq DOMAIN v /\ v.call \in ReadCalls /\ v.by \in Nat
  /\ v.pc \notin {"idle", "gate"} =>
       /\ RunFields \subseteq DOMAIN v /\ v.exported \in Nat /\ IsList(v.pages)
       /\ v.pc = "check" => KeepsBatch(v)
       /\ v.pc = "reserve" => KeepsBatch(v) /\ Reserving(v)
       /\ v.pc \in {"check", "reserve"} => v.pages = <<>> /\ v.exported = 0
       /\ KeepsBatch(v) /\ ~Reserving(v) /\ v.pages = <<>> => v.stage = 1 /\ v.exported = 0
       /\ v.call.of = "read_bootstrap" =>
            BootstrapRead(v.call, v.pages, v.since, v.stage, v.left, v.offset, now)

ExportedSoFar(v) == {Endpoint(v.call).stages[i].of : i \in 1 .. v.exported}

\* What is stored in a batch is what its owner has in memory.
OwnerOK(v, k) ==
  /\ k.pages = v.pages /\ k.manifest = NotThere
  /\ \A i \in 1 .. Len(v.pages) : v.pages[i].by = v.by
  /\ v.exported <= Len(Endpoint(v.call).stages)
  /\ v.exported # 0 => ~(v.stage <= Len(Endpoint(v.call).stages))
  /\ DOMAIN k.exports = ExportedSoFar(v)
  /\ \A res \in DOMAIN k.exports : k.exports[res] = RecordsOf(v.pages, res)
  /\ Reserving(v) => k.reserved = TRUE /\ k.since = v.since

ParentsIn(k, s) ==
  IF s.under = "none" THEN {Top}
  ELSE {k.exports[s.under][i].id : i \in {j \in DOMAIN k.exports[s.under] : s.take = Every \/ j <= s.take}}

IdsIn(e, p) == {e[i].id : i \in {j \in DOMAIN e : e[j].under = p}}

HasWhatWasListed(k) ==
  \A j \in 1 .. 10 : LET s == BootstrapStages[j] IN
    \A p \in ParentsIn(k, s) : ToSet(ListOf(s.of, p, k.since)) \subseteq IdsIn(k.exports[s.of], p)

WholeBatch(b, k) ==
  LET stages == OrdinaryStages(b.of) IN
  /\ \A i, j \in DOMAIN k.pages : k.pages[i].by = k.pages[j].by
  /\ k.manifest = {k.pages[i].no : i \in DOMAIN k.pages}
  /\ DOMAIN k.exports = {stages[i].of : i \in DOMAIN stages}
  /\ \A res \in DOMAIN k.exports : k.exports[res] = RecordsOf(k.pages, res)
  /\ b.of = "read_bootstrap" => HasWhatWasListed(k)

\* Nothing was stored in a batch before it had an owner.
Untouched(k) == k.pages = <<>> /\ DOMAIN k.exports = {} /\ k.manifest = NotThere

ReservingEndpoints ==
  {"products/probe", "community/probe", "orders/probe", "categories/probe", "products/full", "read_bootstrap"}

CaptureOK(b, k) ==
  /\ {"reserved", "since", "pages", "exports", "manifest"} \subseteq DOMAIN k
  /\ IsList(k.pages)
  /\ b.of \in ReservingEndpoints /\ k.reserved # TRUE => Untouched(k)
  /\ b.of = "category-products/snapshot" =>
       IF k.pages = <<>> THEN Untouched(k)
       ELSE k.pages[1].no = 1 /\ k.pages[1].of = "category_product_relations"
  /\ k.manifest \notin {NotThere, TornFile} => WholeBatch(b, k)

Alone(r) == \A q \in Readers \ {r} : OwnsBatch(reader[q]) => BatchAt(reader[q]) # BatchAt(reader[r])

\* What these files have under a batch id.
StoredIn(files, b) == IF b \in DOMAIN files THEN files[b] ELSE NoCapture

BatchInv ==
  /\ arrivals \in Nat /\ Len(served) \in Nat
  /\ DOMAIN reader = Readers
  /\ \A r \in Readers : MemoryOK(reader[r], arrivals)
  /\ \A r \in Readers : OwnsBatch(reader[r]) => Alone(r) /\ OwnerOK(reader[r], StoredIn(captures, BatchAt(reader[r])))
  /\ \A b \in DOMAIN captures : b.of \in ReadEndpoints /\ CaptureOK(b, captures[b])

-----------------------------------------------------------------------------
(* ReadBootstrap: what a step rewrites                                     *)

LEMMA ListGrows ==
  ASSUME NEW s, IsList(s), NEW x
  PROVE  /\ IsList(Append(s, x)) /\ Append(s, x) # <<>>
         /\ Len(s) \in Nat /\ Len(Append(s, x)) = Len(s) + 1
         /\ DOMAIN s = 1 .. Len(s)
         /\ \A i \in 1 .. Len(s) : Append(s, x)[i] = s[i]
         /\ Append(s, x)[Len(s) + 1] = x
<1>1. PICK S : s \in Seq(S) BY DEF IsList
<1>2. PICK T : T = S \union {x} OBVIOUS
<1>3. S \subseteq T /\ x \in T BY <1>2
<1>4. s \in Seq(T) BY <1>1, <1>3, SeqMonotonic
<1>5. /\ Append(s, x) \in Seq(T) /\ Append(s, x) # <<>> /\ Len(Append(s, x)) = Len(s) + 1
      /\ \A i \in 1 .. Len(s) : Append(s, x)[i] = s[i]
      /\ Append(s, x)[Len(s) + 1] = x
  BY <1>3, <1>4, AppendProperties
<1>6. Len(s) \in Nat /\ DOMAIN s = 1 .. Len(s) BY <1>1, LenProperties
<1>7. QED BY <1>5, <1>6 DEF IsList

LEMMA EmptyIsList == IsList(<<>>) /\ DOMAIN <<>> = {} /\ Len(<<>>) = 0
<1>1. <<>> \in Seq({}) OBVIOUS
<1>2. QED BY <1>1 DEF IsList

\* A batch that nobody has written yet is in order.
LEMMA NoCaptureIsOK == ASSUME NEW b PROVE CaptureOK(b, NoCapture)
<1>1. /\ NoCapture.pages = <<>> /\ NoCapture.exports = <<>> /\ NoCapture.manifest = NotThere
      /\ {"reserved", "since", "pages", "exports", "manifest"} \subseteq DOMAIN NoCapture
  BY DEF NoCapture
<1>2. Untouched(NoCapture) BY <1>1, EmptyIsList DEF Untouched
<1>3. QED BY <1>1, <1>2, EmptyIsList DEF CaptureOK

LEMMA BatchesAreKept ==
  ASSUME BatchInv, NEW b
  PROVE  CaptureOK(b, StoredIn(captures, b)) /\ KeptAs(b) = StoredIn(captures, b)
  BY NoCaptureIsOK DEF BatchInv, KeptAs, StoredIn

\* A step of one call that writes no file.
LEMMA MemoryRewritten ==
  ASSUME BatchInv, NEW r \in Readers, NEW v, Becomes(r, v), UNCHANGED <<captures, arrivals>>, Len(served') \in Nat,
         MemoryOK(v, arrivals),
         OwnsBatch(v) => /\ OwnsBatch(reader[r]) /\ BatchAt(v) = BatchAt(reader[r])
                         /\ OwnerOK(v, StoredIn(captures, BatchAt(v)))
  PROVE  BatchInv'
<1>1. reader'[r] = v /\ DOMAIN reader' = Readers /\ \A q \in Readers \ {r} : reader'[q] = reader[q]
  BY DEF Becomes, BatchInv
<1>2. \A q \in Readers : MemoryOK(reader'[q], arrivals) BY <1>1 DEF BatchInv
<1>3. ASSUME NEW q \in Readers, OwnsBatch(reader'[q])
      PROVE  /\ \A p \in Readers \ {q} : OwnsBatch(reader'[p]) => BatchAt(reader'[p]) # BatchAt(reader'[q])
             /\ OwnerOK(reader'[q], StoredIn(captures, BatchAt(reader'[q])))
  <2>1. \A p \in Readers : OwnsBatch(reader'[p]) => OwnsBatch(reader[p]) /\ BatchAt(reader'[p]) = BatchAt(reader[p])
    BY <1>1
  <2>2. OwnsBatch(reader[q]) /\ BatchAt(reader'[q]) = BatchAt(reader[q]) BY <1>3, <2>1
  <2>3. \A p \in Readers \ {q} : OwnsBatch(reader[p]) => BatchAt(reader[p]) # BatchAt(reader[q])
    BY <2>2 DEF BatchInv, Alone
  <2>4. OwnerOK(reader'[q], StoredIn(captures, BatchAt(reader'[q])))
    <3>1. CASE q = r BY <1>1, <1>3, <3>1
    <3>2. CASE q # r BY <1>1, <2>2, <3>2 DEF BatchInv
    <3>3. QED BY <3>1, <3>2
  <2>5. QED BY <2>1, <2>2, <2>3, <2>4
<1>4. \A b \in DOMAIN captures' : b.of \in ReadEndpoints /\ CaptureOK(b, captures'[b]) BY DEF BatchInv
<1>5. QED BY <1>1, <1>2, <1>3, <1>4 DEF BatchInv, Alone

\* A step of a call that writes in a batch that is nobody else's.
LEMMA FilesRewritten ==
  ASSUME BatchInv, NEW r \in Readers, NEW v, NEW k, Becomes(r, v), Keep(r, k), UNCHANGED <<arrivals, served>>,
         reader[r].call.of \in ReadEndpoints, MemoryOK(v, arrivals), CaptureOK(BatchAt(reader[r]), k), Alone(r),
         OwnsBatch(v) => BatchAt(v) = BatchAt(reader[r]) /\ OwnerOK(v, k)
  PROVE  BatchInv'
<1>1. reader'[r] = v /\ DOMAIN reader' = Readers /\ \A q \in Readers \ {r} : reader'[q] = reader[q]
  BY DEF Becomes, BatchInv
<1>2. PICK b : b = BatchAt(reader[r]) OBVIOUS
<1>3. b = Batch(r) /\ b.of = reader[r].call.of BY <1>2 DEF Batch, BatchAt, BatchId
<1>4. /\ DOMAIN captures' = DOMAIN captures \union {b} /\ captures'[b] = k
      /\ \A c \in DOMAIN captures : c # b => captures'[c] = captures[c]
  BY <1>3 DEF Keep
<1>5. StoredIn(captures', b) = k /\ \A c : c # b => StoredIn(captures', c) = StoredIn(captures, c)
  BY <1>4 DEF StoredIn
<1>6. \A q \in Readers : MemoryOK(reader'[q], arrivals) BY <1>1 DEF BatchInv
<1>7. \A q \in Readers \ {r} : OwnsBatch(reader'[q]) => BatchAt(reader'[q]) # b BY <1>1, <1>2 DEF Alone
<1>8. ASSUME NEW q \in Readers, OwnsBatch(reader'[q])
      PROVE  /\ \A p \in Readers \ {q} : OwnsBatch(reader'[p]) => BatchAt(reader'[p]) # BatchAt(reader'[q])
             /\ OwnerOK(reader'[q], StoredIn(captures', BatchAt(reader'[q])))
  <2>1. CASE q = r
    <3>1. BatchAt(v) = b /\ OwnerOK(v, k) BY <1>1, <1>2, <1>8, <2>1
    <3>2. StoredIn(captures', BatchAt(reader'[q])) = k BY <1>1, <1>5, <2>1, <3>1
    <3>3. QED BY <1>1, <1>7, <2>1, <3>1, <3>2
  <2>2. CASE q # r
    <3>1. OwnsBatch(reader[q]) /\ reader'[q] = reader[q] BY <1>1, <1>8, <2>2
    <3>2. BatchAt(reader[q]) # b BY <1>7, <1>8, <2>2, <3>1
    <3>3. /\ \A p \in Readers \ {q} : OwnsBatch(reader[p]) => BatchAt(reader[p]) # BatchAt(reader[q])
          /\ OwnerOK(reader[q], StoredIn(captures, BatchAt(reader[q])))
      BY <3>1 DEF BatchInv, Alone
    <3>4. StoredIn(captures', BatchAt(reader'[q])) = StoredIn(captures, BatchAt(reader[q])) BY <1>5, <3>1, <3>2
    <3>5. OwnerOK(reader'[q], StoredIn(captures', BatchAt(reader'[q]))) BY <3>1, <3>3, <3>4
    <3>6. ASSUME NEW p \in Readers \ {q}, OwnsBatch(reader'[p]) PROVE BatchAt(reader'[p]) # BatchAt(reader'[q])
      <4>1. CASE p = r BY <1>1, <1>2, <1>8, <2>2, <3>1, <3>2, <3>6, <4>1
      <4>2. CASE p # r BY <1>1, <3>1, <3>3, <3>6, <4>2
      <4>3. QED BY <4>1, <4>2
    <3>7. QED BY <3>5, <3>6
  <2>3. QED BY <2>1, <2>2
<1>9. \A c \in DOMAIN captures' : c.of \in ReadEndpoints /\ CaptureOK(c, captures'[c])
  BY <1>2, <1>3, <1>4 DEF BatchInv
<1>10. arrivals' \in Nat /\ arrivals' = arrivals BY DEF BatchInv
<1>11. Len(served) \in Nat /\ served' = served BY DEF BatchInv
<1>12. Len(served') \in Nat BY <1>11
<1>13. \A q \in Readers : MemoryOK(reader'[q], arrivals') BY <1>6, <1>10
<1>14. QED BY <1>1, <1>8, <1>9, <1>10, <1>12, <1>13 DEF BatchInv, Alone

\* A call that ends leaves its files as they are.
LEMMA LeavesBatch ==
  ASSUME BatchInv, NEW r \in Readers, Leave(r), UNCHANGED <<captures, arrivals, served>>
  PROVE  BatchInv'
<1>1. PICK v : v = NotServing OBVIOUS
<1>2. v.pc = "idle" BY <1>1 DEF NotServing
<1>3. Becomes(r, v) BY <1>1 DEF Leave, Becomes
<1>4. MemoryOK(v, arrivals) /\ ~OwnsBatch(v) BY <1>2 DEF MemoryOK, OwnsBatch
<1>5. Len(served) \in Nat /\ served' = served BY DEF BatchInv
<1>6. QED BY <1>3, <1>4, <1>5, MemoryRewritten

LEMMA LeavesWrittenBatch ==
  ASSUME BatchInv, NEW r \in Readers, NEW k, Leave(r), Keep(r, k), UNCHANGED <<arrivals, served>>,
         reader[r].call.of \in ReadEndpoints, CaptureOK(BatchAt(reader[r]), k), Alone(r)
  PROVE  BatchInv'
<1>1. PICK v : v = NotServing OBVIOUS
<1>2. v.pc = "idle" BY <1>1 DEF NotServing
<1>3. Becomes(r, v) BY <1>1 DEF Leave, Becomes
<1>4. MemoryOK(v, arrivals) /\ ~OwnsBatch(v) BY <1>2 DEF MemoryOK, OwnsBatch
<1>5. QED BY <1>3, <1>4, FilesRewritten

-----------------------------------------------------------------------------
(* ReadBootstrap: a call begins its reads and goes on with them            *)

SameRun(v, run) ==
  /\ RunFields \subseteq DOMAIN v
  /\ v.pc = run.pc /\ v.call = run.call /\ v.at = run.at /\ v.since = run.since /\ v.by = run.by
  /\ v.pages = run.pages /\ v.exported = run.exported

LEMMA ToStageKeepsRun ==
  ASSUME NEW run, NEW n, RunFields \subseteq DOMAIN run
  PROVE  SameRun(ToStage(run, n), run)
<1> DEFINE stages == Endpoint(run.call).stages
           ready  == {j \in n .. Len(stages) : Parents(run.call, stages[j], run.pages) # <<>>}
           j      == CHOOSE x \in ready : \A y \in ready : x <= y
           ended  == [run EXCEPT !.stage = Len(stages) + 1, !.left = <<>>]
           next   == [run EXCEPT !.stage = j, !.left = Parents(run.call, stages[j], run.pages),
                        !.offset = IF j = 1 THEN Endpoint(run.call).from ELSE 0, !.nr = 0, !.tries = 0]
<1>1. ToStage(run, n) = IF ready = {} THEN ended ELSE next BY DEF ToStage
<1> HIDE DEF stages, ready, j
<1>2. SameRun(ended, run) BY DEF SameRun, RunFields
<1>3. SameRun(next, run) BY DEF SameRun, RunFields
<1> HIDE DEF ended, next
<1>4. QED BY <1>1, <1>2, <1>3

\* What a run is when the list goes on, when the next one begins, and when the stage is over.
MovesOn(v, run, goesOn, on, next) ==
  /\ SameRun(v, run)
  /\ goesOn => v.stage = run.stage /\ v.left = run.left /\ v.offset = on
  /\ ~goesOn /\ Len(run.left) > 1 => v.stage = run.stage /\ v.left = Tail(run.left) /\ v.offset = 0
  /\ ~goesOn /\ ~(Len(run.left) > 1) => v = ToStage(run, next)

LEMMA AfterPageKeepsRun ==
  ASSUME NEW r, NEW page, NEW run, RunFields \subseteq DOMAIN run,
         NEW on, on = run.offset + PageSize, NEW next, next = run.stage + 1
  PROVE  MovesOn(AfterPage(r, page, run), run, StageOf(r).pages = "all" /\ page.more, on, next)
<1> DEFINE more   == StageOf(r).pages = "all" /\ page.more
           onward == [run EXCEPT !.offset = @ + PageSize, !.nr = @ + 1, !.tries = 0]
           other  == [run EXCEPT !.left = Tail(@), !.offset = 0, !.nr = 0, !.tries = 0]
<1>1. AfterPage(r, page, run) =
        IF more THEN onward ELSE IF Len(run.left) > 1 THEN other ELSE ToStage(run, next)
  BY DEF AfterPage
<1>2. SameRun(onward, run) BY DEF SameRun, RunFields
<1>3. onward.stage = run.stage /\ onward.left = run.left /\ onward.offset = on BY DEF RunFields
<1>4. SameRun(other, run) BY DEF SameRun, RunFields
<1>5. other.stage = run.stage /\ other.left = Tail(run.left) /\ other.offset = 0 BY DEF RunFields
<1>6. SameRun(ToStage(run, next), run) BY ToStageKeepsRun
<1> HIDE DEF onward, other
<1>7. QED BY <1>1, <1>2, <1>3, <1>4, <1>5, <1>6 DEF MovesOn

\* A snapshot begins with its only stage.
LEMMA SnapshotBegins ==
  ASSUME NEW run, Endpoint(run.call).stages = SnapshotStages, "stage" \in DOMAIN run
  PROVE  ToStage(run, 1).stage = 1
<1> DEFINE stages == Endpoint(run.call).stages
           ready  == {i \in 1 .. Len(stages) : Parents(run.call, stages[i], run.pages) # <<>>}
           j      == CHOOSE x \in ready : \A y \in ready : x <= y
           ended  == [run EXCEPT !.stage = Len(stages) + 1, !.left = <<>>]
           next   == [run EXCEPT !.stage = j, !.left = Parents(run.call, stages[j], run.pages),
                        !.offset = IF j = 1 THEN Endpoint(run.call).from ELSE 0, !.nr = 0, !.tries = 0]
<1>1. ToStage(run, 1) = IF ready = {} THEN ended ELSE next BY DEF ToStage
<1>2. Len(stages) = 1 /\ stages[1].under = "argument" BY DEF SnapshotStages, Stage
<1>3. Parents(run.call, stages[1], run.pages) = <<run.call.arg>> BY <1>2 DEF Parents
<1>4. <<run.call.arg>> # <<>> OBVIOUS
<1>5. \A i : i \in ready <=> i = 1
  <2>1. \A i : i \in 1 .. 1 <=> i = 1 OBVIOUS
  <2>2. QED BY <1>2, <1>3, <1>4, <2>1
<1>6. j = 1
  <2> HIDE DEF ready
  <2>1. \E x \in ready : \A y \in ready : x <= y BY <1>5
  <2>2. j \in ready BY <2>1
  <2>3. QED BY <1>5, <2>2
<1>7. ready # {} BY <1>5
<1> HIDE DEF stages, ready, j, ended
<1>8. next.stage = j OBVIOUS
<1> HIDE DEF next
<1>9. QED BY <1>1, <1>6, <1>7, <1>8

\* What the memory of a call that has just begun must satisfy.
LEMMA MemoryBegins ==
  ASSUME BatchInv, NEW r \in Readers, NEW at, ReaderAt(r, "gate")
  PROVE  LET v == StartRun(r, at) IN MemoryOK(v, arrivals) /\ ~OwnsBatch(v)
<1> DEFINE pc    == CASE Of(r).keep = "batch" -> "check" [] Of(r).keep = "runner" -> "runner" [] OTHER -> "read"
           begun == [pc |-> pc,
                     call |-> reader[r].call, token |-> reader[r].token, scopes |-> grants[held.meta],
                     at |-> at, since |-> arrivals, by |-> reader[r].by, sent |-> 0, pages |-> <<>>,
                     stage |-> 1, left |-> <<>>, offset |-> 0, nr |-> 0, tries |-> 0, exported |-> 0]
<1>1. StartRun(r, at) = ToStage(begun, 1) BY DEF StartRun
<1>2. pc \in {"check", "runner", "read"} /\ (pc = "check" <=> Of(r).keep = "batch") OBVIOUS
<1>3. reader[r].call \in ReadCalls /\ reader[r].by \in Nat BY DEF BatchInv, MemoryOK, ReaderAt
<1> HIDE DEF pc
<1>4. /\ RunFields \subseteq DOMAIN begun /\ begun.pc = pc /\ begun.call = reader[r].call /\ begun.by = reader[r].by
      /\ begun.pages = <<>> /\ begun.exported = 0 /\ begun.since = arrivals /\ begun.stage = 1
  BY DEF RunFields
<1> HIDE DEF begun
<1>5. PICK v : v = ToStage(begun, 1) OBVIOUS
<1>6. SameRun(v, begun) BY <1>4, <1>5, ToStageKeepsRun
<1>7. /\ RunFields \subseteq DOMAIN v /\ v.pc = pc /\ v.call = reader[r].call /\ v.by = reader[r].by
      /\ v.pages = <<>> /\ v.exported = 0 /\ v.since = arrivals
  BY <1>4, <1>6 DEF SameRun
<1>8. KeepsBatch(v) <=> pc = "check" BY <1>2, <1>7 DEF KeepsBatch, Of
<1>9. ~OwnsBatch(v) BY <1>2, <1>7, <1>8 DEF OwnsBatch
<1>10. v.call.of \in ReadEndpoints BY <1>3, <1>7, ReadAssumption
<1>11. KeepsBatch(v) /\ ~Reserving(v) => v.stage = 1
  <2> SUFFICES ASSUME KeepsBatch(v), ~Reserving(v) PROVE v.stage = 1 OBVIOUS
  <2>1. v.call.of = "category-products/snapshot"
    BY <1>10, EndpointParts DEF KeepsBatch, Reserving
  <2>2. Endpoint(v.call).stages = SnapshotStages BY <1>10, <2>1, EndpointParts DEF OrdinaryStages
  <2>3. Endpoint(begun.call).stages = SnapshotStages /\ "stage" \in DOMAIN begun BY <1>4, <1>7, <2>2 DEF RunFields
  <2>4. QED BY <1>5, <2>3, SnapshotBegins
<1>12. v.call.of = "read_bootstrap" =>
         BootstrapRead(v.call, v.pages, v.since, v.stage, v.left, v.offset, arrivals)
  <2> SUFFICES ASSUME v.call.of = "read_bootstrap"
               PROVE  BootstrapRead(v.call, v.pages, v.since, v.stage, v.left, v.offset, arrivals)
    OBVIOUS
  <2>1. Endpoint(v.call).stages = BootstrapStages /\ Endpoint(v.call).from = 0
    BY <1>10, EndpointParts DEF OrdinaryStages
  <2>2. Endpoint(begun.call).stages = BootstrapStages /\ Endpoint(begun.call).from = 0 BY <1>4, <1>7, <2>1
  <2>3. arrivals \in Nat /\ arrivals <= arrivals BY DEF BatchInv
  <2>4. begun.pages \in Seq(RawPages) /\ Len(begun.pages) = 0 BY <1>4, EmptyIsList
  <2>5. \A i \in 1 .. Len(begun.pages) : begun.pages[i].of \in TopLists => begun.pages[i].under = Top BY <2>4
  <2>6. StagesAreRead(begun.call, begun.pages, begun.since, 1) BY DEF StagesAreRead
  <2>7. {"stage", "left", "offset", "nr", "tries", "call", "pages", "since"} \subseteq DOMAIN begun BY <1>4 DEF RunFields
  <2>8. begun.since \in Nat /\ begun.since <= arrivals /\ arrivals \in Nat /\ 1 \in 1 .. 11 BY <1>4, <2>3
  <2>9. BootstrapRead(begun.call, begun.pages, begun.since, v.stage, v.left, v.offset, arrivals)
    BY <1>5, <2>2, <2>4, <2>5, <2>6, <2>7, <2>8, NextStageBegins
  <2>10. QED BY <1>4, <1>7, <2>9
<1>13. IsList(v.pages) BY <1>7, EmptyIsList
<1>14. MemoryOK(v, arrivals)
  BY <1>2, <1>3, <1>7, <1>8, <1>11, <1>12, <1>13 DEF MemoryOK, RunFields
<1>15. QED BY <1>1, <1>5, <1>9, <1>14

LEMMA GateKeepsBatches ==
  ASSUME BatchInv, NEW r \in Readers, NEW at, Gate(r, at)
  PROVE  BatchInv'
<1>1. ReaderAt(r, "gate") /\ UNCHANGED <<captures, arrivals, served>> BY DEF Gate
<1>2. Len(served') \in Nat
  <2>1. Len(served) \in Nat /\ served' = served BY <1>1 DEF BatchInv
  <2>2. QED BY <2>1
<1>3. CASE Leave(r) BY <1>1, <1>3, LeavesBatch
<1>4. CASE Becomes(r, StartRun(r, at))
  <2>1. PICK v : v = StartRun(r, at) OBVIOUS
  <2>2. MemoryOK(v, arrivals) /\ ~OwnsBatch(v) BY <1>1, <2>1, MemoryBegins
  <2>3. QED BY <1>1, <1>2, <1>4, <2>1, <2>2, MemoryRewritten
<1>5. QED BY <1>3, <1>4 DEF Gate

LEMMA CallsKeepBatches ==
  ASSUME BatchInv, NEW r \in Readers, NEW job \in ReadCalls, CallEndpoint(r, job)
  PROVE  BatchInv'
<1>1. UNCHANGED <<captures, arrivals>> BY DEF CallEndpoint
<1>2. Len(served') \in Nat
  <2>1. PICK n : n = Len(served) OBVIOUS
  <2>2. n \in Nat BY <2>1 DEF BatchInv
  <2>3. QED BY <2>1, <2>2 DEF CallEndpoint
<1>3. PICK n : n = Len(served') OBVIOUS
<1>4. PICK v : v = [pc |-> "gate", call |-> job, token |-> held.token, by |-> n] OBVIOUS
<1>5. Becomes(r, v) BY <1>3, <1>4 DEF CallEndpoint
<1>6. v.pc = "gate" /\ v.call = job /\ v.by = n /\ {"pc", "call", "by"} \subseteq DOMAIN v BY <1>4
<1>7. MemoryOK(v, arrivals) /\ ~OwnsBatch(v) BY <1>2, <1>3, <1>6 DEF MemoryOK, OwnsBatch
<1>8. QED BY <1>1, <1>2, <1>5, <1>7, MemoryRewritten

-----------------------------------------------------------------------------
(* ReadBootstrap: a batch is looked at and reserved, and requests are sent *)

\* A call that has read nothing else.
SameReads(v, u) ==
  /\ RunFields \subseteq DOMAIN v
  /\ v.call = u.call /\ v.at = u.at /\ v.since = u.since /\ v.by = u.by /\ v.pages = u.pages
  /\ v.exported = u.exported /\ v.stage = u.stage /\ v.left = u.left /\ v.offset = u.offset

LEMMA MemoryGoesOn ==
  ASSUME NEW u, NEW v, NEW now, MemoryOK(u, now), u.pc \notin {"idle", "gate"}, SameReads(v, u),
         v.pc \in {"reserve", "read", "runner"},
         v.pc = "reserve" => u.pc = "check" /\ Reserving(u)
  PROVE  MemoryOK(v, now)
<1>1. /\ RunFields \subseteq DOMAIN u /\ u.exported \in Nat /\ IsList(u.pages)
      /\ u.call \in ReadCalls /\ u.by \in Nat
      /\ u.pc = "check" => KeepsBatch(u) /\ u.pages = <<>> /\ u.exported = 0
      /\ KeepsBatch(u) /\ ~Reserving(u) /\ u.pages = <<>> => u.stage = 1 /\ u.exported = 0
      /\ u.call.of = "read_bootstrap" => BootstrapRead(u.call, u.pages, u.since, u.stage, u.left, u.offset, now)
  BY DEF MemoryOK
<1>2. (KeepsBatch(v) <=> KeepsBatch(u)) /\ (Reserving(v) <=> Reserving(u)) BY DEF SameReads, KeepsBatch, Reserving
<1>3. /\ RunFields \subseteq DOMAIN v /\ v.exported \in Nat /\ IsList(v.pages)
      /\ v.call \in ReadCalls /\ v.by \in Nat
      /\ v.pc = "reserve" => KeepsBatch(v) /\ Reserving(v) /\ v.pages = <<>> /\ v.exported = 0
      /\ KeepsBatch(v) /\ ~Reserving(v) /\ v.pages = <<>> => v.stage = 1 /\ v.exported = 0
      /\ v.call.of = "read_bootstrap" => BootstrapRead(v.call, v.pages, v.since, v.stage, v.left, v.offset, now)
  BY <1>1, <1>2 DEF SameReads
<1>4. {"pc", "call", "by"} \subseteq DOMAIN v BY <1>3 DEF RunFields
<1>5. QED BY <1>3, <1>4 DEF MemoryOK

LEMMA OwnerGoesOn ==
  ASSUME NEW u, NEW v, NEW k, SameReads(v, u), OwnerOK(u, k)
  PROVE  OwnerOK(v, k)
BY DEF SameReads, OwnerOK, ExportedSoFar, Reserving

LEMMA CheckKeepsBatches ==
  ASSUME BatchInv, NEW r \in Readers, CheckBatch(r)
  PROVE  BatchInv'
<1>1. ReaderAt(r, "check") /\ UNCHANGED <<captures, arrivals, served>> BY DEF CheckBatch
<1>2. Len(served) \in Nat /\ served' = served BY <1>1 DEF BatchInv
<1>3. CASE Leave(r) BY <1>1, <1>3, LeavesBatch
<1>4. CASE Becomes(r, [reader[r] EXCEPT !.pc = IF Of(r).reserves THEN "reserve" ELSE "read"])
  <2>1. PICK u : u = reader[r] OBVIOUS
  <2>2. PICK pc : pc = IF Of(r).reserves THEN "reserve" ELSE "read" OBVIOUS
  <2>3. PICK v : v = [u EXCEPT !.pc = pc] OBVIOUS
  <2>4. /\ MemoryOK(u, arrivals) /\ u.pc = "check" /\ RunFields \subseteq DOMAIN u /\ u.pages = <<>>
    BY <1>1, <2>1 DEF BatchInv, MemoryOK, ReaderAt
  <2>5. SameReads(v, u) /\ v.pc = pc BY <2>3, <2>4 DEF SameReads, RunFields
  <2>6. pc \in {"reserve", "read"} /\ (pc = "reserve" <=> Reserving(u)) BY <2>1, <2>2 DEF Reserving, Of
  <2>7. MemoryOK(v, arrivals) BY <2>4, <2>5, <2>6, MemoryGoesOn
  <2>8. ~OwnsBatch(v) BY <2>4, <2>5, <2>6 DEF OwnsBatch, Reserving, SameReads
  <2>9. Becomes(r, v) BY <1>4, <2>1, <2>2, <2>3
  <2>10. QED BY <1>1, <1>2, <2>7, <2>8, <2>9, MemoryRewritten
<1>5. QED BY <1>3, <1>4 DEF CheckBatch

LEMMA ReservingCalls ==
  ASSUME NEW u, u.call \in ReadCalls, KeepsBatch(u)
  PROVE  /\ u.call.of \in ReadEndpoints
         /\ Reserving(u) <=> u.call.of \in ReservingEndpoints
         /\ ~Reserving(u) <=> u.call.of = "category-products/snapshot"
         /\ BatchAt(u).of = u.call.of
<1>1. u.call.of \in ReadEndpoints BY ReadAssumption
<1>2. BatchAt(u).of = u.call.of BY DEF BatchAt, BatchId
<1>3. Endpoint(u.call).reserves = TRUE <=> u.call.of \in ReservingEndpoints BY <1>1, EndpointParts DEF ReservingEndpoints
<1>4. Endpoint(u.call).reserves \in BOOLEAN BY <1>1, EndpointParts
<1>5. Reserving(u) <=> u.call.of \in ReservingEndpoints BY <1>3, <1>4 DEF Reserving
<1>6. u.call.of \in ReservingEndpoints \/ u.call.of = "category-products/snapshot"
  BY <1>1, EndpointParts DEF KeepsBatch, ReservingEndpoints
<1>7. "category-products/snapshot" \notin ReservingEndpoints BY DEF ReservingEndpoints
<1>8. QED BY <1>1, <1>2, <1>5, <1>6, <1>7

LEMMA ReserveKeepsBatches ==
  ASSUME BatchInv, NEW r \in Readers, ReserveBatch(r)
  PROVE  BatchInv'
<1>1. ReaderAt(r, "reserve") /\ UNCHANGED <<arrivals, served>> BY DEF ReserveBatch
<1>2. CASE Kept(r).reserved BY <1>1, <1>2, LeavesBatch DEF ReserveBatch
<1>3. CASE ~Kept(r).reserved
  <2>1. PICK u, old, b : u = reader[r] /\ old = Kept(r) /\ b = BatchAt(u) OBVIOUS
  <2>2. PICK k : k = [old EXCEPT !.reserved = TRUE, !.since = u.since] OBVIOUS
  <2>3. PICK v : v = [u EXCEPT !.pc = "read"] OBVIOUS
  <2>4. Keep(r, k) /\ Becomes(r, v) BY <1>3, <2>1, <2>2, <2>3 DEF ReserveBatch
  <2>5. /\ MemoryOK(u, arrivals) /\ u.pc = "reserve" /\ RunFields \subseteq DOMAIN u /\ u.pages = <<>> /\ u.exported = 0
        /\ KeepsBatch(u) /\ Reserving(u) /\ u.call \in ReadCalls
    BY <1>1, <2>1 DEF BatchInv, MemoryOK, ReaderAt
  <2>6. SameReads(v, u) /\ v.pc = "read" BY <2>3, <2>5 DEF SameReads, RunFields
  <2>7. u.call.of \in ReservingEndpoints /\ b.of = u.call.of /\ u.call.of \in ReadEndpoints
    BY <2>1, <2>5, ReservingCalls
  <2>8. old = StoredIn(captures, b) /\ CaptureOK(b, old)
    <3>1. b = Batch(r) BY <2>1 DEF Batch, BatchAt
    <3>2. QED BY <2>1, <3>1, BatchesAreKept DEF Kept
  <2>9. old.reserved # TRUE BY <1>3, <2>1
  <2>10. Untouched(old) BY <2>7, <2>8, <2>9 DEF CaptureOK
  <2>11. /\ {"reserved", "since", "pages", "exports", "manifest"} \subseteq DOMAIN k
         /\ k.reserved = TRUE /\ k.since = u.since /\ k.pages = <<>> /\ k.exports = old.exports /\ k.manifest = NotThere
    BY <2>2, <2>8, <2>10 DEF CaptureOK, Untouched
  <2>12. CaptureOK(b, k)
    <3>1. b.of # "category-products/snapshot" BY <2>7 DEF ReservingEndpoints
    <3>2. QED BY <2>11, <3>1, EmptyIsList DEF CaptureOK
  <2>13. Alone(r)
    <3> SUFFICES ASSUME NEW q \in Readers, OwnsBatch(reader[q]), BatchAt(reader[q]) = b PROVE FALSE
      BY <2>1 DEF Alone
    <3>1. PICK w : w = reader[q] OBVIOUS
    <3>2. OwnerOK(w, old) BY <2>8, <3>1 DEF BatchInv
    <3>3. w.pc = "read" /\ KeepsBatch(w) /\ w.call \in ReadCalls BY <3>1 DEF OwnsBatch, BatchInv, MemoryOK
    <3>4. w.call.of = b.of BY <3>1 DEF BatchAt, BatchId
    <3>5. Reserving(w) BY <2>7, <3>3, <3>4, ReservingCalls
    <3>6. QED BY <2>9, <3>2, <3>5 DEF OwnerOK
  <2>14. MemoryOK(v, arrivals) BY <2>5, <2>6, MemoryGoesOn
  <2>15. OwnerOK(v, k)
    <3>1. v.pages = <<>> /\ v.exported = 0 /\ v.since = u.since /\ v.call = u.call BY <2>5, <2>6 DEF SameReads
    <3>2. 0 <= Len(Endpoint(v.call).stages)
      <4>1. Endpoint(v.call).stages = OrdinaryStages(v.call.of) BY <2>7, <3>1, EndpointParts
      <4>2. QED BY <4>1, StagesAreCounted
    <3>3. ExportedSoFar(v) = {} BY <3>1 DEF ExportedSoFar
    <3>4. DOMAIN k.exports = {} BY <2>10, <2>11 DEF Untouched
    <3>5. 1 .. Len(v.pages) = {} BY <3>1, EmptyIsList
    <3>6. QED BY <2>11, <3>1, <3>2, <3>3, <3>4, <3>5 DEF OwnerOK
  <2>16. BatchAt(v) = b BY <2>1, <2>6 DEF SameReads, BatchAt
  <2>17. QED BY <1>1, <2>1, <2>4, <2>7, <2>12, <2>13, <2>14, <2>15, <2>16, FilesRewritten
<1>4. QED BY <1>2, <1>3

\* A step of a call after which it has read nothing else.
LEMMA RequestsKeepBatches ==
  ASSUME BatchInv, NEW r \in Readers, UNCHANGED <<captures, arrivals, served>>, NEW v, Becomes(r, v),
         ReaderAt(r, "read") \/ ReaderAt(r, "runner"), SameReads(v, reader[r]), v.pc = reader[r].pc
  PROVE  BatchInv'
<1>1. PICK u : u = reader[r] OBVIOUS
<1>2. MemoryOK(u, arrivals) /\ u.pc \in {"read", "runner"} /\ u.pc \notin {"idle", "gate"}
  BY <1>1 DEF BatchInv, ReaderAt
<1>3. SameReads(v, u) /\ v.pc = u.pc BY <1>1
<1>4. MemoryOK(v, arrivals) BY <1>2, <1>3, MemoryGoesOn
<1>5. Len(served) \in Nat /\ served' = served BY DEF BatchInv
<1>6. OwnsBatch(v) => OwnsBatch(u) /\ BatchAt(v) = BatchAt(u)
  BY <1>3 DEF SameReads, OwnsBatch, KeepsBatch, Reserving, BatchAt
<1>7. OwnsBatch(v) => OwnerOK(v, StoredIn(captures, BatchAt(v)))
  BY <1>1, <1>3, <1>6, OwnerGoesOn DEF BatchInv
<1>8. QED BY <1>1, <1>4, <1>5, <1>6, <1>7, MemoryRewritten

LEMMA SendingKeepsBatches ==
  ASSUME BatchInv, NEW r \in Readers, RequestFails(r) \/ RunnerSends(r) \/ RunnerTakesTransport(r) \/ EndsReads(r)
  PROVE  BatchInv'
<1>1. UNCHANGED <<captures, arrivals, served>> BY DEF RequestFails, RunnerSends, RunnerTakesTransport, EndsReads
<1>2. CASE Leave(r) BY <1>1, <1>2, LeavesBatch
<1>3. CASE ~Leave(r)
  <2>1. PICK u : u = reader[r] OBVIOUS
  <2>2. ReaderAt(r, "read") \/ ReaderAt(r, "runner")
    BY <1>3 DEF RequestFails, RunnerSends, RunnerTakesTransport, EndsReads, Reading
  <2>3. RunFields \subseteq DOMAIN u BY <2>1, <2>2 DEF BatchInv, MemoryOK, ReaderAt
  <2>4. PICK v : Becomes(r, v) /\ \/ v = [u EXCEPT !.sent = @ + 1, !.tries = @ + 1]
                                  \/ v = [u EXCEPT !.sent = @ + 1]
                                  \/ v = [u EXCEPT !.sent = 0]
    BY <1>3, <2>1 DEF RequestFails, RunnerSends, RunnerTakesTransport, EndsReads
  <2>5. SameReads(v, u) /\ v.pc = u.pc BY <2>3, <2>4 DEF SameReads, RunFields
  <2>6. QED BY <1>1, <2>1, <2>2, <2>4, <2>5, RequestsKeepBatches
<1>4. QED BY <1>2, <1>3

-----------------------------------------------------------------------------
(* ReadBootstrap: a page is read                                           *)

\* The list a bootstrap is at, and its next page.
LEMMA PageIsAList ==
  ASSUME NEW job, NEW pages, NEW since, NEW j \in 1 .. 10, NEW left, NEW offset,
         BootstrapRead(job, pages, since, j, left, offset, arrivals)
  PROVE  /\ Head(left) \in Int /\ offset \in Nat
         /\ PageOf(BootstrapStages[j].of, Head(left), offset).ids \in Seq(Int)
<1>1. PICK s, p : s = BootstrapStages[j] /\ p = Head(left) OBVIOUS
<1>2. /\ s.of \in ReadResources
      /\ s.of \in PagedLists \/ s.of \in SingleLists
      /\ s.of \in TopLists <=> s.under = "none"
  BY <1>1, BootstrapStagesFacts
<1>3. pages \in Seq(RawPages) /\ arrivals \in Nat BY DEF BootstrapRead
<1>4. StageIsUnderWay(job, pages, since, j, left, offset, arrivals) BY DEF BootstrapRead
<1>5. left \in Seq(Int) /\ left # <<>> /\ offset \in Nat /\ ToSet(left) \subseteq ParentsAt(job, j, pages)
  BY <1>4 DEF StageIsUnderWay
<1>6. PICK m \in Nat : m = Len(left) BY <1>5
<1>7. p \in Int /\ p \in ToSet(left)
  <2>1. m > 0 /\ DOMAIN left = 1 .. m BY <1>5, <1>6
  <2>2. p = left[1] BY <1>1, <1>5, <2>1
  <2>3. QED BY <1>5, <2>1, <2>2 DEF ToSet
<1>8. s.of \in TopLists => p = Top
  <2>1. ASSUME s.under = "none" PROVE p = Top
    <3>1. Parents(job, s, pages) = <<Top>> BY <1>1, <1>3, <2>1, BootstrapParents
    <3>2. ParentsAt(job, j, pages) = {Top} BY <1>1, <3>1 DEF ParentsAt, ToSet
    <3>3. QED BY <1>5, <1>7, <3>2
  <2>2. QED BY <1>2, <2>1
<1>9. PageOf(s.of, p, offset).ids \in Seq(Int)
  <2>1. CASE s.of \in PagedLists BY <1>3, <1>5, <1>7, <1>8, <2>1, ListsArePaged DEF PageIsHonest
  <2>2. CASE s.of \in SingleLists
    <3>1. ListOf(s.of, p, arrivals) \in Seq(Int) BY <1>2, <1>3, ListsAreSequences
    <3>2. QED BY <2>2, <3>1, SingleListsAreWhole
  <2>3. QED BY <1>2, <2>1, <2>2
<1>10. QED BY <1>1, <1>5, <1>7, <1>9

LEMMA BootstrapGoesOn ==
  ASSUME NEW r, NEW job, NEW pages, NEW since, NEW j \in 1 .. 10, NEW left, NEW offset,
         BootstrapRead(job, pages, since, j, left, offset, arrivals),
         Endpoint(job).stages = BootstrapStages, Endpoint(job).from = 0, StageOf(r) = BootstrapStages[j],
         NEW raw \in RawPages, raw.of = BootstrapStages[j].of, raw.under = Head(left),
         NEW page, page = PageOf(BootstrapStages[j].of, Head(left), offset), raw.ids = page.ids,
         NEW run, RunFields \subseteq DOMAIN run, run.call = job, run.pages = Append(pages, raw), run.since = since,
         run.stage = j, run.left = left, run.offset = offset
  PROVE  LET v == AfterPage(r, page, run) IN
         BootstrapRead(v.call, v.pages, v.since, v.stage, v.left, v.offset, arrivals)
<1>1. PICK more, v : more = Append(pages, raw) /\ v = AfterPage(r, page, run) OBVIOUS
<1>2. PICK on, next : on = offset + PageSize /\ next = j + 1 OBVIOUS
<1>3. PICK goes : goes = TRUE <=> (BootstrapStages[j].pages = "all" /\ page.more) OBVIOUS
<1>4. /\ more \in Seq(RawPages)
      /\ \A i \in 1 .. Len(more) : more[i].of \in TopLists => more[i].under = Top
      /\ StagesAreRead(job, more, since, j)
      /\ goes = TRUE => StageIsUnderWay(job, more, since, j, left, on, arrivals)
      /\ goes # TRUE /\ Len(left) > 1 => StageIsUnderWay(job, more, since, j, Tail(left), 0, arrivals)
      /\ goes # TRUE /\ ~(Len(left) > 1) => StagesAreRead(job, more, since, next)
  <2>1. ListPassed(job, Append(pages, raw), since, j, left, page, on, next)
    <3>1. AtList(job, pages, since, j, left, offset, raw, page) BY DEF AtList
    <3>2. QED BY <1>2, <3>1, ListIsPassed
  <2>2. QED BY <1>1, <1>3, <2>1 DEF ListPassed
<1>5. /\ SameRun(v, run)
      /\ goes = TRUE => v.stage = j /\ v.left = left /\ v.offset = on
      /\ goes # TRUE /\ Len(left) > 1 => v.stage = j /\ v.left = Tail(left) /\ v.offset = 0
      /\ goes # TRUE /\ ~(Len(left) > 1) => v = ToStage(run, next)
  <2>1. on = run.offset + PageSize /\ next = run.stage + 1 BY <1>2
  <2>2. MovesOn(AfterPage(r, page, run), run, StageOf(r).pages = "all" /\ page.more, on, next)
    BY <2>1, AfterPageKeepsRun
  <2>3. (StageOf(r).pages = "all" /\ page.more) <=> goes = TRUE BY <1>3
  <2>4. QED BY <1>1, <2>2, <2>3 DEF MovesOn
<1>6. v.call = job /\ v.pages = more /\ v.since = since BY <1>1, <1>5 DEF SameRun
<1>7. since \in Nat /\ arrivals \in Nat /\ since <= arrivals BY DEF BootstrapRead
<1>8. j \in 1 .. 11 /\ next \in 1 .. 11 BY <1>2
<1>9. PICK now : now = arrivals OBVIOUS
<1>10. CASE goes = TRUE
  <2>1. StageIsUnderWay(job, more, since, j, left, on, now) BY <1>4, <1>9, <1>10
  <2>2. BootstrapRead(job, more, since, j, left, on, now) BY <1>4, <1>7, <1>8, <1>9, <2>1 DEF BootstrapRead
  <2>3. QED BY <1>1, <1>5, <1>6, <1>9, <1>10, <2>2
<1>11. CASE goes # TRUE /\ Len(left) > 1
  <2>1. PICK rest : rest = Tail(left) OBVIOUS
  <2>2. StageIsUnderWay(job, more, since, j, rest, 0, now) BY <1>4, <1>9, <1>11, <2>1
  <2>3. BootstrapRead(job, more, since, j, rest, 0, now) BY <1>4, <1>7, <1>8, <1>9, <2>2 DEF BootstrapRead
  <2>4. QED BY <1>1, <1>5, <1>6, <1>9, <1>11, <2>1, <2>3
<1>12. CASE goes # TRUE /\ ~(Len(left) > 1)
  <2>1. v = ToStage(run, next) BY <1>5, <1>12
  <2>2. StagesAreRead(run.call, run.pages, run.since, next) BY <1>1, <1>4, <1>12
  <2>3. {"stage", "left", "offset", "nr", "tries", "call", "pages", "since"} \subseteq DOMAIN run BY DEF RunFields
  <2>4. /\ run.since \in Nat /\ run.since <= now /\ now \in Nat /\ run.pages \in Seq(RawPages)
        /\ \A i \in 1 .. Len(run.pages) : run.pages[i].of \in TopLists => run.pages[i].under = Top
    BY <1>1, <1>4, <1>7, <1>9
  <2>5. BootstrapRead(run.call, run.pages, run.since, v.stage, v.left, v.offset, now)
    BY <1>8, <2>1, <2>2, <2>3, <2>4, NextStageBegins
  <2>6. QED BY <1>1, <1>6, <1>9, <2>5
<1>13. QED BY <1>10, <1>11, <1>12

\* The next page of a list, as a call has it in memory and as it stores it.
NextPage(r, u)      == PageOf(StageOf(r).of, Head(u.left), u.offset)
RawOf(r, u, page)   == [no |-> Len(u.pages) + 1, of |-> StageOf(r).of, under |-> Head(u.left), offset |-> u.offset,
                        ids |-> page.ids, by |-> u.by]
RunWith(u, raw)     == [u EXCEPT !.sent = @ + 1, !.pages = Append(@, raw)]
KeptWith(k, raw)    == [k EXCEPT !.pages = Append(@, raw)]

\* A bootstrap that reads the next page.
LEMMA BootstrapReadsPage ==
  ASSUME NEW r, Reading(r), NEW u, u = reader[r], MemoryOK(u, arrivals), u.call.of = "read_bootstrap",
         NEW page, page = NextPage(r, u), NEW raw, raw = RawOf(r, u, page),
         NEW run, RunFields \subseteq DOMAIN run, run.call = u.call, run.pages = Append(u.pages, raw),
         run.since = u.since, run.stage = u.stage, run.left = u.left, run.offset = u.offset
  PROVE  LET v == AfterPage(r, page, run) IN
         BootstrapRead(v.call, v.pages, v.since, v.stage, v.left, v.offset, arrivals)
<1>1. /\ u.call \in ReadCalls /\ u.by \in Nat
      /\ BootstrapRead(u.call, u.pages, u.since, u.stage, u.left, u.offset, arrivals)
  BY DEF MemoryOK, Reading, ReaderAt
<1>2. Endpoint(u.call).stages = BootstrapStages /\ Endpoint(u.call).from = 0
  <2>1. u.call.of \in ReadEndpoints BY <1>1, ReadAssumption
  <2>2. QED BY <2>1, EndpointParts DEF OrdinaryStages
<1>3. PICK j : j = u.stage OBVIOUS
<1>4. j \in 1 .. 10
  <2>1. j \in 1 .. 11 BY <1>1, <1>3 DEF BootstrapRead
  <2>2. j <= 10 BY <1>2, <1>3, BootstrapHasTen DEF Reading, Of
  <2>3. QED BY <2>1, <2>2
<1>5. PICK s, left, offset : s = BootstrapStages[j] /\ left = u.left /\ offset = u.offset OBVIOUS
<1>6. StageOf(r) = s BY <1>2, <1>3, <1>5 DEF StageOf, Of
<1>7. page = PageOf(s.of, Head(left), offset) BY <1>5, <1>6 DEF NextPage
<1>8. Head(left) \in Int /\ offset \in Nat /\ page.ids \in Seq(Int)
  <2>1. BootstrapRead(u.call, u.pages, u.since, j, left, offset, arrivals) BY <1>1, <1>3, <1>5
  <2>2. /\ Head(left) \in Int /\ offset \in Nat
        /\ PageOf(BootstrapStages[j].of, Head(left), offset).ids \in Seq(Int)
    BY <1>4, <2>1, PageIsAList
  <2>3. QED BY <1>5, <1>7, <2>2
<1>9. PICK no : no = Len(u.pages) + 1 OBVIOUS
<1>10. no \in Nat BY <1>1, <1>9 DEF BootstrapRead
<1>11. s.of \in ReadResources BY <1>4, <1>5, BootstrapStagesFacts
<1>12. PICK p, of, ids, by : p = Head(left) /\ of = s.of /\ ids = page.ids /\ by = u.by OBVIOUS
<1>13. raw = [no |-> no, of |-> of, under |-> p, offset |-> offset, ids |-> ids, by |-> by]
  BY <1>5, <1>6, <1>9, <1>12 DEF RawOf
<1>14. raw \in RawPages BY <1>1, <1>8, <1>10, <1>11, <1>12, <1>13 DEF RawPages
<1>15. raw.of = s.of /\ raw.under = Head(left) /\ raw.ids = page.ids BY <1>12, <1>13
<1>16. /\ BootstrapRead(u.call, u.pages, u.since, j, left, offset, arrivals)
       /\ StageOf(r) = BootstrapStages[j] /\ raw.of = BootstrapStages[j].of
       /\ page = PageOf(BootstrapStages[j].of, Head(left), offset)
       /\ run.stage = j /\ run.left = left /\ run.offset = offset
  BY <1>1, <1>3, <1>5, <1>6, <1>7, <1>15
<1>17. QED
  BY <1>2, <1>4, <1>14, <1>15, <1>16, BootstrapGoesOn, ZenonT(30)

\* Who reads a page whose file is not there has written all that is in the batch.
HasAllWritten(r, u, k) ==
  /\ k = StoredIn(captures, BatchAt(u)) /\ CaptureOK(BatchAt(u), k) /\ Alone(r)
  /\ k.pages = u.pages /\ k.manifest = NotThere /\ DOMAIN k.exports = {} /\ u.exported = 0
  /\ \A i \in 1 .. Len(u.pages) : u.pages[i].by = u.by
  /\ Reserving(u) => k.reserved = TRUE /\ k.since = u.since
  /\ ~Reserving(u) /\ u.pages = <<>> => StageOf(r).of = "category_product_relations"

LEMMA PageTaker ==
  ASSUME BatchInv, NEW r \in Readers, Reading(r), NEW u, u = reader[r], KeepsBatch(u),
         NEW no, no = Len(u.pages) + 1, ~RawTaken(r, no), NEW k, k = Kept(r)
  PROVE  HasAllWritten(r, u, k)
<1>1. PICK b : b = BatchAt(u) OBVIOUS
<1>2. k = StoredIn(captures, b) /\ CaptureOK(b, k)
  <2>1. b = Batch(r) BY <1>1 DEF Batch, BatchAt
  <2>2. QED BY <2>1, BatchesAreKept DEF Kept
<1>3. /\ u.pc = "read" /\ RunFields \subseteq DOMAIN u /\ u.exported \in Nat /\ u.call \in ReadCalls /\ IsList(u.pages)
      /\ ~Reserving(u) /\ u.pages = <<>> => u.stage = 1 /\ u.exported = 0
  BY DEF BatchInv, MemoryOK, Reading, ReaderAt
<1>4. /\ u.call.of \in ReadEndpoints
      /\ ~Reserving(u) <=> u.call.of = "category-products/snapshot"
      /\ b.of = u.call.of
  BY <1>1, <1>3, ReservingCalls
<1>5. ~Reserving(u) /\ u.pages = <<>> => StageOf(r).of = "category_product_relations"
  <2> SUFFICES ASSUME ~Reserving(u), u.pages = <<>> PROVE StageOf(r).of = "category_product_relations" OBVIOUS
  <2>1. Endpoint(u.call).stages = SnapshotStages BY <1>4, EndpointParts DEF OrdinaryStages
  <2>2. u.stage = 1 BY <1>3
  <2>3. QED BY <2>1, <2>2 DEF StageOf, Of, SnapshotStages, Stage
<1>6. CASE OwnsBatch(u)
  <2>1. Alone(r) /\ OwnerOK(u, k) BY <1>1, <1>2, <1>6 DEF BatchInv
  <2>2. u.stage <= Len(Endpoint(u.call).stages) BY DEF Reading, Of
  <2>3. u.exported = 0 BY <2>1, <2>2 DEF OwnerOK
  <2>4. ExportedSoFar(u) = {} BY <2>3 DEF ExportedSoFar
  <2>5. QED BY <1>1, <1>2, <1>5, <2>1, <2>3, <2>4 DEF OwnerOK, HasAllWritten
<1>7. CASE ~OwnsBatch(u)
  <2>1. ~Reserving(u) /\ u.pages = <<>> /\ u.exported = 0 BY <1>3, <1>7 DEF OwnsBatch
  <2>2. k.pages = <<>>
    <3> SUFFICES ASSUME k.pages # <<>> PROVE FALSE OBVIOUS
    <3>1. k.pages[1].no = 1 /\ k.pages[1].of = "category_product_relations" BY <1>2, <1>4, <2>1 DEF CaptureOK
    <3>2. 1 \in DOMAIN k.pages
      <4>1. PICK S : k.pages \in Seq(S) BY <1>2 DEF CaptureOK, IsList
      <4>2. QED BY <4>1
    <3>3. no = 1 BY <2>1, EmptyIsList
    <3>4. QED BY <1>5, <2>1, <3>1, <3>2, <3>3 DEF RawTaken
  <2>3. Untouched(k) BY <1>2, <1>4, <2>1, <2>2 DEF CaptureOK
  <2>4. Alone(r)
    <3> SUFFICES ASSUME NEW q \in Readers, OwnsBatch(reader[q]), BatchAt(reader[q]) = b PROVE FALSE
      BY <1>1 DEF Alone
    <3>1. PICK w : w = reader[q] OBVIOUS
    <3>2. OwnerOK(w, k) BY <1>2, <3>1 DEF BatchInv
    <3>3. w.pc = "read" /\ KeepsBatch(w) /\ w.call \in ReadCalls BY <3>1 DEF OwnsBatch, BatchInv, MemoryOK
    <3>4. w.call.of = b.of BY <3>1 DEF BatchAt, BatchId
    <3>5. ~Reserving(w) BY <1>4, <2>1, <3>3, <3>4, ReservingCalls
    <3>6. w.pages # <<>> BY <3>1, <3>5 DEF OwnsBatch
    <3>7. QED BY <2>2, <3>2, <3>6 DEF OwnerOK
  <2>5. 1 .. Len(u.pages) = {} BY <2>1, EmptyIsList
  <2>6. QED BY <1>1, <1>2, <1>5, <2>1, <2>2, <2>3, <2>4, <2>5 DEF Untouched, HasAllWritten
<1>8. QED BY <1>6, <1>7

\* What a call has in memory after a page, whether it keeps it or not.
LEMMA PageIsInMemory ==
  ASSUME NEW r, Reading(r), NEW u, u = reader[r], MemoryOK(u, arrivals),
         NEW page, page = NextPage(r, u), NEW raw, raw = RawOf(r, u, page), NEW run, run = RunWith(u, raw),
         NEW v, v = AfterPage(r, page, run)
  PROVE  /\ MemoryOK(v, arrivals) /\ v.pc = "read" /\ v.call = u.call /\ v.at = u.at /\ v.since = u.since /\ v.by = u.by
         /\ v.pages = Append(u.pages, raw) /\ v.exported = u.exported
<1>1. /\ u.pc = "read" /\ RunFields \subseteq DOMAIN u /\ u.call \in ReadCalls /\ u.by \in Nat /\ u.exported \in Nat
      /\ IsList(u.pages)
  BY DEF MemoryOK, Reading, ReaderAt
<1>2. /\ RunFields \subseteq DOMAIN run /\ run.pc = "read" /\ run.call = u.call /\ run.at = u.at /\ run.since = u.since
      /\ run.by = u.by /\ run.pages = Append(u.pages, raw) /\ run.exported = u.exported
      /\ run.stage = u.stage /\ run.left = u.left /\ run.offset = u.offset
  BY <1>1 DEF RunFields, RunWith
<1>3. PICK on, next : on = run.offset + PageSize /\ next = run.stage + 1 OBVIOUS
<1>4. SameRun(v, run)
  <2>1. MovesOn(v, run, StageOf(r).pages = "all" /\ page.more, on, next) BY <1>2, <1>3, AfterPageKeepsRun
  <2>2. QED BY <2>1 DEF MovesOn
<1>5. /\ RunFields \subseteq DOMAIN v /\ v.pc = "read" /\ v.call = u.call /\ v.at = u.at /\ v.since = u.since
      /\ v.by = u.by /\ v.pages = Append(u.pages, raw) /\ v.exported = u.exported
  BY <1>2, <1>4 DEF SameRun
<1>6. IsList(v.pages) /\ v.pages # <<>> BY <1>1, <1>5, ListGrows
<1>7. v.call.of = "read_bootstrap" => BootstrapRead(v.call, v.pages, v.since, v.stage, v.left, v.offset, arrivals)
  <2> SUFFICES ASSUME u.call.of = "read_bootstrap"
               PROVE  BootstrapRead(v.call, v.pages, v.since, v.stage, v.left, v.offset, arrivals)
    BY <1>5
  <2>1. QED BY <1>2, BootstrapReadsPage
<1>8. {"pc", "call", "by"} \subseteq DOMAIN v BY <1>5 DEF RunFields
<1>9. MemoryOK(v, arrivals) BY <1>1, <1>5, <1>6, <1>7, <1>8 DEF MemoryOK
<1>10. QED BY <1>5, <1>9

\* What is stored after a page is what its reader has in memory.
LEMMA PageIsStored ==
  ASSUME BatchInv, NEW r \in Readers, Reading(r), NEW u, u = reader[r], KeepsBatch(u),
         ~RawTaken(r, Len(u.pages) + 1),
         NEW raw, raw.no = Len(u.pages) + 1, raw.of = StageOf(r).of, raw.by = u.by,
         NEW k, k = KeptWith(Kept(r), raw)
  PROVE  /\ Alone(r) /\ CaptureOK(BatchAt(u), k)
         /\ \A v : (/\ v.call = u.call /\ v.since = u.since /\ v.by = u.by /\ v.pages = Append(u.pages, raw)
                    /\ v.exported = u.exported) => OwnerOK(v, k)
<1>1. PICK old, b, pages : old = Kept(r) /\ b = BatchAt(u) /\ pages = Append(u.pages, raw) OBVIOUS
<1>2. /\ CaptureOK(b, old) /\ Alone(r) /\ old.pages = u.pages /\ old.manifest = NotThere /\ DOMAIN old.exports = {}
      /\ u.exported = 0
      /\ \A i \in 1 .. Len(u.pages) : u.pages[i].by = u.by
      /\ Reserving(u) => old.reserved = TRUE /\ old.since = u.since
      /\ ~Reserving(u) /\ u.pages = <<>> => StageOf(r).of = "category_product_relations"
  <2>1. PICK no : no = Len(u.pages) + 1 OBVIOUS
  <2>2. HasAllWritten(r, u, old) BY <1>1, <2>1, PageTaker
  <2>3. QED BY <1>1, <2>2 DEF HasAllWritten
<1>3. {"reserved", "since", "pages", "exports", "manifest"} \subseteq DOMAIN old BY <1>2 DEF CaptureOK
<1>4. /\ {"reserved", "since", "pages", "exports", "manifest"} \subseteq DOMAIN k
      /\ k.pages = pages /\ k.reserved = old.reserved /\ k.since = old.since /\ k.exports = old.exports
      /\ k.manifest = old.manifest
  BY <1>1, <1>2, <1>3 DEF KeptWith
<1>5. u.call \in ReadCalls /\ IsList(u.pages) BY DEF BatchInv, MemoryOK, Reading, ReaderAt
<1>6. /\ u.call.of \in ReadEndpoints /\ b.of = u.call.of
      /\ Reserving(u) <=> u.call.of \in ReservingEndpoints
      /\ ~Reserving(u) <=> u.call.of = "category-products/snapshot"
  BY <1>1, <1>5, ReservingCalls
<1>7. PICK n : n = Len(u.pages) OBVIOUS
<1>8. /\ IsList(pages) /\ pages # <<>> /\ n \in Nat /\ Len(pages) = n + 1
      /\ \A i \in 1 .. n : pages[i] = u.pages[i]
      /\ pages[n + 1] = raw
  BY <1>1, <1>5, <1>7, ListGrows
<1>9. b.of = "category-products/snapshot" => pages[1].no = 1 /\ pages[1].of = "category_product_relations"
  <2> SUFFICES ASSUME b.of = "category-products/snapshot"
               PROVE  pages[1].no = 1 /\ pages[1].of = "category_product_relations"
    OBVIOUS
  <2>1. CASE u.pages = <<>>
    <3>1. n = 0 BY <1>7, <2>1, EmptyIsList
    <3>2. pages[1] = raw BY <1>8, <3>1
    <3>3. raw.no = 1 BY <1>7, <3>1
    <3>4. QED BY <1>2, <1>6, <2>1, <3>2, <3>3
  <2>2. CASE u.pages # <<>>
    <3>1. old.pages[1].no = 1 /\ old.pages[1].of = "category_product_relations" BY <1>2, <2>2 DEF CaptureOK
    <3>2. n # 0
      <4>1. PICK S : u.pages \in Seq(S) BY <1>5 DEF IsList
      <4>2. QED BY <1>7, <2>2, <4>1
    <3>3. pages[1] = u.pages[1] BY <1>8, <3>2
    <3>4. QED BY <1>2, <3>1, <3>3
  <2>3. QED BY <2>1, <2>2
<1>10. CaptureOK(b, k) BY <1>2, <1>4, <1>6, <1>8, <1>9 DEF CaptureOK
<1>11. ASSUME NEW v, v.call = u.call, v.since = u.since, v.by = u.by, v.pages = pages, v.exported = u.exported
       PROVE  OwnerOK(v, k)
  <2>1. \A i \in 1 .. (n + 1) : i \in 1 .. n \/ i = n + 1 BY <1>8
  <2>2. \A i \in 1 .. Len(v.pages) : v.pages[i].by = v.by BY <1>2, <1>7, <1>8, <1>11, <2>1
  <2>3. 0 <= Len(Endpoint(v.call).stages)
    <3>1. Endpoint(v.call).stages = OrdinaryStages(v.call.of) BY <1>6, <1>11, EndpointParts
    <3>2. QED BY <3>1, StagesAreCounted
  <2>4. ExportedSoFar(v) = {} BY <1>2, <1>11 DEF ExportedSoFar
  <2>5. Reserving(v) => Reserving(u) BY <1>11 DEF Reserving
  <2>6. QED BY <1>2, <1>4, <1>11, <2>2, <2>3, <2>4, <2>5 DEF OwnerOK
<1>12. QED BY <1>1, <1>2, <1>10, <1>11

LEMMA PagesKeepBatches ==
  ASSUME BatchInv, NEW r \in Readers, ReadListPage(r)
  PROVE  BatchInv'
<1>1. Reading(r) /\ UNCHANGED <<arrivals, served>> BY DEF ReadListPage
<1>2. PICK u : u = reader[r] OBVIOUS
<1>3. PICK page : page = NextPage(r, u) OBVIOUS
<1>4. PICK raw : raw = RawOf(r, u, page) OBVIOUS
<1>5. PICK run : run = RunWith(u, raw) OBVIOUS
<1>6. PICK v : v = AfterPage(r, page, run) OBVIOUS
<1>7. PICK k : k = KeptWith(Kept(r), raw) OBVIOUS
<1>8. PICK over : over = TRUE <=> (~MaySend(r) \/ (KeepsBatch(u) /\ RawTaken(r, Len(u.pages) + 1)) \/ PagesOver(r, page))
  OBVIOUS
<1>9. PICK keeps : keeps = TRUE <=> (KeepsBatch(u) /\ MaySend(r) /\ ~RawTaken(r, Len(u.pages) + 1)) OBVIOUS
<1>10. /\ IF over = TRUE THEN Leave(r) ELSE Becomes(r, v)
       /\ IF keeps = TRUE THEN Keep(r, k) ELSE UNCHANGED captures
  BY <1>2, <1>3, <1>4, <1>5, <1>6, <1>7, <1>8, <1>9 DEF ReadListPage, KeepsBatch, Of, NextPage, RawOf, RunWith, KeptWith
<1>11. MemoryOK(u, arrivals) /\ u.call \in ReadCalls /\ u.pc = "read"
  BY <1>1, <1>2 DEF BatchInv, MemoryOK, Reading, ReaderAt
<1>12. /\ MemoryOK(v, arrivals) /\ v.pc = "read" /\ v.call = u.call /\ v.at = u.at /\ v.since = u.since /\ v.by = u.by
       /\ v.pages = Append(u.pages, raw) /\ v.exported = u.exported
  BY <1>1, <1>2, <1>3, <1>4, <1>5, <1>6, <1>11, PageIsInMemory
<1>13. raw.no = Len(u.pages) + 1 /\ raw.of = StageOf(r).of /\ raw.by = u.by BY <1>4 DEF RawOf
<1>14. keeps = TRUE => Alone(r) /\ CaptureOK(BatchAt(u), k) /\ OwnerOK(v, k)
  <2> SUFFICES ASSUME keeps = TRUE PROVE Alone(r) /\ CaptureOK(BatchAt(u), k) /\ OwnerOK(v, k) OBVIOUS
  <2>1. KeepsBatch(u) /\ ~RawTaken(r, Len(u.pages) + 1) BY <1>9
  <2>2. /\ Alone(r) /\ CaptureOK(BatchAt(u), k)
        /\ \A x : (/\ x.call = u.call /\ x.since = u.since /\ x.by = u.by /\ x.pages = Append(u.pages, raw)
                   /\ x.exported = u.exported) => OwnerOK(x, k)
    BY <1>1, <1>2, <1>7, <1>13, <2>1, PageIsStored
  <2>3. QED BY <1>12, <2>2
<1>15. u.call.of \in ReadEndpoints BY <1>11, ReadAssumption
<1>16. BatchAt(v) = BatchAt(u) BY <1>12 DEF BatchAt
<1>17. CASE over = TRUE /\ keeps # TRUE BY <1>1, <1>10, <1>17, LeavesBatch
<1>18. CASE over = TRUE /\ keeps = TRUE BY <1>1, <1>2, <1>10, <1>14, <1>15, <1>18, LeavesWrittenBatch
<1>19. CASE over # TRUE /\ keeps # TRUE
  <2>1. ~KeepsBatch(u) BY <1>8, <1>9, <1>19
  <2>2. ~OwnsBatch(v) BY <1>12, <2>1 DEF OwnsBatch, KeepsBatch
  <2>3. Len(served) \in Nat /\ served' = served BY <1>1 DEF BatchInv
  <2>4. QED BY <1>1, <1>10, <1>12, <1>19, <2>2, <2>3, MemoryRewritten
<1>20. CASE over # TRUE /\ keeps = TRUE
  BY <1>1, <1>2, <1>10, <1>12, <1>14, <1>15, <1>16, <1>20, FilesRewritten
<1>21. QED BY <1>17, <1>18, <1>19, <1>20

-----------------------------------------------------------------------------
(* ReadBootstrap: the exports and the manifest                             *)

\* A call that has all of its pages has written all that is in the batch.
Finishes(r, u, k) ==
  /\ u.pc = "read" /\ KeepsBatch(u) /\ ~(u.stage <= Len(Endpoint(u.call).stages)) /\ RunFields \subseteq DOMAIN u
  /\ u.call \in ReadCalls /\ MemoryOK(u, arrivals)
  /\ k = StoredIn(captures, BatchAt(u)) /\ CaptureOK(BatchAt(u), k) /\ Alone(r) /\ OwnerOK(u, k)
  /\ Reserving(u) \/ u.pages # <<>>

LEMMA FinishersOwn ==
  ASSUME BatchInv, NEW r \in Readers, PagesTaken(r), NEW u, u = reader[r], NEW k, k = Kept(r)
  PROVE  Finishes(r, u, k)
<1>1. PICK b : b = BatchAt(u) OBVIOUS
<1>2. k = StoredIn(captures, b) /\ CaptureOK(b, k)
  <2>1. b = Batch(r) BY <1>1 DEF Batch, BatchAt
  <2>2. QED BY <2>1, BatchesAreKept DEF Kept
<1>3. u.pc = "read" /\ KeepsBatch(u) /\ ~(u.stage <= Len(Endpoint(u.call).stages))
  BY DEF PagesTaken, Reading, ReaderAt, KeepsBatch, Of
<1>4. MemoryOK(u, arrivals) BY DEF BatchInv
<1>5. /\ RunFields \subseteq DOMAIN u /\ u.call \in ReadCalls
      /\ ~Reserving(u) /\ u.pages = <<>> => u.stage = 1
  BY <1>3, <1>4 DEF MemoryOK
<1>6. Reserving(u) \/ u.pages # <<>>
  <2> SUFFICES ASSUME ~Reserving(u), u.pages = <<>> PROVE FALSE OBVIOUS
  <2>1. u.call.of = "category-products/snapshot" /\ u.call.of \in ReadEndpoints BY <1>3, <1>5, ReservingCalls
  <2>2. Endpoint(u.call).stages = SnapshotStages BY <2>1, EndpointParts DEF OrdinaryStages
  <2>3. Len(SnapshotStages) = 1 BY DEF SnapshotStages
  <2>4. QED BY <1>3, <1>5, <2>2, <2>3
<1>7. OwnsBatch(u) BY <1>3, <1>6 DEF OwnsBatch
<1>8. Alone(r) /\ OwnerOK(u, k) BY <1>1, <1>2, <1>7 DEF BatchInv
<1>9. QED BY <1>1, <1>2, <1>3, <1>4, <1>5, <1>6, <1>8 DEF Finishes

\* What its owner writes in a batch leaves it in order, unless it is a manifest that is not whole.
LEMMA OwnerWrites ==
  ASSUME NEW r, NEW u, NEW old, Finishes(r, u, old), NEW k,
         {"reserved", "since", "pages", "exports", "manifest"} \subseteq DOMAIN k,
         k.reserved = old.reserved, k.pages = old.pages,
         k.manifest \in {NotThere, TornFile} \/ WholeBatch(BatchAt(u), k)
  PROVE  CaptureOK(BatchAt(u), k)
<1>1. PICK b : b = BatchAt(u) OBVIOUS
<1>2. CaptureOK(b, old) /\ OwnerOK(u, old) /\ KeepsBatch(u) /\ u.call \in ReadCalls /\ (Reserving(u) \/ u.pages # <<>>)
  BY <1>1 DEF Finishes
<1>3. /\ b.of = u.call.of
      /\ Reserving(u) <=> u.call.of \in ReservingEndpoints
      /\ ~Reserving(u) <=> u.call.of = "category-products/snapshot"
  BY <1>1, <1>2, ReservingCalls
<1>4. old.pages = u.pages /\ (Reserving(u) => old.reserved = TRUE) BY <1>2 DEF OwnerOK
<1>5. IsList(old.pages) BY <1>2 DEF CaptureOK
<1>6. b.of = "category-products/snapshot" => k.pages # <<>> /\ k.pages[1].no = 1 /\ k.pages[1].of = "category_product_relations"
  BY <1>2, <1>3, <1>4 DEF CaptureOK
<1>7. k.manifest \notin {NotThere, TornFile} => WholeBatch(b, k) BY <1>1
<1>8. b.of \in ReservingEndpoints => k.reserved = TRUE BY <1>3, <1>4
<1>9. CaptureOK(b, k) BY <1>5, <1>6, <1>7, <1>8 DEF CaptureOK
<1>10. QED BY <1>1, <1>9

\* What an export leaves in a batch.
WithFile(k, res, content) ==
  [k EXCEPT !.exports = [x \in DOMAIN @ \union {res} |-> IF x = res THEN content ELSE @[x]]]

LEMMA FileIsWritten ==
  ASSUME NEW old, {"reserved", "since", "pages", "exports", "manifest"} \subseteq DOMAIN old, NEW res, NEW content,
         NEW k, k = WithFile(old, res, content)
  PROVE  /\ {"reserved", "since", "pages", "exports", "manifest"} \subseteq DOMAIN k
         /\ k.reserved = old.reserved /\ k.since = old.since /\ k.pages = old.pages /\ k.manifest = old.manifest
         /\ DOMAIN k.exports = DOMAIN old.exports \union {res} /\ k.exports[res] = content
         /\ \A x \in DOMAIN old.exports : x # res => k.exports[x] = old.exports[x]
<1>1. PICK e : e = [x \in DOMAIN old.exports \union {res} |-> IF x = res THEN content ELSE old.exports[x]] OBVIOUS
<1>2. k = [old EXCEPT !.exports = e] BY <1>1 DEF WithFile
<1>3. k.exports = e /\ DOMAIN k = DOMAIN old BY <1>2
<1>4. k.reserved = old.reserved /\ k.since = old.since /\ k.pages = old.pages /\ k.manifest = old.manifest BY <1>2
<1>5. /\ DOMAIN e = DOMAIN old.exports \union {res} /\ e[res] = content
      /\ \A x \in DOMAIN old.exports : x # res => e[x] = old.exports[x]
  BY <1>1
<1>6. QED BY <1>3, <1>4, <1>5

LEMMA ExportsKeepBatches ==
  ASSUME BatchInv, NEW r \in Readers, WriteExport(r)
  PROVE  BatchInv'
<1>1. Exporting(r) /\ UNCHANGED <<arrivals, served>> BY DEF WriteExport
<1>2. PICK u, old, b : u = reader[r] /\ old = Kept(r) /\ b = BatchAt(u) OBVIOUS
<1>3. Finishes(r, u, old) BY <1>1, <1>2, FinishersOwn DEF Exporting
<1>4. CASE Leave(r) /\ UNCHANGED captures BY <1>1, <1>4, LeavesBatch
<1>5. CASE ~(Leave(r) /\ UNCHANGED captures)
  <2>1. PICK res, content : res = NextExport(r) /\ content = RecordsOf(u.pages, res) OBVIOUS
  <2>2. PICK k : k = WithFile(old, res, content) OBVIOUS
  <2>3. PICK v : v = [u EXCEPT !.exported = @ + 1] OBVIOUS
  <2>4. Keep(r, k) /\ Becomes(r, v)
    BY <1>2, <1>5, <2>1, <2>2, <2>3 DEF WriteExport, WithExport, WithFile
  <2>5. /\ u.pc = "read" /\ KeepsBatch(u) /\ ~(u.stage <= Len(Endpoint(u.call).stages)) /\ RunFields \subseteq DOMAIN u
        /\ u.call \in ReadCalls /\ MemoryOK(u, arrivals)
        /\ CaptureOK(b, old) /\ Alone(r) /\ OwnerOK(u, old)
        /\ Reserving(u) \/ u.pages # <<>>
    BY <1>2, <1>3 DEF Finishes
  <2>6. PICK e, n : e = u.exported /\ n = u.exported + 1 OBVIOUS
  <2>7. e \in Nat /\ n = e + 1 /\ n \in Nat BY <2>5, <2>6 DEF MemoryOK
  <2>8. /\ RunFields \subseteq DOMAIN v /\ v.pc = "read" /\ v.call = u.call /\ v.at = u.at /\ v.since = u.since
        /\ v.by = u.by /\ v.pages = u.pages /\ v.exported = n /\ v.stage = u.stage /\ v.left = u.left
        /\ v.offset = u.offset
    BY <2>3, <2>5, <2>6 DEF RunFields
  <2>9. {"reserved", "since", "pages", "exports", "manifest"} \subseteq DOMAIN old BY <2>5 DEF CaptureOK
  <2>10. /\ {"reserved", "since", "pages", "exports", "manifest"} \subseteq DOMAIN k
         /\ k.reserved = old.reserved /\ k.since = old.since /\ k.pages = old.pages /\ k.manifest = old.manifest
         /\ DOMAIN k.exports = DOMAIN old.exports \union {res} /\ k.exports[res] = content
         /\ \A x \in DOMAIN old.exports : x # res => k.exports[x] = old.exports[x]
    BY <2>2, <2>9, FileIsWritten
  <2>11. /\ old.pages = u.pages /\ old.manifest = NotThere
         /\ \A i \in 1 .. Len(u.pages) : u.pages[i].by = u.by
         /\ DOMAIN old.exports = ExportedSoFar(u)
         /\ \A x \in DOMAIN old.exports : old.exports[x] = RecordsOf(u.pages, x)
         /\ Reserving(u) => old.reserved = TRUE /\ old.since = u.since
    BY <2>5 DEF OwnerOK
  <2>12. CaptureOK(b, k) BY <1>2, <1>3, <2>10, <2>11, OwnerWrites
  <2>13. MemoryOK(v, arrivals)
    <3>1. /\ u.by \in Nat /\ IsList(u.pages)
          /\ u.call.of = "read_bootstrap" =>
               BootstrapRead(u.call, u.pages, u.since, u.stage, u.left, u.offset, arrivals)
      BY <2>5 DEF MemoryOK
    <3>2. KeepsBatch(v) /\ (Reserving(v) <=> Reserving(u)) BY <2>5, <2>8 DEF KeepsBatch, Reserving
    <3>3. /\ v.by \in Nat /\ IsList(v.pages) /\ v.call \in ReadCalls /\ v.exported \in Nat
          /\ {"pc", "call", "by"} \subseteq DOMAIN v /\ RunFields \subseteq DOMAIN v /\ v.pc = "read"
          /\ Reserving(v) \/ v.pages # <<>>
      BY <2>5, <2>7, <2>8, <3>1, <3>2 DEF RunFields
    <3>4. v.call.of = "read_bootstrap" =>
            BootstrapRead(v.call, v.pages, v.since, v.stage, v.left, v.offset, arrivals)
      BY <2>8, <3>1
    <3>5. QED BY <3>3, <3>4 DEF MemoryOK
  <2>14. OwnerOK(v, k)
    <3>1. PICK stages : stages = Endpoint(u.call).stages OBVIOUS
    <3>2. e < Len(stages) /\ res = stages[n].of
      BY <1>1, <1>2, <2>1, <2>6, <3>1 DEF Exporting, NextExport, Of
    <3>3. Len(stages) \in Nat
      <4>1. u.call.of \in ReadEndpoints BY <2>5, ReadAssumption
      <4>2. QED BY <3>1, <4>1, EndpointParts, StagesAreCounted
    <3>4. n <= Len(stages) BY <2>7, <3>2, <3>3
    <3>5. ExportedSoFar(u) = {stages[i].of : i \in 1 .. e} /\ ExportedSoFar(v) = {stages[i].of : i \in 1 .. n}
      BY <2>6, <2>8, <3>1 DEF ExportedSoFar
    <3>6. \A i : i \in 1 .. n <=> (i \in 1 .. e \/ i = n) BY <2>7
    <3>7. \A x : x \in ExportedSoFar(v) <=> (x \in ExportedSoFar(u) \/ x = res)
      BY <3>2, <3>5, <3>6
    <3>8. \A x : x \in DOMAIN k.exports <=> x \in ExportedSoFar(v) BY <2>10, <2>11, <3>7
    <3>9. \A x \in DOMAIN k.exports : k.exports[x] = RecordsOf(u.pages, x) BY <2>1, <2>10, <2>11
    <3>10. DOMAIN k.exports = ExportedSoFar(v) BY <3>8
    <3>11. Reserving(v) => Reserving(u) BY <2>8 DEF Reserving
    <3>12. v.exported <= Len(Endpoint(v.call).stages) /\ ~(v.stage <= Len(Endpoint(v.call).stages))
      BY <2>5, <2>8, <3>1, <3>4
    <3>13. QED BY <2>8, <2>10, <2>11, <3>9, <3>10, <3>11, <3>12 DEF OwnerOK
  <2>15. BatchAt(v) = BatchAt(u) /\ u.call.of \in ReadEndpoints BY <2>5, <2>8, ReadAssumption DEF BatchAt
  <2>16. QED BY <1>1, <1>2, <2>4, <2>5, <2>12, <2>13, <2>14, <2>15, FilesRewritten
<1>6. QED BY <1>4, <1>5

LEMMA FailuresKeepBatches ==
  ASSUME BatchInv, NEW r \in Readers, WriteFails(r)
  PROVE  BatchInv'
<1>1. PagesTaken(r) /\ Leave(r) /\ UNCHANGED <<arrivals, served>> BY DEF WriteFails, Exporting, Manifesting
<1>2. PICK u, old, b : u = reader[r] /\ old = Kept(r) /\ b = BatchAt(u) OBVIOUS
<1>3. Finishes(r, u, old) BY <1>1, <1>2, FinishersOwn
<1>4. /\ CaptureOK(b, old) /\ OwnerOK(u, old) /\ Alone(r) /\ u.call.of \in ReadEndpoints
  BY <1>2, <1>3, ReadAssumption DEF Finishes
<1>5. {"reserved", "since", "pages", "exports", "manifest"} \subseteq DOMAIN old /\ old.manifest = NotThere
  BY <1>4 DEF CaptureOK, OwnerOK
<1>6. PICK res : res = NextExport(r) OBVIOUS
<1>7. CASE Keep(r, WithExport(r, TornFile))
  <2>1. PICK k : k = WithFile(old, res, TornFile) OBVIOUS
  <2>2. Keep(r, k) BY <1>2, <1>6, <1>7, <2>1 DEF WithExport, WithFile
  <2>3. /\ {"reserved", "since", "pages", "exports", "manifest"} \subseteq DOMAIN k
        /\ k.reserved = old.reserved /\ k.pages = old.pages /\ k.manifest = old.manifest
    BY <1>5, <2>1, FileIsWritten
  <2>4. CaptureOK(b, k) BY <1>2, <1>3, <1>5, <2>3, OwnerWrites
  <2>5. QED BY <1>1, <1>2, <1>4, <2>2, <2>4, LeavesWrittenBatch
<1>8. CASE Keep(r, [Kept(r) EXCEPT !.manifest = TornFile])
  <2>1. PICK k : k = [old EXCEPT !.manifest = TornFile] OBVIOUS
  <2>2. Keep(r, k) BY <1>2, <1>8, <2>1
  <2>3. /\ {"reserved", "since", "pages", "exports", "manifest"} \subseteq DOMAIN k
        /\ k.reserved = old.reserved /\ k.pages = old.pages /\ k.manifest = TornFile
    BY <1>5, <2>1
  <2>4. CaptureOK(b, k) BY <1>2, <1>3, <2>3, OwnerWrites
  <2>5. QED BY <1>1, <1>2, <1>4, <2>2, <2>4, LeavesWrittenBatch
<1>9. QED BY <1>7, <1>8 DEF WriteFails

\* The records under which a stage of the bootstrap has been read are those it takes.
LEMMA ParentsWereRead ==
  ASSUME NEW job, NEW j \in 1 .. 10, NEW pages \in Seq(RawPages), NEW k,
         BootstrapStages[j].under # "none" =>
           k.exports[BootstrapStages[j].under] = RecordsOf(pages, BootstrapStages[j].under)
  PROVE  ParentsIn(k, BootstrapStages[j]) \subseteq ParentsAt(job, j, pages)
<1>1. PICK s : s = BootstrapStages[j] OBVIOUS
<1>2. CASE s.under = "none"
  <2>1. Parents(job, s, pages) = <<Top>> BY <1>1, <1>2, BootstrapParents
  <2>2. ParentsAt(job, j, pages) = {Top} BY <1>1, <2>1 DEF ParentsAt, ToSet
  <2>3. ParentsIn(k, s) = {Top} BY <1>2 DEF ParentsIn
  <2>4. QED BY <1>1, <2>2, <2>3
<1>3. CASE s.under # "none"
  <2>1. PICK e, take : e = RecordsOf(pages, s.under) /\ take = s.take OBVIOUS
  <2>2. k.exports[s.under] = e BY <1>1, <1>3, <2>1
  <2>3. e \in Seq(PageRows) BY <2>1, RecordsAreRead
  <2>4. Parents(job, s, pages) = ChosenIds(e, take) BY <1>1, <1>3, <2>1, BootstrapParents
  <2>5. \A x : x \in ParentsAt(job, j, pages) <=> \E i \in DOMAIN e : Among(e, take, i) /\ x = e[i].id
    <3>1. ToSet(ChosenIds(e, take)) = {e[i].id : i \in {m \in DOMAIN e : Among(e, take, m)}} BY <2>3, ChosenAreAmong
    <3>2. QED BY <1>1, <2>4, <3>1 DEF ParentsAt
  <2>6. take \in Nat BY <1>1, <2>1, BootstrapStagesFacts DEF Every, ProductBatchSize
  <2>7. ASSUME NEW i \in DOMAIN e, take = Every \/ i <= take PROVE Among(e, take, i)
    <3>1. i \in Nat BY <2>3, <2>7
    <3>2. PICK n : n = Cardinality({m \in 1 .. i : e[m].under = e[i].under}) OBVIOUS
    <3>3. n \in Nat /\ n <= i
      <4>1. IsFiniteSet(1 .. i) /\ Cardinality(1 .. i) = i
        <5>1. 1 \in Int /\ i \in Int /\ 1 <= i BY <2>3, <2>7
        <5>2. PICK d : d = Cardinality(1 .. i) OBVIOUS
        <5>3. IsFiniteSet(1 .. i) /\ d = IF 1 > i THEN 0 ELSE i - 1 + 1 BY <5>1, <5>2, FS_Interval
        <5>4. QED BY <5>1, <5>2, <5>3
      <4>2. {m \in 1 .. i : e[m].under = e[i].under} \subseteq 1 .. i OBVIOUS
      <4>3. QED BY <3>2, <4>1, <4>2, FS_Subset, FS_CardinalityType
    <3>4. take = Every \/ n <= take BY <2>6, <2>7, <3>1, <3>3
    <3>5. QED BY <3>2, <3>4 DEF Among
  <2>8. \A x : x \in ParentsIn(k, s) <=> \E i \in DOMAIN e : (take = Every \/ i <= take) /\ x = e[i].id
    BY <1>3, <2>1, <2>2 DEF ParentsIn
  <2>9. \A x \in ParentsIn(k, s) : x \in ParentsAt(job, j, pages) BY <2>5, <2>7, <2>8
  <2>10. QED BY <1>1, <2>9
<1>4. QED BY <1>2, <1>3

\* What a bootstrap reads is all that it reads under.
LEMMA BootstrapReadsParents ==
  ASSUME NEW j \in 1 .. 10
  PROVE  /\ BootstrapStages[j].of \in {BootstrapStages[i].of : i \in 1 .. 10}
         /\ BootstrapStages[j].under # "none" =>
              BootstrapStages[j].under \in {BootstrapStages[i].of : i \in 1 .. 10}
<1>1. \A i \in 1 .. 10 : BootstrapStages[i].of \in {BootstrapStages[m].of : m \in 1 .. 10} OBVIOUS
<1>2. /\ BootstrapStages[1].of = "products" /\ BootstrapStages[2].of = "variants" /\ BootstrapStages[5].of = "orders"
      /\ BootstrapStages[8].of = "boards" /\ BootstrapStages[9].of = "articles"
  BY DEF BootstrapStages, TopStage, Stage
<1>3. BootstrapStages[j].under \in {"none", "products", "variants", "orders", "boards", "articles"}
  <2>1. j \in {1, 2, 3, 4, 5, 6, 7, 8, 9, 10} OBVIOUS
  <2>2. QED BY <2>1 DEF BootstrapStages, TopStage, Stage
<1>4. QED BY <1>1, <1>2, <1>3

\* A bootstrap that has passed its last stage has all that the source listed.
LEMMA BootstrapIsWhole ==
  ASSUME NEW job, NEW pages, NEW since, NEW left, NEW offset, NEW now,
         BootstrapRead(job, pages, since, 11, left, offset, now), NEW k, k.since = since,
         \A res \in {BootstrapStages[i].of : i \in 1 .. 10} : k.exports[res] = RecordsOf(pages, res)
  PROVE  HasWhatWasListed(k)
<1>1. pages \in Seq(RawPages) /\ StagesAreRead(job, pages, since, 11) BY DEF BootstrapRead
<1>2. ASSUME NEW j \in 1 .. 10, NEW p \in ParentsIn(k, BootstrapStages[j])
      PROVE  ToSet(ListOf(BootstrapStages[j].of, p, k.since)) \subseteq IdsIn(k.exports[BootstrapStages[j].of], p)
  <2>1. PICK s : s = BootstrapStages[j] OBVIOUS
  <2>2. k.exports[s.of] = RecordsOf(pages, s.of) /\ (s.under # "none" => k.exports[s.under] = RecordsOf(pages, s.under))
    BY <2>1, BootstrapReadsParents
  <2>3. p \in ParentsAt(job, j, pages) BY <1>1, <2>1, <2>2, ParentsWereRead
  <2>4. j < 11 OBVIOUS
  <2>5. ListIsRead(pages, since, j, p) BY <1>1, <2>3, <2>4 DEF StagesAreRead
  <2>6. PICK e : e = RecordsOf(pages, s.of) OBVIOUS
  <2>7. IdsIn(e, p) = IdsRead(pages, s.of, p) BY <1>1, <2>6, RecordsAreRead DEF IdsIn
  <2>8. ToSet(ListOf(s.of, p, since)) \subseteq IdsRead(pages, s.of, p) BY <2>1, <2>5 DEF ListIsRead
  <2>9. QED BY <2>1, <2>2, <2>6, <2>7, <2>8
<1>3. QED BY <1>2 DEF HasWhatWasListed

\* A manifest is written when everything it names is there.
LEMMA ManifestIsWritten ==
  ASSUME NEW r, NEW u, NEW old, Finishes(r, u, old), u.exported = Len(Endpoint(u.call).stages), NEW k,
         k.pages = old.pages, k.exports = old.exports, k.since = old.since,
         k.manifest = {u.pages[i].no : i \in DOMAIN u.pages}
  PROVE  WholeBatch(BatchAt(u), k)
<1>1. PICK b, stages : b = BatchAt(u) /\ stages = OrdinaryStages(b.of) OBVIOUS
<1>2. /\ u.pc = "read" /\ KeepsBatch(u) /\ ~(u.stage <= Len(Endpoint(u.call).stages)) /\ u.call \in ReadCalls
      /\ MemoryOK(u, arrivals) /\ OwnerOK(u, old)
  BY DEF Finishes
<1>3. u.call.of \in ReadEndpoints /\ b.of = u.call.of BY <1>1, <1>2, ReservingCalls
<1>4. Endpoint(u.call).stages = stages /\ DOMAIN stages = 1 .. Len(stages) BY <1>1, <1>3, EndpointParts, StagesAreCounted
<1>5. /\ k.pages = u.pages /\ k.exports = old.exports
      /\ \A i \in 1 .. Len(u.pages) : u.pages[i].by = u.by
      /\ DOMAIN k.exports = ExportedSoFar(u)
      /\ \A res \in DOMAIN k.exports : k.exports[res] = RecordsOf(u.pages, res)
      /\ Reserving(u) => k.since = u.since
  BY <1>2 DEF OwnerOK
<1>6. DOMAIN u.pages = 1 .. Len(u.pages)
  <2>1. PICK S : u.pages \in Seq(S) BY <1>2 DEF MemoryOK, IsList
  <2>2. QED BY <2>1
<1>7. \A i, j \in DOMAIN k.pages : k.pages[i].by = k.pages[j].by BY <1>5, <1>6
<1>8. k.manifest = {k.pages[i].no : i \in DOMAIN k.pages} BY <1>5
<1>9. DOMAIN k.exports = {stages[i].of : i \in DOMAIN stages} BY <1>4, <1>5 DEF ExportedSoFar
<1>10. b.of = "read_bootstrap" => HasWhatWasListed(k)
  <2> SUFFICES ASSUME b.of = "read_bootstrap" PROVE HasWhatWasListed(k) OBVIOUS
  <2>1. BootstrapRead(u.call, u.pages, u.since, u.stage, u.left, u.offset, arrivals)
    BY <1>2, <1>3 DEF MemoryOK
  <2>2. stages = BootstrapStages BY <1>1 DEF OrdinaryStages
  <2>3. u.stage = 11
    <3>1. u.stage \in 1 .. 11 BY <2>1 DEF BootstrapRead
    <3>2. ~(u.stage <= 10) BY <1>2, <1>4, <2>2, BootstrapHasTen
    <3>3. QED BY <3>1, <3>2
  <2>4. Reserving(u) BY <1>2, <1>3, ReservingCalls
  <2>5. k.since = u.since BY <1>5, <2>4
  <2>6. \A res \in {BootstrapStages[i].of : i \in 1 .. 10} : k.exports[res] = RecordsOf(u.pages, res)
    BY <1>5, <1>9, <2>2, BootstrapHasTen
  <2>7. QED BY <2>1, <2>3, <2>5, <2>6, BootstrapIsWhole
<1>11. WholeBatch(b, k) BY <1>1, <1>5, <1>7, <1>8, <1>9, <1>10 DEF WholeBatch
<1>12. QED BY <1>1, <1>11

LEMMA ManifestsKeepBatches ==
  ASSUME BatchInv, NEW r \in Readers, WriteBatchManifest(r)
  PROVE  BatchInv'
<1>1. Manifesting(r) /\ PagesTaken(r) /\ Leave(r) /\ UNCHANGED <<arrivals, served>>
  BY DEF WriteBatchManifest, Manifesting
<1>2. PICK u, old, b : u = reader[r] /\ old = Kept(r) /\ b = BatchAt(u) OBVIOUS
<1>3. Finishes(r, u, old) BY <1>1, <1>2, FinishersOwn
<1>4. /\ CaptureOK(b, old) /\ OwnerOK(u, old) /\ Alone(r) /\ u.call.of \in ReadEndpoints
  BY <1>2, <1>3, ReadAssumption DEF Finishes
<1>5. {"reserved", "since", "pages", "exports", "manifest"} \subseteq DOMAIN old /\ old.manifest = NotThere
  BY <1>4 DEF CaptureOK, OwnerOK
<1>6. PICK m : m = {u.pages[i].no : i \in DOMAIN u.pages} OBVIOUS
<1>7. PICK k : k = [old EXCEPT !.manifest = m] OBVIOUS
<1>8. Keep(r, k) BY <1>2, <1>5, <1>6, <1>7 DEF WriteBatchManifest
<1>9. /\ {"reserved", "since", "pages", "exports", "manifest"} \subseteq DOMAIN k
      /\ k.reserved = old.reserved /\ k.since = old.since /\ k.pages = old.pages /\ k.exports = old.exports
      /\ k.manifest = m
  BY <1>5, <1>7
<1>10. u.exported = Len(Endpoint(u.call).stages) BY <1>1, <1>2 DEF Manifesting, Of
<1>11. WholeBatch(b, k) BY <1>2, <1>3, <1>6, <1>9, <1>10, ManifestIsWritten
<1>12. CaptureOK(b, k) BY <1>2, <1>3, <1>9, <1>11, OwnerWrites
<1>13. QED BY <1>1, <1>2, <1>4, <1>8, <1>12, LeavesWrittenBatch

-----------------------------------------------------------------------------
(* ReadBootstrap: every manifest that is written names a whole batch       *)

LEMMA OrdersKeepBatches == ASSUME BatchInv, OrderArrives PROVE BatchInv'
<1>1. arrivals' = arrivals + 1 /\ UNCHANGED <<reader, captures, served>> BY DEF OrderArrives
<1>2. ASSUME NEW v, MemoryOK(v, arrivals) PROVE MemoryOK(v, arrivals + 1)
  <2>1. \A job, pages, since, stage, left, offset :
          BootstrapRead(job, pages, since, stage, left, offset, arrivals) =>
            BootstrapRead(job, pages, since, stage, left, offset, arrivals + 1)
    BY OrdersComeIn
  <2>2. QED BY <1>2, <2>1 DEF MemoryOK
<1>3. \A r \in Readers : MemoryOK(reader'[r], arrivals') BY <1>1, <1>2 DEF BatchInv
<1>4. arrivals' \in Nat /\ Len(served) \in Nat /\ served' = served BY <1>1 DEF BatchInv
<1>5. /\ reader' = reader /\ captures' = captures /\ DOMAIN reader = Readers
      /\ \A r \in Readers : OwnsBatch(reader[r]) => Alone(r) /\ OwnerOK(reader[r], StoredIn(captures, BatchAt(reader[r])))
      /\ \A b \in DOMAIN captures : b.of \in ReadEndpoints /\ CaptureOK(b, captures[b])
  BY <1>1 DEF BatchInv
<1>6. QED BY <1>3, <1>4, <1>5 DEF BatchInv, Alone

LEMMA DeathsKeepBatches == ASSUME BatchInv, ServerDies PROVE BatchInv'
<1>1. reader' = [r \in Readers |-> NotServing] /\ UNCHANGED <<arrivals, captures, served>> BY DEF ServerDies
<1>2. NotServing.pc = "idle" BY DEF NotServing
<1>3. \A now : MemoryOK(NotServing, now) BY <1>2 DEF MemoryOK
<1>4. ~OwnsBatch(NotServing) BY <1>2 DEF OwnsBatch
<1>5. DOMAIN reader' = Readers /\ \A r \in Readers : reader'[r] = NotServing BY <1>1
<1>6. arrivals' \in Nat /\ arrivals' = arrivals /\ Len(served) \in Nat /\ served' = served BY <1>1 DEF BatchInv
<1>7. \A b \in DOMAIN captures' : b.of \in ReadEndpoints /\ CaptureOK(b, captures'[b]) BY <1>1 DEF BatchInv
<1>8. QED BY <1>3, <1>4, <1>5, <1>6, <1>7 DEF BatchInv

LEMMA RestsKeepBatches ==
  ASSUME BatchInv, UNCHANGED <<arrivals, reader, captures, served>>
  PROVE  BatchInv'
<1>1. Len(served) \in Nat /\ served' = served BY DEF BatchInv
<1>2. QED BY <1>1 DEF BatchInv, Alone

LEMMA BatchInvariance == ReadSpec => []BatchInv
<1>1. ReadInit => BatchInv
  <2> SUFFICES ASSUME ReadInit PROVE BatchInv OBVIOUS
  <2>1. arrivals = 0 /\ served = <<>> /\ captures = <<>> /\ reader = [r \in Readers |-> NotServing] BY DEF ReadInit
  <2>2. DOMAIN captures = {} /\ Len(served) = 0 BY <2>1, EmptyIsList
  <2>3. NotServing.pc = "idle" BY DEF NotServing
  <2>4. \A r \in Readers : reader[r].pc = "idle" /\ DOMAIN reader = Readers BY <2>1, <2>3
  <2>5. DOMAIN reader = Readers BY <2>1
  <2>6. \A r \in Readers : MemoryOK(reader[r], arrivals) /\ ~OwnsBatch(reader[r]) BY <2>4 DEF MemoryOK, OwnsBatch
  <2>7. QED BY <2>1, <2>2, <2>5, <2>6 DEF BatchInv
<1>2. BatchInv /\ [ReadNext]_readVars => BatchInv'
  <2> SUFFICES ASSUME BatchInv, [ReadNext]_readVars PROVE BatchInv' OBVIOUS
  <2>1. CASE GrantStep BY <2>1, RestsKeepBatches DEF GrantStep
  <2>2. CASE OrderArrives BY <2>2, OrdersKeepBatches
  <2>3. CASE ServerDies BY <2>3, DeathsKeepBatches
  <2>4. CASE UNCHANGED readVars BY <2>4, RestsKeepBatches DEF readVars
  <2>5. ASSUME NEW r \in Readers, ReadStep(r) PROVE BatchInv'
    <3>1. ASSUME NEW job \in ReadCalls, CallEndpoint(r, job) PROVE BatchInv' BY <3>1, CallsKeepBatches
    <3>2. ASSUME NEW at \in Stamps, Gate(r, at) PROVE BatchInv' BY <3>2, GateKeepsBatches
    <3>3. CASE CheckBatch(r) BY <3>3, CheckKeepsBatches
    <3>4. CASE ReserveBatch(r) BY <3>4, ReserveKeepsBatches
    <3>5. CASE ReadListPage(r) BY <3>5, PagesKeepBatches
    <3>6. CASE RequestFails(r) \/ RunnerSends(r) \/ RunnerTakesTransport(r) \/ EndsReads(r)
      BY <3>6, SendingKeepsBatches
    <3>7. CASE WriteExport(r) BY <3>7, ExportsKeepBatches
    <3>8. CASE WriteBatchManifest(r) BY <3>8, ManifestsKeepBatches
    <3>9. CASE WriteFails(r) BY <3>9, FailuresKeepBatches
    <3>10. QED BY <2>5, <3>1, <3>2, <3>3, <3>4, <3>5, <3>6, <3>7, <3>8, <3>9 DEF ReadStep
  <2>6. QED BY <2>1, <2>2, <2>3, <2>4, <2>5 DEF ReadNext
<1>3. QED BY <1>1, <1>2, PTL DEF ReadSpec

LEMMA WholeBatchesAreWhole == BatchInv => ManifestIsWhole
<1> SUFFICES ASSUME BatchInv PROVE ManifestIsWhole OBVIOUS
<1>1. ASSUME NEW b \in DOMAIN captures, HasManifest(b)
      PROVE  LET kept   == captures[b]
                 stages == Endpoint([of |-> b.of, arg |-> b.arg]).stages
                 named  == {stages[i].of : i \in DOMAIN stages} IN
             /\ \A i, j \in DOMAIN kept.pages : kept.pages[i].by = kept.pages[j].by
             /\ kept.manifest = {kept.pages[i].no : i \in DOMAIN kept.pages}
             /\ named = DOMAIN kept.exports
             /\ \A res \in named : kept.exports[res] = RecordsOf(kept.pages, res)
             /\ b.of = "read_bootstrap" =>
                  \A s \in ToSet(stages) : \A p \in ParentsKept(b, s) :
                    ListedThen(b, s.of, p) \subseteq ExportedIds(b, s.of, p)
  <2>1. PICK k, job : k = captures[b] /\ job = [of |-> b.of, arg |-> b.arg] OBVIOUS
  <2>2. CaptureOK(b, k) /\ b.of \in ReadEndpoints BY <2>1 DEF BatchInv
  <2>3. k.manifest \notin {NotThere, TornFile} BY <1>1, <2>1 DEF HasManifest, ManifestOf
  <2>4. WholeBatch(b, k) BY <2>2, <2>3 DEF CaptureOK
  <2>5. PICK stages : stages = Endpoint(job).stages OBVIOUS
  <2>6. stages = OrdinaryStages(b.of)
    <3>1. job.of = b.of BY <2>1
    <3>2. QED BY <2>2, <2>5, <3>1, EndpointParts
  <2>7. /\ \A i, j \in DOMAIN k.pages : k.pages[i].by = k.pages[j].by
        /\ k.manifest = {k.pages[i].no : i \in DOMAIN k.pages}
        /\ {stages[i].of : i \in DOMAIN stages} = DOMAIN k.exports
        /\ \A res \in DOMAIN k.exports : k.exports[res] = RecordsOf(k.pages, res)
        /\ b.of = "read_bootstrap" => HasWhatWasListed(k)
    BY <2>4, <2>6 DEF WholeBatch
  <2>8. ASSUME b.of = "read_bootstrap", NEW s \in ToSet(stages), NEW p \in ParentsKept(b, s)
        PROVE  ListedThen(b, s.of, p) \subseteq ExportedIds(b, s.of, p)
    <3>1. stages = BootstrapStages BY <2>6, <2>8 DEF OrdinaryStages
    <3>2. PICK j \in 1 .. 10 : s = BootstrapStages[j] BY <2>8, <3>1, BootstrapHasTen DEF ToSet
    <3>3. p \in ParentsIn(k, s) BY <2>1, <2>8 DEF ParentsKept, ParentsIn
    <3>4. ToSet(ListOf(s.of, p, k.since)) \subseteq IdsIn(k.exports[s.of], p)
      BY <2>7, <2>8, <3>2, <3>3 DEF HasWhatWasListed
    <3>5. QED BY <2>1, <3>4 DEF ListedThen, ExportedIds, IdsIn
  <2>9. QED BY <2>1, <2>5, <2>7, <2>8
<1>2. QED BY <1>1 DEF ManifestIsWhole

\* Whatever orders come in, whoever else is given the same batch id, and whichever
\* request or write fails, a batch with a whole manifest has the pages of one call,
\* the exports of those pages, and, if it is a read bootstrap's, every record that
\* the source listed when it began.
THEOREM ManifestsAreWhole == ReadSpec => []ManifestIsWhole
BY BatchInvariance, WholeBatchesAreWhole, PTL
=============================================================================
