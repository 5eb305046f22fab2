----------------------------- MODULE OAuthToken -----------------------------
(***************************************************************************)
(* The Cafe24 token between three places: the provider, app.state and the  *)
(* file under the protected root.  Requests run on threads of a pool and   *)
(* share app.state and the file without a lock.                            *)
(*                                                                         *)
(* The provider is external: a refresh token is good for one refresh,      *)
(* which answers with its successor.  Tokens are numbered as they are      *)
(* issued; 0 is no token.  "meta" stands for the mall, the shop and the    *)
(* scopes, which are written and read together after the token.  A file is *)
(* opened, which empties it, and then filled; it keeps its contents under  *)
(* whatever name it is moved to.                                           *)
(***************************************************************************)
EXTENDS Naturals

CONSTANTS
  TokenThreads,   \* threads that serve /start, /callback, /refresh, /persist-current, /restore
  MaxTokens,      \* bound: tokens issued
  MaxLost         \* bound: lost answers and restarts

ASSUME TokenAssumption == MaxTokens \in Nat /\ MaxLost \in Nat

VARIABLES
  usable,      \* the refresh tokens the provider accepts
  issued,
  pending,     \* cafe24_oauth_state is set
  memory,      \* the token in app.state and its metadata
  file,        \* cafe24_refresh_token.json
  fileTmp,     \* cafe24_refresh_token.tmp
  request,     \* what a request has in memory
  lost,
  behind,      \* history: a token was taken into memory since the last undisturbed save
  forgotten    \* history: a token was dropped that was not saved

tokenVars == <<usable, issued, pending, memory, file, fileTmp, request, lost, behind, forgotten>>

-----------------------------------------------------------------------------
NoToken == [token |-> 0, meta |-> FALSE]
Tokens  == [token : 0 .. MaxTokens, meta : BOOLEAN]
Torn    == [token |-> 0, meta |-> TRUE]  \* a file that is empty, or filled by two; no JSON
Resting == [pc |-> "idle"]
Serving == [pc : {"clear", "clearMeta", "take", "exchange", "read", "use", "store", "storeMeta",
                  "readMeta", "write", "fill", "fillFile", "fillGone", "replace"},
            op : {"start", "callback", "refresh", "persist", "restore"},
            token : 0 .. MaxTokens, meta : BOOLEAN, alone : BOOLEAN]

TokenTypeOK ==
  /\ usable \subseteq 1 .. MaxTokens /\ issued \in 0 .. MaxTokens
  /\ pending \in BOOLEAN
  /\ memory \in Tokens /\ file \in Tokens /\ fileTmp \in Tokens
  /\ request \in [TokenThreads -> Serving \union {Resting}]
  /\ lost \in 0 .. MaxLost
  /\ behind \in BOOLEAN /\ forgotten \in BOOLEAN

TokenInit ==
  /\ usable = {} /\ issued = 0
  /\ pending = FALSE
  /\ memory = NoToken /\ file = NoToken /\ fileTmp = NoToken
  /\ request = [r \in TokenThreads |-> Resting]
  /\ lost = 0
  /\ behind = FALSE /\ forgotten = FALSE

-----------------------------------------------------------------------------
RequestAt(r, pc) == request[r].pc = pc
Op(r, op)        == request[r].op = op
Others(r)        == {q \in TokenThreads \ {r} : ~RequestAt(q, "idle")}
Answer(r)        == request' = [request EXCEPT ![r] = Resting]
RequestTo(r, v)  == request' = [request EXCEPT ![r] = v]
ProviderUnchanged == UNCHANGED <<usable, issued>>
TokenFilesUnchanged    == UNCHANGED <<file, fileTmp>>
HistoryUnchanged  == UNCHANGED <<lost, behind, forgotten>>

\* A request that begins while others are under way disturbs them.
Arrives(r, op, pc, token) ==
  /\ RequestAt(r, "idle")
  /\ request' = [q \in TokenThreads |->
       IF q = r THEN [pc |-> pc, op |-> op, token |-> token, meta |-> FALSE, alone |-> Others(r) = {}]
       ELSE IF q \in Others(r) THEN [request[q] EXCEPT !.alone = FALSE]
       ELSE request[q]]
  /\ ProviderUnchanged /\ HistoryUnchanged

\* /start prepares a state and clears app.state, one field after the other.
Start(r) ==
  /\ Arrives(r, "start", "clear", 0)
  /\ pending' = TRUE
  /\ UNCHANGED memory /\ TokenFilesUnchanged

ClearToken(r) ==
  /\ RequestAt(r, "clear")
  /\ memory' = [memory EXCEPT !.token = 0]
  /\ RequestTo(r, [request[r] EXCEPT !.pc = "clearMeta"])
  /\ forgotten' = (forgotten \/ behind \/ Others(r) # {})
  /\ UNCHANGED <<pending, lost, behind>> /\ ProviderUnchanged /\ TokenFilesUnchanged

ClearMeta(r) ==
  /\ RequestAt(r, "clearMeta")
  /\ memory' = [memory EXCEPT !.meta = FALSE]
  /\ Answer(r)
  /\ UNCHANGED pending /\ ProviderUnchanged /\ TokenFilesUnchanged /\ HistoryUnchanged

\* /callback with the state of the last /start takes it, whoever else has
\* passed this test, and exchanges its code.
Callback(r) ==
  /\ pending
  /\ Arrives(r, "callback", "take", 0)
  /\ UNCHANGED <<pending, memory>> /\ TokenFilesUnchanged

TakeState(r) ==
  /\ RequestAt(r, "take")
  /\ pending' = FALSE
  /\ RequestTo(r, [request[r] EXCEPT !.pc = "exchange"])
  /\ UNCHANGED memory /\ ProviderUnchanged /\ TokenFilesUnchanged /\ HistoryUnchanged

\* The state has expired: it is taken, and the request refused.
Expired ==
  /\ pending
  /\ pending' = FALSE
  /\ UNCHANGED <<memory, request>> /\ ProviderUnchanged /\ TokenFilesUnchanged /\ HistoryUnchanged

\* /refresh and /persist-current go by the token in app.state, /restore by the
\* one in the file; without one, or with another mall's, they are refused.
Refresh(r) ==
  /\ memory.token # 0
  /\ Arrives(r, "refresh", "use", memory.token)
  /\ UNCHANGED <<pending, memory>> /\ TokenFilesUnchanged

Persist(r) ==
  /\ memory.token # 0
  /\ Arrives(r, "persist", "readMeta", memory.token)
  /\ UNCHANGED <<pending, memory>> /\ TokenFilesUnchanged

Restore(r) ==
  /\ file.token # 0 /\ file.meta
  /\ Arrives(r, "restore", "use", file.token)
  /\ UNCHANGED <<pending, memory>> /\ TokenFilesUnchanged

-----------------------------------------------------------------------------
\* The provider: a code or a usable token is answered with a new token.
Issues(r) ==
  /\ issued < MaxTokens
  /\ issued' = issued + 1
  /\ usable' = (usable \ {request[r].token}) \union {issued + 1}

Granted(r) ==
  \/ RequestAt(r, "exchange")
  \/ RequestAt(r, "use") /\ request[r].token \in usable

Issue(r) ==
  /\ Granted(r)
  /\ Issues(r)
  /\ RequestTo(r, [request[r] EXCEPT !.pc = "store", !.token = issued + 1])
  /\ UNCHANGED <<pending, memory>> /\ TokenFilesUnchanged /\ HistoryUnchanged

\* The answer does not arrive, or fails the checks of the scopes, the times,
\* the mall or the shop: the token it carried is gone.
LoseAnswer(r) ==
  /\ Granted(r)
  /\ Issues(r)
  /\ lost < MaxLost /\ lost' = lost + 1
  /\ Answer(r)
  /\ forgotten' = TRUE
  /\ UNCHANGED <<pending, memory, behind>> /\ TokenFilesUnchanged

\* A code or a token that is refused, or a call that fails on its way.
Refuse(r) ==
  /\ request[r].pc \in {"exchange", "use"}
  /\ Answer(r)
  /\ UNCHANGED <<pending, memory>> /\ ProviderUnchanged /\ TokenFilesUnchanged /\ HistoryUnchanged

StoreToken(r) ==
  /\ RequestAt(r, "store")
  /\ memory' = [memory EXCEPT !.token = request[r].token]
  /\ RequestTo(r, [request[r] EXCEPT !.pc = "storeMeta"])
  /\ behind' = TRUE
  /\ UNCHANGED <<pending, lost, forgotten>> /\ ProviderUnchanged /\ TokenFilesUnchanged

StoreMeta(r) ==
  /\ RequestAt(r, "storeMeta")
  /\ memory' = [memory EXCEPT !.meta = TRUE]
  /\ IF Op(r, "restore") THEN RequestTo(r, [request[r] EXCEPT !.pc = "read"]) ELSE Answer(r)
  /\ UNCHANGED pending /\ ProviderUnchanged /\ TokenFilesUnchanged /\ HistoryUnchanged

-----------------------------------------------------------------------------
\* Mutant: /restore saves the token it has loaded.
KeepLoaded(r) ==
  /\ RequestAt(r, "read")
  /\ RequestTo(r, [request[r] EXCEPT !.pc = "readMeta", !.token = file.token])
  /\ UNCHANGED <<pending, memory>> /\ ProviderUnchanged /\ TokenFilesUnchanged /\ HistoryUnchanged

\* /restore takes the token to save from app.state; there may be none by now.
ReadToken(r) ==
  /\ RequestAt(r, "read")
  /\ IF memory.token = 0 THEN Answer(r)
     ELSE RequestTo(r, [request[r] EXCEPT !.pc = "readMeta", !.token = memory.token])
  /\ UNCHANGED <<pending, memory>> /\ ProviderUnchanged /\ TokenFilesUnchanged /\ HistoryUnchanged

\* Without metadata /persist-current is refused; /restore writes what there is.
ReadMeta(r) ==
  /\ RequestAt(r, "readMeta")
  /\ IF Op(r, "persist") /\ ~memory.meta THEN Answer(r)
     ELSE RequestTo(r, [request[r] EXCEPT !.pc = "write", !.meta = memory.meta])
  /\ UNCHANGED <<pending, memory>> /\ ProviderUnchanged /\ TokenFilesUnchanged /\ HistoryUnchanged

\* save_refresh_token: one temporary name for all requests.  Opening it empties
\* the file that has this name.
OpenTokenTmp(r) ==
  /\ RequestAt(r, "write")
  /\ fileTmp' = Torn
  /\ RequestTo(r, [request[r] EXCEPT !.pc = "fill"])
  /\ UNCHANGED <<pending, memory, file>> /\ ProviderUnchanged /\ HistoryUnchanged

\* The file that was opened is filled, wherever it is by now: under the temporary
\* name, under that of the token, or replaced.  Two that write it may tear it.
Contents(r) == {[token |-> request[r].token, meta |-> request[r].meta]}
               \union (IF request[r].alone THEN {} ELSE {Torn})

FillTokenTmp(r) ==
  /\ \/ RequestAt(r, "fill")     /\ fileTmp' \in Contents(r) /\ UNCHANGED file
     \/ RequestAt(r, "fillFile") /\ file' \in Contents(r) /\ UNCHANGED fileTmp
     \/ RequestAt(r, "fillGone") /\ TokenFilesUnchanged
  /\ RequestTo(r, [request[r] EXCEPT !.pc = "replace"])
  /\ UNCHANGED <<pending, memory>> /\ ProviderUnchanged /\ HistoryUnchanged

\* Where a file is that another request has open, after the replacement.
OpenAfterMove(pc) ==
  CASE pc = "fill" -> "fillFile" [] pc = "fillFile" -> "fillGone" [] OTHER -> pc

\* The replacement fails when another request has moved the file.
ReplaceToken(r) ==
  /\ RequestAt(r, "replace")
  /\ IF fileTmp = NoToken THEN Answer(r) /\ UNCHANGED <<file, behind>>
     ELSE /\ file' = fileTmp /\ behind' = ~request[r].alone
          /\ request' = [q \in TokenThreads |->
               IF q = r THEN Resting ELSE [request[q] EXCEPT !.pc = OpenAfterMove(@)]]
  /\ fileTmp' = NoToken
  /\ UNCHANGED <<pending, memory, lost, forgotten>> /\ ProviderUnchanged

\* The server stops and starts again; app.state is empty.
Reboot ==
  /\ lost < MaxLost /\ lost' = lost + 1
  /\ memory' = NoToken /\ pending' = FALSE
  /\ forgotten' = (forgotten \/ behind \/ \E r \in TokenThreads : ~RequestAt(r, "idle"))
  /\ request' = [r \in TokenThreads |-> Resting]
  /\ UNCHANGED behind /\ ProviderUnchanged /\ TokenFilesUnchanged

TokenStep(r) ==
  \/ Start(r) \/ ClearToken(r) \/ ClearMeta(r) \/ Callback(r) \/ TakeState(r) \/ Refresh(r) 
  \/ Persist(r) \/ Restore(r) \/ Issue(r) \/ LoseAnswer(r) \/ Refuse(r) \/ StoreToken(r) \/ StoreMeta(r)
  \/ ReadToken(r) \/ ReadMeta(r) \/ OpenTokenTmp(r) \/ FillTokenTmp(r)
  \/ ReplaceToken(r)

TokenNext == Expired \/ Reboot \/ \E r \in TokenThreads : TokenStep(r)

TokenSpec == TokenInit /\ [][TokenNext]_tokenVars

-----------------------------------------------------------------------------
\* The server never loses the shop's authorization by itself.  As long as no
\* answer was lost and nothing unsaved was dropped (by a /start or a restart),
\* and no request is under way, the token in memory is the one the provider
\* accepts or, once a save that nothing disturbed has followed, the one in the
\* file is and can be restored, however requests overlapped before.
TokenSurvives ==
  (issued > 0 /\ ~forgotten /\ \A r \in TokenThreads : RequestAt(r, "idle"))
    => IF behind THEN memory.token \in usable ELSE file.token \in usable /\ file.meta
=============================================================================
