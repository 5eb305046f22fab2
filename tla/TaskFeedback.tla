---------------------------- MODULE TaskFeedback ----------------------------
(***************************************************************************)
(* POST /tasks/{id}/feedback: append_task_feedback on concurrent threads,  *)
(* statement by statement, over the table task_feedback, with failing      *)
(* statements and commits whose answer is lost.  The table is append-only  *)
(* (a trigger refuses updates and deletes) and has two unique constraints. *)
(* The tenant is the server's own, and the value a decision replaces is    *)
(* read from a projection that no request changes, so neither is a field.  *)
(***************************************************************************)
EXTENDS Naturals

CONSTANTS
  Threads,    \* threads of the server's pool
  Tasks,
  Keys,       \* idempotency keys
  Changes,    \* decision, target field and after value
  Words,      \* the reason's text without surrounding white space
  Requests,   \* the requests the clients may send, any number of times
  NoRequest,
  MaxFaults   \* bound: failing statements in a behaviour

Reasons == [words : Words, padded : BOOLEAN]
Strip(reason) == [reason EXCEPT !.padded = FALSE]

RequestType == [task : Tasks, change : Changes, reason : Reasons, key : Keys, expected : Nat]

ASSUME RequestsAssumption ==
  /\ Requests \subseteq RequestType
  /\ NoRequest \notin Requests
  /\ MaxFaults \in Nat

VARIABLES
  rows,      \* committed rows of task_feedback
  pc,        \* per thread: the next statement of append_task_feedback
  request,   \* per thread: the request it serves
  answers,   \* history: what the clients were answered
  faults

vars == <<rows, pc, request, answers, faults>>

-----------------------------------------------------------------------------
StoredReasons == {reason \in Reasons : ~reason.padded}

Rows == [task : Tasks, change : Changes, reason : StoredReasons, key : Keys,
         version : Nat \ {0}]

Conflicts == {"idempotency_conflict", "version_conflict"}
NoRow     == [none |-> TRUE]

Answers == [to : Requests, outcome : {"stored", "replayed"}, row : Rows]
             \union [to : Requests, outcome : Conflicts, row : {NoRow}]

\* The row the request asks for; expected has been found to be the current version.
NewRow(r) ==
  [task |-> r.task, change |-> r.change, reason |-> Strip(r.reason), key |-> r.key,
   version |-> r.expected + 1]

RowsWithKey(key) == {row \in rows : row.key = key}
History(task)    == {row \in rows : row.task = task}

\* max(feedback_version) of the task is the expected version.
NotAhead(r) == \A row \in History(r.task) : row.version <= r.expected
IsLatest(r) ==
  /\ \A row \in History(r.task) : row.version <= r.expected
  /\ r.expected = 0 \/ \E row \in History(r.task) : row.version = r.expected

\* The unique constraint on (tenant, task, version).
VersionNeverTaken(r) == FALSE
VersionTaken(r) == \E row \in History(r.task) : row.version = r.expected + 1

\* _same_request: the stored reason is compared with the reason as received.
SameContent(row, r) == row.change = r.change /\ row.reason = r.reason
SameRequest(row, r) ==
  row.task = r.task /\ row.change = r.change /\ row.reason = r.reason

TypeOK ==
  /\ rows \subseteq Rows
  /\ pc \in [Threads -> {"idle", "lookup", "version", "insert", "classify"}]
  /\ request \in [Threads -> Requests \union {NoRequest}]
  /\ \A t \in Threads : pc[t] # "idle" => request[t] \in Requests
  /\ answers \subseteq Answers
  /\ faults \in 0 .. MaxFaults

Init ==
  /\ rows = {}
  /\ pc = [t \in Threads |-> "idle"]
  /\ request = [t \in Threads |-> NoRequest]
  /\ answers = {}
  /\ faults = 0

-----------------------------------------------------------------------------
Goto(t, label) == pc' = [pc EXCEPT ![t] = label]

Finish(t) ==
  /\ pc' = [pc EXCEPT ![t] = "idle"]
  /\ request' = [request EXCEPT ![t] = NoRequest]

Answer(t, outcome, row) ==
  /\ Finish(t)
  /\ answers' = answers \union {[to |-> request[t], outcome |-> outcome, row |-> row]}

Receive(t, r) ==
  /\ pc[t] = "idle"
  /\ Goto(t, "lookup")
  /\ request' = [request EXCEPT ![t] = r]
  /\ UNCHANGED <<rows, answers, faults>>

\* A row under the idempotency key answers the request, if it is the same one.
Lookup(t) ==
  LET r == request[t] IN
  /\ pc[t] = "lookup"
  /\ \/ /\ RowsWithKey(r.key) = {}
        /\ Goto(t, "version")
        /\ UNCHANGED <<request, answers>>
     \/ \E row \in RowsWithKey(r.key) :
          IF SameRequest(row, r) THEN Answer(t, "replayed", row)
                                 ELSE Answer(t, "idempotency_conflict", NoRow)
  /\ UNCHANGED <<rows, faults>>

\* The request must be about the task's current feedback version.
ReadVersion(t) ==
  /\ pc[t] = "version"
  /\ IF IsLatest(request[t])
     THEN Goto(t, "insert") /\ UNCHANGED <<request, answers>>
     ELSE Answer(t, "version_conflict", NoRow)
  /\ UNCHANGED <<rows, faults>>

\* A concurrent request may have taken the key or the version in between.
Insert(t) ==
  LET r == request[t] IN
  /\ pc[t] = "insert"
  /\ IF RowsWithKey(r.key) # {} \/ VersionTaken(r)
     THEN Goto(t, "classify") /\ UNCHANGED <<rows, request, answers>>
     ELSE rows' = rows \union {NewRow(r)} /\ Answer(t, "stored", NewRow(r))
  /\ UNCHANGED faults

\* After the IntegrityError: the same request's own row, or a version conflict.
Classify(t) ==
  LET r == request[t] IN
  /\ pc[t] = "classify"
  /\ \/ \E row \in RowsWithKey(r.key) :
          SameRequest(row, r) /\ Answer(t, "replayed", row)
     \/ /\ \A row \in RowsWithKey(r.key) : ~SameRequest(row, r)
        /\ Answer(t, "version_conflict", NoRow)
  /\ UNCHANGED <<rows, faults>>

\* A statement fails: the exception ends the request without an answer.
StatementFails(t) ==
  /\ faults < MaxFaults
  /\ pc[t] # "idle"
  /\ Finish(t)
  /\ faults' = faults + 1
  /\ UNCHANGED <<rows, answers>>

\* The commit takes effect and its answer is lost, as when the process dies.
CommitAnswerLost(t) ==
  LET r == request[t] IN
  /\ faults < MaxFaults
  /\ pc[t] = "insert"
  /\ RowsWithKey(r.key) = {} /\ ~VersionTaken(r)
  /\ rows' = rows \union {NewRow(r)}
  /\ Finish(t)
  /\ faults' = faults + 1
  /\ UNCHANGED answers

Next ==
  \E t \in Threads :
    \/ \E r \in Requests : Receive(t, r)
    \/ Lookup(t) \/ ReadVersion(t) \/ Insert(t) \/ Classify(t)
    \/ StatementFails(t) \/ CommitAnswerLost(t)

Spec == Init /\ [][Next]_vars

-----------------------------------------------------------------------------
(***************************************************************************)
(* Properties                                                              *)
(***************************************************************************)

\* The history of a task is numbered 1, 2, 3, ... without a gap or a repeat,
\* although the version is read in one statement and written in another.
HistoryGapless ==
  /\ \A one, two \in rows : one.task = two.task /\ one.version = two.version => one = two
  /\ \A row \in rows : \A v \in 1 .. row.version :
       \E earlier \in History(row.task) : earlier.version = v

\* An idempotency key stands for one request: the clients that were answered
\* with a row under the key asked for that very feedback, on that task.
KeyStandsForOneRequest ==
  \A a \in answers : a.outcome \in {"stored", "replayed"} =>
    /\ a.row \in rows
    /\ a.row = [NewRow(a.to) EXCEPT !.version = a.row.version]
    /\ \A b \in answers :
         b.outcome \in {"stored", "replayed"} /\ b.to.key = a.to.key => b.row = a.row

\* Feedback is appended on top of the version its author saw, never beside or
\* on top of feedback the author had not seen.  RefinesFeedbackLog checks this
\* at the level of the log; here it is said of the thread that appends.
AppendedOnSeenVersion ==
  [][\A row \in rows' \ rows :
       /\ \A other \in History(row.task) : other.version < row.version
       /\ \E t \in Threads : /\ pc[t] = "insert"
                             /\ request[t].task = row.task
                             /\ request[t].key = row.key
                             /\ request[t].expected = row.version - 1]_vars

\* A request that was stored is answered with its row when it is sent again,
\* and not refused.
StoredRequestIsReplayed ==
  [][\A a \in answers' \ answers : a.outcome \in Conflicts =>
       \A b \in answers : b.outcome = "stored" => b.to # a.to]_vars

-----------------------------------------------------------------------------
(***************************************************************************)
(* The statements of the concurrent requests amount to a log that serves   *)
(* each request at one instant.                                            *)
(***************************************************************************)
Length(set) ==
  LET versions == {row.version : row \in set} \union {0}
  IN  CHOOSE n \in versions : \A v \in versions : v <= n

InOrder(set) == [v \in 1 .. Length(set) |-> CHOOSE row \in set : row.version = v]

Log == INSTANCE FeedbackLog
         WITH log     <- [task \in Tasks |-> InOrder(History(task))],
              replies <- answers,
              Entry   <- [r \in Requests |-> NewRow(r)]

\* Although a request reads and writes in separate statements and its commit
\* may go unanswered, what the clients are told and what is stored could have
\* come from requests served one after another: feedback is appended at the
\* length its author expected, a replay is in the log, and a conflict is true
\* of the log when it is answered.
RefinesFeedbackLog == Log!Spec
=============================================================================
