------------------------- MODULE TaskFeedbackProofs -------------------------
(***************************************************************************)
(* Proofs about TaskFeedback, for any threads, tasks, keys and requests.   *)
(*                                                                         *)
(* The argument: a thread inserts version expected + 1 only after it saw   *)
(* expected as the latest version.  Rows are never removed, so the version *)
(* is still there at the insert (SeenVersionExists), and the unique        *)
(* constraint refuses the insert when another thread was faster.  Rows     *)
(* numbered in this way are a sequence, which an insert appends to: the    *)
(* requests implement FeedbackLog.                                         *)
(***************************************************************************)
EXTENDS TaskFeedback, SequenceTheorems, TLAPS

\* A thread about to insert has seen the version it builds on, and rows stay.
SeenVersionExists ==
  \A t \in Threads : pc[t] = "insert" /\ request[t].expected # 0 =>
    \E row \in History(request[t].task) : row.version = request[t].expected

\* An idempotency key is on the table once.
KeyOnce == \A one, two \in rows : one.key = two.key => one = two

LEMMA NewRowType ==
  ASSUME NEW r \in Requests
  PROVE  /\ NewRow(r) \in Rows
         /\ NewRow(r).task = r.task
         /\ NewRow(r).key = r.key
         /\ NewRow(r).version = r.expected + 1
  <1>1. r \in RequestType
    BY RequestsAssumption
  <1>2. Strip(r.reason) \in StoredReasons
    BY <1>1 DEF RequestType, Reasons, StoredReasons, Strip
  <1> QED
    BY <1>1, <1>2 DEF RequestType, NewRow, Rows

\* Every reachable state has the types the variables are declared with.
THEOREM TypeCorrect == Spec => []TypeOK
<1>1. Init => TypeOK
  BY RequestsAssumption DEF Init, TypeOK
<1>2. TypeOK /\ [Next]_vars => TypeOK'
  <2> SUFFICES ASSUME TypeOK, [Next]_vars PROVE TypeOK'
    OBVIOUS
  <2> USE DEF TypeOK
  <2>1. ASSUME NEW t \in Threads, NEW r \in Requests, Receive(t, r) PROVE TypeOK'
    BY <2>1 DEF Receive, Goto
  <2>2. ASSUME NEW t \in Threads, Lookup(t) PROVE TypeOK'
    <3>1. request[t] \in Requests
      BY <2>2 DEF Lookup
    <3>2. ASSUME NEW row \in RowsWithKey(request[t].key), Answer(t, "replayed", row) PROVE TypeOK'
      BY <2>2, <3>1, <3>2 DEF Lookup, Answer, Finish, Answers, RowsWithKey
    <3>3. CASE Answer(t, "idempotency_conflict", NoRow)
      BY <2>2, <3>1, <3>3 DEF Lookup, Answer, Finish, Answers, Conflicts
    <3>4. CASE Goto(t, "version") /\ UNCHANGED <<request, answers>>
      BY <2>2, <3>1, <3>4 DEF Lookup, Goto
    <3> QED
      BY <2>2, <3>2, <3>3, <3>4 DEF Lookup
  <2>3. ASSUME NEW t \in Threads, ReadVersion(t) PROVE TypeOK'
    <3>1. request[t] \in Requests
      BY <2>3 DEF ReadVersion
    <3>2. CASE IsLatest(request[t])
      BY <2>3, <3>1, <3>2 DEF ReadVersion, Goto
    <3>3. CASE ~IsLatest(request[t])
      BY <2>3, <3>1, <3>3 DEF ReadVersion, Answer, Finish, Answers, Conflicts
    <3> QED
      BY <3>2, <3>3
  <2>4. ASSUME NEW t \in Threads, Insert(t) PROVE TypeOK'
    <3>1. request[t] \in Requests
      BY <2>4 DEF Insert
    <3>2. CASE Goto(t, "classify") /\ UNCHANGED <<rows, request, answers>>
      BY <2>4, <3>1, <3>2 DEF Insert, Goto
    <3>3. CASE rows' = rows \union {NewRow(request[t])} /\ Answer(t, "stored", NewRow(request[t]))
      BY <2>4, <3>1, <3>3, NewRowType DEF Insert, Answer, Finish, Answers
    <3> QED
      BY <2>4, <3>2, <3>3 DEF Insert
  <2>5. ASSUME NEW t \in Threads, Classify(t) PROVE TypeOK'
    <3>1. request[t] \in Requests
      BY <2>5 DEF Classify
    <3>2. ASSUME NEW row \in RowsWithKey(request[t].key), Answer(t, "replayed", row) PROVE TypeOK'
      BY <2>5, <3>1, <3>2 DEF Classify, Answer, Finish, Answers, RowsWithKey
    <3>3. CASE Answer(t, "version_conflict", NoRow)
      BY <2>5, <3>1, <3>3 DEF Classify, Answer, Finish, Answers, Conflicts
    <3> QED
      BY <2>5, <3>2, <3>3 DEF Classify
  <2>6. ASSUME NEW t \in Threads, StatementFails(t) PROVE TypeOK'
    BY <2>6, RequestsAssumption DEF StatementFails, Finish
  <2>7. ASSUME NEW t \in Threads, CommitAnswerLost(t) PROVE TypeOK'
    BY <2>7, NewRowType, RequestsAssumption DEF CommitAnswerLost, Finish
  <2>8. CASE UNCHANGED vars
    BY <2>8 DEF vars
  <2> QED
    BY <2>1, <2>2, <2>3, <2>4, <2>5, <2>6, <2>7, <2>8 DEF Next
<1> QED
  BY <1>1, <1>2, PTL DEF Spec

\* What an insert, acknowledged or not, does to the rows.
Appends(t) ==
  /\ pc[t] = "insert"
  /\ RowsWithKey(request[t].key) = {}
  /\ ~VersionTaken(request[t])
  /\ rows' = rows \union {NewRow(request[t])}

LEMMA AppendsOnTop ==
  ASSUME TypeOK, HistoryGapless, SeenVersionExists, NEW t \in Threads, Appends(t)
  PROVE  /\ request[t] \in Requests
         /\ request[t].expected \in Nat
         /\ \A row \in History(request[t].task) : row.version <= request[t].expected
  <1>1. request[t] \in Requests
    BY DEF Appends, TypeOK
  <1>2. request[t].expected \in Nat
    BY <1>1, RequestsAssumption DEF RequestType
  <1>3. ASSUME NEW row \in History(request[t].task), ~(row.version <= request[t].expected)
        PROVE  FALSE
    <2>1. row \in rows /\ row.task = request[t].task /\ row.version \in Nat \ {0}
      BY DEF History, TypeOK, Rows
    <2>2. request[t].expected + 1 \in 1 .. row.version
      BY <1>2, <1>3, <2>1
    <2>3. PICK earlier \in History(row.task) : earlier.version = request[t].expected + 1
      BY <2>1, <2>2 DEF HistoryGapless
    <2> QED
      BY <2>1, <2>3 DEF Appends, VersionTaken
  <1> QED
    BY <1>1, <1>2, <1>3

LEMMA RowsGrow ==
  ASSUME TypeOK, [Next]_vars
  PROVE  rows' = rows \/ \E t \in Threads : Appends(t)
  <1>1. ASSUME NEW t \in Threads, NEW r \in Requests, Receive(t, r) PROVE rows' = rows
    BY <1>1 DEF Receive
  <1>2. ASSUME NEW t \in Threads, Lookup(t) PROVE rows' = rows
    BY <1>2 DEF Lookup
  <1>3. ASSUME NEW t \in Threads, ReadVersion(t) PROVE rows' = rows
    BY <1>3 DEF ReadVersion
  <1>4. ASSUME NEW t \in Threads, Insert(t) PROVE rows' = rows \/ Appends(t)
    BY <1>4 DEF Insert, Appends
  <1>5. ASSUME NEW t \in Threads, Classify(t) PROVE rows' = rows
    BY <1>5 DEF Classify
  <1>6. ASSUME NEW t \in Threads, StatementFails(t) PROVE rows' = rows
    BY <1>6 DEF StatementFails
  <1>7. ASSUME NEW t \in Threads, CommitAnswerLost(t) PROVE Appends(t)
    BY <1>7 DEF CommitAnswerLost, Appends
  <1>8. CASE UNCHANGED vars
    BY <1>8 DEF vars
  <1> QED
    BY <1>1, <1>2, <1>3, <1>4, <1>5, <1>6, <1>7, <1>8 DEF Next

LEMMA GaplessStep ==
  ASSUME TypeOK, HistoryGapless, SeenVersionExists, [Next]_vars
  PROVE  HistoryGapless'
  <1>1. CASE rows' = rows
    BY <1>1 DEF HistoryGapless, History
  <1>2. ASSUME NEW t \in Threads, Appends(t) PROVE HistoryGapless'
    <2> DEFINE r == request[t]
               new == NewRow(r)
    <2>1. /\ r \in Requests
          /\ r.expected \in Nat
          /\ \A row \in rows : row.task = r.task => row.version <= r.expected
      BY <1>2, AppendsOnTop DEF History
    <2>2. new \in Rows /\ new.task = r.task /\ new.version = r.expected + 1
      BY <2>1, NewRowType
    <2>3. rows' = rows \union {new}
      BY <1>2 DEF Appends
    <2>4. \A row \in rows : row.version \in Nat
      BY DEF TypeOK, Rows
    <2> HIDE DEF r, new
    <2>5. \A one, two \in rows' :
            one.task = two.task /\ one.version = two.version => one = two
      BY <2>1, <2>2, <2>3, <2>4 DEF HistoryGapless
    <2>6. ASSUME NEW row \in rows', NEW v \in 1 .. row.version
          PROVE  \E earlier \in rows' : earlier.task = row.task /\ earlier.version = v
      <3>1. CASE row \in rows
        BY <2>3, <2>6, <3>1 DEF HistoryGapless, History
      <3>2. CASE row = new /\ v = r.expected + 1
        BY <2>2, <2>3, <3>2
      <3>3. CASE row = new /\ v # r.expected + 1
        <4>1. v \in 1 .. r.expected /\ r.expected # 0
          BY <2>1, <2>2, <2>6, <3>3
        <4>2. PICK seen \in rows : seen.task = r.task /\ seen.version = r.expected
          BY <1>2, <4>1 DEF Appends, SeenVersionExists, History, r
        <4> QED
          BY <2>2, <2>3, <3>3, <4>1, <4>2 DEF HistoryGapless, History
      <3> QED
        BY <2>3, <3>1, <3>2, <3>3
    <2> QED
      BY <2>5, <2>6 DEF HistoryGapless, History
  <1> QED
    BY <1>1, <1>2, RowsGrow

LEMMA SeenVersionStep ==
  ASSUME TypeOK, SeenVersionExists, [Next]_vars
  PROVE  SeenVersionExists'
  <1>1. rows \subseteq rows'
    BY RowsGrow DEF Appends
  <1>2. ASSUME NEW t \in Threads, pc'[t] = "insert", request'[t].expected # 0
        PROVE  \E row \in rows : row.task = request'[t].task /\ row.version = request'[t].expected
    <2>1. CASE pc[t] = "insert" /\ request'[t] = request[t]
      BY <1>2, <2>1 DEF SeenVersionExists, History
    <2>2. CASE ReadVersion(t) /\ IsLatest(request[t]) /\ request' = request
      BY <1>2, <2>2 DEF IsLatest, History
    <2> USE DEF TypeOK
    <2>3. ASSUME NEW u \in Threads, NEW r \in Requests, Receive(u, r)
          PROVE  pc[t] = "insert" /\ request'[t] = request[t]
      BY <1>2, <2>3 DEF Receive, Goto
    <2>4. ASSUME NEW u \in Threads, Lookup(u)
          PROVE  pc[t] = "insert" /\ request'[t] = request[t]
      BY <1>2, <2>4 DEF Lookup, Goto, Answer, Finish
    <2>5. ASSUME NEW u \in Threads, ReadVersion(u)
          PROVE  \/ pc[t] = "insert" /\ request'[t] = request[t]
                 \/ ReadVersion(t) /\ IsLatest(request[t]) /\ request' = request
      BY <1>2, <2>5 DEF ReadVersion, Goto, Answer, Finish
    <2>6. ASSUME NEW u \in Threads, Insert(u)
          PROVE  pc[t] = "insert" /\ request'[t] = request[t]
      BY <1>2, <2>6 DEF Insert, Goto, Answer, Finish
    <2>7. ASSUME NEW u \in Threads, Classify(u)
          PROVE  pc[t] = "insert" /\ request'[t] = request[t]
      BY <1>2, <2>7 DEF Classify, Answer, Finish
    <2>8. ASSUME NEW u \in Threads, StatementFails(u) \/ CommitAnswerLost(u)
          PROVE  pc[t] = "insert" /\ request'[t] = request[t]
      BY <1>2, <2>8 DEF StatementFails, CommitAnswerLost, Finish
    <2>9. CASE UNCHANGED vars
      BY <1>2, <2>9, <2>1 DEF vars
    <2> QED
      BY <2>1, <2>2, <2>3, <2>4, <2>5, <2>6, <2>7, <2>8, <2>9 DEF Next
  <1> QED
    BY <1>1, <1>2 DEF SeenVersionExists, History

LEMMA KeyOnceStep ==
  ASSUME TypeOK, KeyOnce, [Next]_vars
  PROVE  KeyOnce'
  <1>1. CASE rows' = rows
    BY <1>1 DEF KeyOnce
  <1>2. ASSUME NEW t \in Threads, Appends(t) PROVE KeyOnce'
    <2>1. request[t] \in Requests
      BY <1>2 DEF Appends, TypeOK
    <2>2. NewRow(request[t]).key = request[t].key
      BY <2>1, NewRowType
    <2> QED
      BY <1>2, <2>2 DEF KeyOnce, Appends, RowsWithKey
  <1> QED
    BY <1>1, <1>2, RowsGrow

-----------------------------------------------------------------------------
Success == {"stored", "replayed"}

\* A row that answers a request is committed and is what the request asks for.
RowAnswers(row, r) ==
  /\ row \in rows
  /\ row = [NewRow(r) EXCEPT !.version = row.version]

SoundAnswers == \A a \in answers : a.outcome \in Success => RowAnswers(a.row, a.to)

LEMMA ReplayIsSound ==
  ASSUME TypeOK, NEW r \in Requests, NEW row \in RowsWithKey(r.key), SameRequest(row, r)
  PROVE  RowAnswers(row, r)
  <1>1. r \in RequestType
    BY RequestsAssumption
  <1>2. row \in rows /\ row \in Rows /\ row.key = r.key
    BY DEF RowsWithKey, TypeOK
  <1>3. Strip(r.reason) = r.reason
    BY <1>2 DEF SameRequest, Rows, StoredReasons, Reasons, Strip
  <1> QED
    BY <1>1, <1>2, <1>3 DEF RowAnswers, SameRequest, NewRow, Rows, RequestType

LEMMA SoundAnswersStep ==
  ASSUME TypeOK, SoundAnswers, [Next]_vars
  PROVE  SoundAnswers'
  <1>1. rows \subseteq rows'
    BY RowsGrow DEF Appends
  <1>2. ASSUME NEW a \in answers, a.outcome \in Success
        PROVE  a.row \in rows' /\ a.row = [NewRow(a.to) EXCEPT !.version = a.row.version]
    BY <1>1, <1>2 DEF SoundAnswers, RowAnswers
  <1>3. ASSUME NEW a \in answers' \ answers, a.outcome \in Success
        PROVE  a.row \in rows' /\ a.row = [NewRow(a.to) EXCEPT !.version = a.row.version]
    <2>1. ASSUME NEW t \in Threads, NEW row \in RowsWithKey(request[t].key),
                 request[t] \in Requests, SameRequest(row, request[t]),
                 Answer(t, "replayed", row)
          PROVE  a.row \in rows' /\ a.row = [NewRow(a.to) EXCEPT !.version = a.row.version]
      BY <1>1, <1>3, <2>1, ReplayIsSound DEF Answer, RowAnswers
    <2>2. ASSUME NEW t \in Threads, Insert(t)
          PROVE  a.row \in rows' /\ a.row = [NewRow(a.to) EXCEPT !.version = a.row.version]
      <3>1. request[t] \in Requests
        BY <2>2 DEF Insert, TypeOK
      <3>2. /\ rows' = rows \union {NewRow(request[t])}
            /\ a = [to |-> request[t], outcome |-> "stored", row |-> NewRow(request[t])]
        BY <1>3, <2>2 DEF Insert, Answer
      <3>3. NewRow(request[t]) = [NewRow(request[t]) EXCEPT !.version = NewRow(request[t]).version]
        BY DEF NewRow
      <3> QED
        BY <3>2, <3>3
    <2>3. ASSUME NEW t \in Threads, NEW outcome \in Conflicts
          PROVE  ~Answer(t, outcome, NoRow)
      BY <1>3, <2>3 DEF Answer, Conflicts, Success
    <2>4. ASSUME NEW t \in Threads, Lookup(t)
          PROVE  a.row \in rows' /\ a.row = [NewRow(a.to) EXCEPT !.version = a.row.version]
      BY <1>3, <2>1, <2>3, <2>4 DEF Lookup, TypeOK, Conflicts
    <2>5. ASSUME NEW t \in Threads, Classify(t)
          PROVE  a.row \in rows' /\ a.row = [NewRow(a.to) EXCEPT !.version = a.row.version]
      BY <1>3, <2>1, <2>3, <2>5 DEF Classify, TypeOK, Conflicts
    <2>6. ASSUME NEW t \in Threads, ReadVersion(t) PROVE FALSE
      BY <1>3, <2>3, <2>6 DEF ReadVersion, Conflicts
    <2>7. ASSUME NEW t \in Threads, NEW r \in Requests, Receive(t, r) PROVE FALSE
      BY <1>3, <2>7 DEF Receive
    <2>8. ASSUME NEW t \in Threads, StatementFails(t) \/ CommitAnswerLost(t) PROVE FALSE
      BY <1>3, <2>8 DEF StatementFails, CommitAnswerLost
    <2>9. CASE UNCHANGED vars
      BY <1>3, <2>9 DEF vars
    <2> QED
      BY <2>2, <2>4, <2>5, <2>6, <2>7, <2>8, <2>9 DEF Next
  <1> QED
    BY <1>2, <1>3 DEF SoundAnswers, RowAnswers

LEMMA SoundKeysAreUnique ==
  ASSUME TypeOK, KeyOnce, SoundAnswers
  PROVE  KeyStandsForOneRequest
  <1>1. ASSUME NEW a \in answers, a.outcome \in Success
        PROVE  a.row \in rows /\ a.row.key = a.to.key
    <2>1. a.row \in rows /\ a.row = [NewRow(a.to) EXCEPT !.version = a.row.version]
      BY <1>1 DEF SoundAnswers, RowAnswers
    <2>2. [NewRow(a.to) EXCEPT !.version = a.row.version].key = a.to.key
      BY DEF NewRow
    <2> QED
      BY <2>1, <2>2
  <1> QED
    BY <1>1 DEF SoundAnswers, RowAnswers, KeyStandsForOneRequest, KeyOnce, Success

LEMMA InvariantHolds ==
  Spec => [](TypeOK /\ HistoryGapless /\ SeenVersionExists /\ KeyOnce /\ SoundAnswers)
<1> DEFINE Inv == TypeOK /\ HistoryGapless /\ SeenVersionExists /\ KeyOnce /\ SoundAnswers
<1>1. Init => HistoryGapless /\ SeenVersionExists /\ KeyOnce /\ SoundAnswers
  BY DEF Init, HistoryGapless, SeenVersionExists, KeyOnce, SoundAnswers
<1>2. Inv /\ [Next]_vars
        => HistoryGapless' /\ SeenVersionExists' /\ KeyOnce' /\ SoundAnswers'
  BY GaplessStep, SeenVersionStep, KeyOnceStep, SoundAnswersStep
<1> QED
  BY <1>1, <1>2, TypeCorrect, PTL DEF Spec

\* The history of every task is numbered without a gap or a repeat.
THEOREM Gapless == Spec => []HistoryGapless
BY InvariantHolds, PTL

\* Whoever is answered with a row asked for it, and a key has one row.
THEOREM OneRequestPerKey == Spec => []KeyStandsForOneRequest
<1>1. TypeOK /\ KeyOnce /\ SoundAnswers => KeyStandsForOneRequest
  BY SoundKeysAreUnique
<1> QED
  BY <1>1, InvariantHolds, PTL

\* Feedback is appended on top of the version its author saw.
THEOREM AppendedOnSeen == Spec => AppendedOnSeenVersion
<1>1. TypeOK /\ HistoryGapless /\ SeenVersionExists /\ [Next]_vars =>
        [\A row \in rows' \ rows :
           /\ \A other \in History(row.task) : other.version < row.version
           /\ \E t \in Threads : /\ pc[t] = "insert"
                                 /\ request[t].task = row.task
                                 /\ request[t].key = row.key
                                 /\ request[t].expected = row.version - 1]_vars
  <2> SUFFICES ASSUME TypeOK, HistoryGapless, SeenVersionExists, [Next]_vars,
                      NEW row \in rows' \ rows
               PROVE  /\ \A other \in History(row.task) : other.version < row.version
                      /\ \E t \in Threads : /\ pc[t] = "insert"
                                            /\ request[t].task = row.task
                                            /\ request[t].key = row.key
                                            /\ request[t].expected = row.version - 1
    OBVIOUS
  <2>1. PICK t \in Threads : Appends(t)
    BY RowsGrow
  <2>2. row = NewRow(request[t])
    BY <2>1 DEF Appends
  <2>3. /\ request[t] \in Requests
        /\ request[t].expected \in Nat
        /\ \A other \in History(request[t].task) : other.version <= request[t].expected
    BY <2>1, AppendsOnTop
  <2>4. /\ row.task = request[t].task
        /\ row.key = request[t].key
        /\ row.version = request[t].expected + 1
    BY <2>2, <2>3, NewRowType
  <2>5. \A other \in History(row.task) : other.version \in Nat
    BY DEF History, TypeOK, Rows
  <2> QED
    BY <2>1, <2>3, <2>4, <2>5 DEF Appends
<1> QED
  BY <1>1, InvariantHolds, PTL DEF Spec, AppendedOnSeenVersion
-----------------------------------------------------------------------------
(***************************************************************************)
(* The refinement of FeedbackLog.  A task's rows are numbered from 1 to    *)
(* some n, so that they are a sequence, and an append of version n + 1     *)
(* appends to that sequence.                                               *)
(***************************************************************************)
Versions(set) == {row.version : row \in set}

Numbered(set, n) ==
  /\ Versions(set) = 1 .. n
  /\ \A one, two \in set : one.version = two.version => one = two

LEMMA LengthIsHighest ==
  ASSUME NEW set, NEW n \in Nat, Numbered(set, n)
  PROVE  Length(set) = n
  <1> DEFINE versions == {row.version : row \in set} \union {0}
  <1>1. versions = 0 .. n
    BY DEF Numbered, Versions
  <1> HIDE DEF versions
  <1>2. n \in versions /\ \A v \in versions : v <= n
    BY <1>1
  <1>3. \A m \in versions : (\A v \in versions : v <= m) => m = n
    BY <1>1, <1>2
  <1>4. Length(set) = CHOOSE m \in versions : \A v \in versions : v <= m
    BY DEF Length, versions
  <1> QED
    BY <1>2, <1>3, <1>4

LEMMA InOrderHasAll ==
  ASSUME NEW set, NEW n \in Nat, Numbered(set, n)
  PROVE  /\ InOrder(set) = [v \in 1 .. n |-> InOrder(set)[v]]
         /\ Len(InOrder(set)) = n
         /\ \A v \in 1 .. n : InOrder(set)[v] \in set /\ InOrder(set)[v].version = v
         /\ \A row \in set : row.version \in 1 .. n /\ InOrder(set)[row.version] = row
  <1>1. Length(set) = n
    BY LengthIsHighest
  <1>2. InOrder(set) = [v \in 1 .. n |-> CHOOSE row \in set : row.version = v]
    BY <1>1 DEF InOrder
  <1>3. ASSUME NEW v \in 1 .. n
        PROVE  InOrder(set)[v] \in set /\ InOrder(set)[v].version = v
    <2>1. \E row \in set : row.version = v
      BY DEF Numbered, Versions
    <2>2. InOrder(set)[v] = CHOOSE row \in set : row.version = v
      BY <1>2
    <2> QED
      BY <2>1, <2>2
  <1>4. ASSUME NEW row \in set PROVE row.version \in 1 .. n /\ InOrder(set)[row.version] = row
    <2>1. row.version \in 1 .. n
      BY DEF Numbered, Versions
    <2> QED
      BY <1>3, <2>1 DEF Numbered
  <1>5. InOrder(set) = [v \in 1 .. n |-> InOrder(set)[v]]
    BY <1>2
  <1>6. InOrder(set) \in Seq({InOrder(set)[v] : v \in 1 .. n}) /\ Len(InOrder(set)) = n
    <2> DEFINE s == InOrder(set)
    <2> HIDE DEF s
    <2>1. s = [v \in 1 .. n |-> s[v]]
      BY <1>5 DEF s
    <2> QED
      BY <2>1 DEF s
  <1> QED
    BY <1>3, <1>4, <1>5, <1>6

LEMMA NumberedGrows ==
  ASSUME NEW set, NEW n \in Nat, Numbered(set, n), NEW new, new.version = n + 1
  PROVE  Numbered(set \union {new}, n + 1)
  <1>1. Versions(set \union {new}) = 1 .. n + 1
    BY DEF Numbered, Versions
  <1>2. \A row \in set : row.version \in 1 .. n
    BY DEF Numbered, Versions
  <1> QED
    BY <1>1, <1>2 DEF Numbered

LEMMA SameEntriesSameSequence ==
  ASSUME NEW values, NEW one \in Seq(values), NEW two \in Seq(values), Len(one) = Len(two),
         \A v \in 1 .. Len(one) : one[v] = two[v]
  PROVE  one = two
  OBVIOUS

LEMMA InOrderGrows ==
  ASSUME NEW set, NEW n \in Nat, Numbered(set, n), NEW new, new.version = n + 1
  PROVE  InOrder(set \union {new}) = Append(InOrder(set), new)
  <1> DEFINE more == set \union {new}
             old  == InOrder(set)
             next == InOrder(more)
             values == {old[v] : v \in 1 .. n} \union {new}
  <1>1. Numbered(more, n + 1) /\ n + 1 \in Nat /\ new \in more /\ set \subseteq more
    BY NumberedGrows
  <1>2. /\ old = [v \in 1 .. n |-> old[v]]
        /\ Len(old) = n
        /\ \A v \in 1 .. n : old[v] \in set /\ old[v].version = v
    BY InOrderHasAll
  <1> HIDE DEF more
  <1>3. /\ next = [v \in 1 .. n + 1 |-> next[v]]
        /\ Len(next) = n + 1
        /\ \A row \in more : next[row.version] = row
    BY <1>1, InOrderHasAll
  <1> HIDE DEF old, next
  <1>4. next[n + 1] = new
    BY <1>1, <1>3
  <1>5. \A v \in 1 .. n : next[v] = old[v]
    BY <1>1, <1>2, <1>3
  <1>6. old \in Seq(values) /\ new \in values
    BY <1>2
  <1>7. \A v \in 1 .. n + 1 : next[v] \in values
    <2>1. ASSUME NEW v \in 1 .. n + 1, v # n + 1 PROVE v \in 1 .. n
      BY <2>1
    <2> QED
      BY <1>4, <1>5, <2>1
  <1> HIDE DEF values
  <1>8. next \in Seq(values)
    BY <1>1, <1>3, <1>7
  <1>9. /\ Append(old, new) \in Seq(values)
        /\ Len(Append(old, new)) = n + 1
        /\ \A v \in 1 .. n : Append(old, new)[v] = old[v]
        /\ Append(old, new)[n + 1] = new
    BY <1>2, <1>6, AppendProperties
  <1>10. ASSUME NEW v \in 1 .. n + 1 PROVE next[v] = Append(old, new)[v]
    <2>1. CASE v = n + 1
      BY <1>4, <1>9, <2>1
    <2>2. CASE v # n + 1
      BY <1>5, <1>9, <2>2
    <2> QED
      BY <2>1, <2>2
  <1>11. next = Append(old, new)
    BY <1>3, <1>8, <1>9, <1>10, SameEntriesSameSequence
  <1> QED
    BY <1>11 DEF old, next, more

-----------------------------------------------------------------------------
\* Every task's rows are numbered from 1, and there are finitely many.
Counted == \A task \in Tasks : \E n \in Nat : Numbered(History(task), n)

\* A request whose insert was refused is in conflict with a row, and rows stay.
ConflictIsReal ==
  \A t \in Threads : pc[t] = "classify" =>
    RowsWithKey(request[t].key) # {} \/ VersionTaken(request[t])

LEMMA AppendsNext ==
  ASSUME TypeOK, HistoryGapless, SeenVersionExists, Counted, NEW t \in Threads, Appends(t)
  PROVE  /\ request[t] \in Requests
         /\ request[t].task \in Tasks
         /\ Numbered(History(request[t].task), request[t].expected)
         /\ \A task \in Tasks :
              {row \in rows' : row.task = task} =
                IF task = request[t].task THEN History(task) \union {NewRow(request[t])}
                                          ELSE History(task)
  <1> DEFINE r == request[t]
  <1>1. /\ r \in Requests
        /\ r.expected \in Nat
        /\ \A row \in History(r.task) : row.version <= r.expected
    BY AppendsOnTop
  <1>2. r.task \in Tasks
    BY <1>1, RequestsAssumption DEF RequestType
  <1>3. PICK n \in Nat : Numbered(History(r.task), n)
    BY <1>2 DEF Counted
  <1>4. r.expected # 0 => \E row \in History(r.task) : row.version = r.expected
    BY DEF SeenVersionExists, Appends
  <1>5. rows' = rows \union {NewRow(r)} /\ NewRow(r).task = r.task
    BY <1>1, NewRowType DEF Appends
  <1> HIDE DEF r
  <1>6. n = r.expected
    <2>1. \A row \in History(r.task) : row.version \in 1 .. n
      BY <1>3 DEF Numbered, Versions
    <2>2. \A v \in 1 .. n : \E row \in History(r.task) : row.version = v
      BY <1>3 DEF Numbered, Versions
    <2>3. n # 0 => n <= r.expected
      <3>1. SUFFICES ASSUME n # 0 PROVE n <= r.expected
        OBVIOUS
      <3>2. n \in 1 .. n
        BY <3>1
      <3> QED
        BY <1>1, <2>2, <3>2
    <2>4. r.expected # 0 => r.expected <= n
      BY <1>1, <1>4, <2>1
    <2> QED
      BY <1>1, <2>3, <2>4
  <1>7. ASSUME NEW task \in Tasks
        PROVE  {row \in rows' : row.task = task} =
                 IF task = r.task THEN History(task) \union {NewRow(r)} ELSE History(task)
    BY <1>5 DEF History
  <1> QED
    BY <1>1, <1>2, <1>3, <1>6, <1>7 DEF r

LEMMA CountedStep ==
  ASSUME TypeOK, HistoryGapless, SeenVersionExists, Counted, [Next]_vars
  PROVE  Counted'
  <1>1. CASE rows' = rows
    BY <1>1 DEF Counted, History
  <1>2. ASSUME NEW t \in Threads, Appends(t) PROVE Counted'
    <2> DEFINE r == request[t]
               n == r.expected
               new == NewRow(r)
    <2>1. /\ r \in Requests
          /\ Numbered(History(r.task), n)
          /\ \A task \in Tasks :
               {row \in rows' : row.task = task} =
                 IF task = r.task THEN History(task) \union {new} ELSE History(task)
      BY <1>2, AppendsNext
    <2>2. n \in Nat /\ n + 1 \in Nat /\ new.version = n + 1
      BY <2>1, NewRowType, RequestsAssumption DEF RequestType
    <2> HIDE DEF r, n, new
    <2>3. Numbered(History(r.task) \union {new}, n + 1)
      BY <2>1, <2>2, NumberedGrows
    <2>4. ASSUME NEW task \in Tasks
          PROVE  \E m \in Nat : Numbered({row \in rows' : row.task = task}, m)
      <3>1. CASE task = r.task
        BY <2>1, <2>2, <2>3, <3>1
      <3>2. CASE task # r.task
        BY <2>1, <3>2 DEF Counted
      <3> QED
        BY <3>1, <3>2
    <2> QED
      BY <2>4 DEF Counted, History
  <1> QED
    BY <1>1, <1>2, RowsGrow

LEMMA ConflictStep ==
  ASSUME TypeOK, ConflictIsReal, [Next]_vars
  PROVE  ConflictIsReal'
  <1>1. rows \subseteq rows'
    BY RowsGrow DEF Appends
  <1>2. ASSUME NEW t \in Threads, pc'[t] = "classify"
        PROVE  /\ request'[t] = request[t]
               /\ RowsWithKey(request[t].key) # {} \/ VersionTaken(request[t])
    <2> USE DEF TypeOK
    <2>1. CASE pc[t] = "classify" /\ request'[t] = request[t]
      BY <2>1 DEF ConflictIsReal
    <2>2. ASSUME NEW u \in Threads, Insert(u)
          PROVE  \/ pc[t] = "classify" /\ request'[t] = request[t]
                 \/ /\ request'[t] = request[t]
                    /\ RowsWithKey(request[t].key) # {} \/ VersionTaken(request[t])
      BY <1>2, <2>2 DEF Insert, Goto, Answer, Finish
    <2>3. ASSUME NEW u \in Threads, NEW r \in Requests, Receive(u, r)
          PROVE  pc[t] = "classify" /\ request'[t] = request[t]
      BY <1>2, <2>3 DEF Receive, Goto
    <2>4. ASSUME NEW u \in Threads, Lookup(u) \/ ReadVersion(u)
          PROVE  pc[t] = "classify" /\ request'[t] = request[t]
      BY <1>2, <2>4 DEF Lookup, ReadVersion, Goto, Answer, Finish
    <2>5. ASSUME NEW u \in Threads, Classify(u)
          PROVE  pc[t] = "classify" /\ request'[t] = request[t]
      BY <1>2, <2>5 DEF Classify, Answer, Finish
    <2>6. ASSUME NEW u \in Threads, StatementFails(u) \/ CommitAnswerLost(u)
          PROVE  pc[t] = "classify" /\ request'[t] = request[t]
      BY <1>2, <2>6 DEF StatementFails, CommitAnswerLost, Finish
    <2>7. CASE UNCHANGED vars
      BY <1>2, <2>7, <2>1 DEF vars
    <2> QED
      BY <2>1, <2>2, <2>3, <2>4, <2>5, <2>6, <2>7 DEF Next
  <1> QED
    BY <1>1, <1>2 DEF ConflictIsReal, RowsWithKey, VersionTaken, History

-----------------------------------------------------------------------------
Entries == [task \in Tasks |-> InOrder(History(task))]

LEMMA EntriesOfTask ==
  ASSUME TypeOK, Counted, NEW task \in Tasks
  PROVE  /\ Len(Entries[task]) \in Nat
         /\ \A v \in 1 .. Len(Entries[task]) :
              Entries[task][v] \in History(task) /\ Entries[task][v].version = v
         /\ \A row \in History(task) :
              row.version \in 1 .. Len(Entries[task]) /\ Entries[task][row.version] = row
  <1>1. PICK n \in Nat : Numbered(History(task), n)
    BY DEF Counted
  <1>2. Entries[task] = InOrder(History(task))
    BY DEF Entries
  <1> QED
    BY <1>1, <1>2, InOrderHasAll

LEMMA KeyInUseIsRow ==
  ASSUME TypeOK, Counted, NEW key
  PROVE  Log!KeyInUse(key) <=> RowsWithKey(key) # {}
  <1>1. Log!KeyInUse(key) <=>
          \E task \in Tasks : \E v \in 1 .. Len(Entries[task]) : Entries[task][v].key = key
    BY DEF Log!KeyInUse, Entries
  <1>2. ASSUME NEW task \in Tasks, NEW v \in 1 .. Len(Entries[task]), Entries[task][v].key = key
        PROVE  RowsWithKey(key) # {}
    BY <1>2, EntriesOfTask DEF RowsWithKey, History
  <1>3. ASSUME NEW row \in RowsWithKey(key)
        PROVE  \E task \in Tasks : \E v \in 1 .. Len(Entries[task]) : Entries[task][v].key = key
    <2>1. row.task \in Tasks /\ row \in History(row.task) /\ row.key = key
      BY <1>3 DEF RowsWithKey, TypeOK, Rows, History
    <2> QED
      BY <2>1, EntriesOfTask
  <1> QED
    BY <1>1, <1>2, <1>3

LEMMA LatestIsNotStale ==
  ASSUME TypeOK, Counted, NEW r \in Requests
  PROVE  /\ Log!Stale(r) <=> ~IsLatest(r)
         /\ VersionTaken(r) => Log!Stale(r)
  <1>1. r.task \in Tasks /\ r.expected \in Nat
    BY RequestsAssumption DEF RequestType
  <1> DEFINE n == Len(Entries[r.task])
  <1>2. Log!Stale(r) <=> n # r.expected
    BY <1>1 DEF Log!Stale, Entries
  <1>3. /\ n \in Nat
        /\ \A v \in 1 .. n : \E row \in History(r.task) : row.version = v
        /\ \A row \in History(r.task) : row.version \in 1 .. n
    BY <1>1, EntriesOfTask
  <1> HIDE DEF n
  <1>4. ASSUME n = r.expected PROVE IsLatest(r)
    <2>1. r.expected # 0 => r.expected \in 1 .. n
      BY <1>1, <1>4
    <2> QED
      BY <1>1, <1>3, <1>4, <2>1 DEF IsLatest
  <1>5. ASSUME IsLatest(r) PROVE n = r.expected
    <2>1. r.expected # 0 => r.expected \in 1 .. n
      BY <1>3, <1>5 DEF IsLatest
    <2>2. n # 0 => n \in 1 .. n
      BY <1>3
    <2>3. n # 0 => n <= r.expected
      BY <1>3, <1>5, <2>2 DEF IsLatest
    <2> QED
      BY <1>1, <1>3, <2>1, <2>3
  <1>6. VersionTaken(r) => r.expected + 1 \in 1 .. n
    BY <1>3 DEF VersionTaken
  <1> QED
    BY <1>1, <1>2, <1>3, <1>4, <1>5, <1>6

Refined == Log!Next \/ UNCHANGED Log!vars

LEMMA EntriesStay ==
  ASSUME rows' = rows
  PROVE  [task \in Tasks |-> InOrder(History(task))]' = [task \in Tasks |-> InOrder(History(task))]
  BY DEF History

LEMMA AppendsRefine ==
  ASSUME TypeOK, HistoryGapless, SeenVersionExists, Counted, NEW t \in Threads, Appends(t),
         \/ UNCHANGED answers
         \/ answers' = answers \union
                         {[to |-> request[t], outcome |-> "stored", row |-> NewRow(request[t])]}
  PROVE  Refined
  <1>1. PICK r \in Requests : r = request[t]
    BY AppendsNext
  <1>2. /\ r.task \in Tasks
        /\ Numbered(History(r.task), r.expected)
        /\ \A task \in Tasks :
             {row \in rows' : row.task = task} =
               IF task = r.task THEN History(task) \union {NewRow(r)} ELSE History(task)
    BY <1>1, AppendsNext
  <1>3. r.expected \in Nat /\ NewRow(r).version = r.expected + 1
    BY NewRowType, RequestsAssumption DEF RequestType
  <1>4. Len(Entries[r.task]) = r.expected
    BY <1>2, <1>3, InOrderHasAll DEF Entries
  <1>5. ~Log!Stale(r)
    BY <1>2, <1>4 DEF Log!Stale, Entries
  <1>6. ~Log!KeyInUse(r.key)
    BY <1>1, KeyInUseIsRow DEF Appends
  <1>7. InOrder(History(r.task) \union {NewRow(r)}) = Append(InOrder(History(r.task)), NewRow(r))
    BY <1>2, <1>3, InOrderGrows
  <1>8. [task \in Tasks |-> InOrder({row \in rows' : row.task = task})]
          = [Entries EXCEPT ![r.task] = Append(@, NewRow(r))]
    BY <1>2, <1>7 DEF Entries
  <1>9. [task \in Tasks |-> InOrder(History(task))]'
          = [[task \in Tasks |-> InOrder(History(task))] EXCEPT ![r.task] = Append(@, NewRow(r))]
    BY <1>8 DEF Entries, History
  <1>10. [q \in Requests |-> NewRow(q)][r] = NewRow(r)
    OBVIOUS
  <1>11. Log!AppendEntry(r)
    BY <1>1, <1>5, <1>6, <1>9, <1>10 DEF Log!AppendEntry, Log!Reply
  <1> QED
    BY <1>11 DEF Refined, Log!Next

LEMMA ReplayRefines ==
  ASSUME TypeOK, Counted, NEW t \in Threads, request[t] \in Requests, rows' = rows,
         NEW row \in RowsWithKey(request[t].key), SameRequest(row, request[t]),
         Answer(t, "replayed", row)
  PROVE  Refined
  <1>1. PICK r \in Requests : r = request[t]
    OBVIOUS
  <1>2. RowAnswers(row, r)
    BY <1>1, ReplayIsSound
  <1>3. r.task \in Tasks /\ row \in History(r.task)
    BY <1>1, RequestsAssumption DEF RequestType, SameRequest, RowsWithKey, History
  <1>4. row.version \in 1 .. Len(Entries[r.task]) /\ Entries[r.task][row.version] = row
    BY <1>3, EntriesOfTask
  <1>5. Log!Reply(r, "replayed", row)
    BY <1>1 DEF Log!Reply, Answer
  <1>6. row = [[q \in Requests |-> NewRow(q)][r] EXCEPT !.version = row.version]
    BY <1>2 DEF RowAnswers
  <1>7. Log!Replay(r)
    BY <1>3, <1>4, <1>5, <1>6, EntriesStay DEF Log!Replay, Entries
  <1> QED
    BY <1>7 DEF Refined, Log!Next

LEMMA KeyRefusalRefines ==
  ASSUME TypeOK, Counted, NEW t \in Threads, request[t] \in Requests, rows' = rows,
         RowsWithKey(request[t].key) # {}, Answer(t, "idempotency_conflict", NoRow)
  PROVE  Refined
  <1>1. PICK r \in Requests : r = request[t]
    OBVIOUS
  <1>2. Log!RefuseKey(r)
    BY <1>1, KeyInUseIsRow, EntriesStay DEF Log!RefuseKey, Log!Reply, Answer
  <1> QED
    BY <1>2 DEF Refined, Log!Next

LEMMA VersionRefusalRefines ==
  ASSUME TypeOK, Counted, NEW t \in Threads, request[t] \in Requests, rows' = rows,
         Log!Stale(request[t]) \/ RowsWithKey(request[t].key) # {},
         Answer(t, "version_conflict", NoRow)
  PROVE  Refined
  <1>1. PICK r \in Requests : r = request[t]
    OBVIOUS
  <1>2. Log!RefuseVersion(r)
    BY <1>1, KeyInUseIsRow, EntriesStay DEF Log!RefuseVersion, Log!Reply, Answer
  <1> QED
    BY <1>2 DEF Refined, Log!Next

LEMMA QuietRefines ==
  ASSUME rows' = rows, answers' = answers
  PROVE  Refined
  BY EntriesStay DEF Refined, Log!vars

LEMMA StepRefines ==
  ASSUME TypeOK, HistoryGapless, SeenVersionExists, Counted, ConflictIsReal, [Next]_vars
  PROVE  Refined
  <1>1. ASSUME NEW t \in Threads, NEW r \in Requests, Receive(t, r) PROVE Refined
    BY <1>1, QuietRefines DEF Receive
  <1>2. ASSUME NEW t \in Threads, Lookup(t) PROVE Refined
    <2>1. request[t] \in Requests /\ rows' = rows
      BY <1>2 DEF Lookup, TypeOK
    <2>2. CASE answers' = answers
      BY <2>1, <2>2, QuietRefines
    <2>3. ASSUME NEW row \in RowsWithKey(request[t].key), SameRequest(row, request[t]),
                 Answer(t, "replayed", row)
          PROVE  Refined
      BY <2>1, <2>3, ReplayRefines
    <2>4. CASE RowsWithKey(request[t].key) # {} /\ Answer(t, "idempotency_conflict", NoRow)
      BY <2>1, <2>4, KeyRefusalRefines
    <2> QED
      BY <1>2, <2>2, <2>3, <2>4 DEF Lookup
  <1>3. ASSUME NEW t \in Threads, ReadVersion(t) PROVE Refined
    <2>1. request[t] \in Requests /\ rows' = rows
      BY <1>3 DEF ReadVersion, TypeOK
    <2>2. CASE IsLatest(request[t])
      BY <1>3, <2>1, <2>2, QuietRefines DEF ReadVersion
    <2>3. CASE ~IsLatest(request[t])
      <3>1. Log!Stale(request[t])
        BY <2>1, <2>3, LatestIsNotStale
      <3> QED
        BY <1>3, <2>1, <2>3, <3>1, VersionRefusalRefines DEF ReadVersion
    <2> QED
      BY <2>2, <2>3
  <1>4. ASSUME NEW t \in Threads, Insert(t) PROVE Refined
    <2>1. CASE rows' = rows /\ answers' = answers
      BY <2>1, QuietRefines
    <2>2. CASE Appends(t) /\ Answer(t, "stored", NewRow(request[t]))
      BY <2>2, AppendsRefine DEF Answer
    <2> QED
      BY <1>4, <2>1, <2>2 DEF Insert, Appends
  <1>5. ASSUME NEW t \in Threads, Classify(t) PROVE Refined
    <2>1. request[t] \in Requests /\ rows' = rows
      BY <1>5 DEF Classify, TypeOK
    <2>2. ASSUME NEW row \in RowsWithKey(request[t].key), SameRequest(row, request[t]),
                 Answer(t, "replayed", row)
          PROVE  Refined
      BY <2>1, <2>2, ReplayRefines
    <2>3. CASE Answer(t, "version_conflict", NoRow)
      <3>1. Log!Stale(request[t]) \/ RowsWithKey(request[t].key) # {}
        BY <1>5, <2>1, LatestIsNotStale DEF Classify, ConflictIsReal
      <3> QED
        BY <2>1, <2>3, <3>1, VersionRefusalRefines
    <2> QED
      BY <1>5, <2>2, <2>3 DEF Classify
  <1>6. ASSUME NEW t \in Threads, StatementFails(t) PROVE Refined
    BY <1>6, QuietRefines DEF StatementFails
  <1>7. ASSUME NEW t \in Threads, CommitAnswerLost(t) PROVE Refined
    BY <1>7, AppendsRefine DEF CommitAnswerLost, Appends
  <1>8. CASE UNCHANGED vars
    BY <1>8, QuietRefines DEF vars
  <1> QED
    BY <1>1, <1>2, <1>3, <1>4, <1>5, <1>6, <1>7, <1>8 DEF Next

LEMMA CountingHolds == Spec => [](Counted /\ ConflictIsReal)
<1> DEFINE Known == TypeOK /\ HistoryGapless /\ SeenVersionExists
<1>1. Init => Counted /\ ConflictIsReal
  <2>1. Init => \A task \in Tasks : Numbered(History(task), 0)
    BY DEF Init, History, Numbered, Versions
  <2> QED
    BY <2>1 DEF Init, Counted, ConflictIsReal
<1>2. Known /\ Counted /\ ConflictIsReal /\ [Next]_vars => Counted' /\ ConflictIsReal'
  BY CountedStep, ConflictStep
<1> QED
  BY <1>1, <1>2, InvariantHolds, PTL DEF Spec

\* The concurrent statements amount to a log that serves each request at one
\* instant: feedback is appended at the length its author expected, a replay is
\* in the log, and a conflict is true of the log when it is answered.
THEOREM ImplementsFeedbackLog == Spec => RefinesFeedbackLog
<1>1. Init => Log!Init
  <2> SUFFICES ASSUME Init PROVE Log!Init
    OBVIOUS
  <2>1. ASSUME NEW task \in Tasks PROVE InOrder(History(task)) = <<>>
    <3>1. Numbered(History(task), 0)
      BY DEF Init, History, Numbered, Versions
    <3> QED
      BY <3>1, InOrderHasAll
  <2> QED
    BY <2>1 DEF Log!Init, Init
<1>2. TypeOK /\ HistoryGapless /\ SeenVersionExists /\ Counted /\ ConflictIsReal /\ [Next]_vars
        => [Log!Next]_(Log!vars)
  BY StepRefines DEF Refined
<1> QED
  BY <1>1, <1>2, InvariantHolds, CountingHolds, PTL DEF Spec, RefinesFeedbackLog, Log!Spec
=============================================================================
