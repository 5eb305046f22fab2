------------------------- MODULE SyncRunnerProofs --------------------------
(***************************************************************************)
(* Proofs about SyncRunner: types, the budgets, no page twice in a run and *)
(* no page left out over the runs of a sync.  None needs fairness, and     *)
(* none assumes anything of the provider's cursors.                        *)
(***************************************************************************)
EXTENDS SyncRunner, TLAPS

USE SyncAssumption

\* Where a sync goes on after a stored page.
After(entry) == IF entry.acked THEN entry.next ELSE entry.at

\* The budgets, with what the checks on the way to a commit have established.
BudgetInv ==
  /\ WithinBudget
  /\ pc \in {"attempt", "read", "page", "commit"} => pages < MaxPages
  /\ pc = "commit" => page.size <= MaxItems - items

\* The position of an unfinished sync is where its log ends, and next_cursor
\* reports it on every return, also where the code leaves it as it was.
AtTheLogsEnd ==
  /\ next = cursor
  /\ cursor = IF log = <<>> THEN NoCursor ELSE After(log[Len(log)])

PositionInv ==
  /\ NoPageSkipped
  /\ pc # "stopped" \/ reason # "COMPLETED" => AtTheLogsEnd

\* A run has seen every page it stored, and is not at one of them.
RunInv ==
  /\ first <= Len(log)
  /\ NoPageTwiceInARun
  /\ pc # "stopped" =>
       /\ cursor \in seen
       /\ \A i \in first + 1 .. Len(log) : log[i].at \in seen /\ log[i].at # cursor
  /\ pc = "commit" /\ page.more => page.next \notin seen

-----------------------------------------------------------------------------
\* Every reachable state of a sync has the types its variables are declared with;
\* the attempt never exceeds RetryPolicy.max_attempts.
THEOREM TypeCorrect == Spec => []TypeOK
  <1>1. Init => TypeOK
    <2> SUFFICES ASSUME Init PROVE TypeOK
      OBVIOUS
    <2>1. log \in Seq(Entries) /\ attempt \in 1 .. MaxAttempts /\ runs \in 0 .. MaxRuns
      BY DEF Init
    <2>2. cursor \in Places /\ next \in Places
      BY DEF Init, Places
    <2> QED BY <2>1, <2>2 DEF Init, TypeOK, Reasons
  <1>2. TypeOK /\ [Next]_vars => TypeOK'
    <2> SUFFICES ASSUME TypeOK, [Next]_vars PROVE TypeOK'
      OBVIOUS
    <2>1. CASE Start
      <3>1. log' \in Seq(Entries) /\ Len(log') \in Nat
        BY <2>1 DEF TypeOK, Start
      <3>2. cursor' \in Places /\ next' \in Places /\ seen' \subseteq Places
        BY <2>1 DEF TypeOK, Start, Places
      <3>3. attempt' \in 1 .. MaxAttempts /\ runs' \in 0 .. MaxRuns /\ first' \in Nat
        BY <2>1, <3>1 DEF TypeOK, Start
      <3> QED BY <2>1, <3>1, <3>2, <3>3 DEF TypeOK, Start, Reasons
    <2>2. CASE TimePasses
      BY <2>2 DEF TypeOK, TimePasses
    <2>3. CASE CheckBudget
      BY <2>3 DEF TypeOK, CheckBudget, Stop, Goto, Reasons
    <2>4. CASE CheckAttempt
      BY <2>4 DEF TypeOK, CheckAttempt, Stop, Goto, Reasons
    <2>5. CASE ReadPage
      <3>1. page' \in Pages
        BY <2>5 DEF TypeOK, ReadPage
      <3> QED BY <2>5, <3>1 DEF TypeOK, ReadPage
    <2>6. CASE ReadFails
      BY <2>6 DEF TypeOK, ReadFails, GivesUp, NextAttempt, Stop, Goto, Reasons
    <2>7. CASE CheckPage
      BY <2>7 DEF TypeOK, CheckPage, Stop, Goto, Reasons
    <2>8. CASE CommitPage
      <3>1. page.size \in Nat /\ page.next \in Places
        BY <2>8 DEF TypeOK, CommitPage, Pages
      <3>2. [at |-> cursor, next |-> page.next, acked |-> TRUE] \in Entries
        BY <3>1 DEF TypeOK, Entries
      <3>3. log' \in Seq(Entries)
        BY <2>8, <3>2 DEF TypeOK, CommitPage, Stored
      <3>4. pages' \in Nat /\ items' \in Nat
        BY <2>8, <3>1 DEF TypeOK, CommitPage
      <3>5. cursor' \in Places /\ next' \in Places /\ seen' \subseteq Places
        BY <2>8, <3>1 DEF TypeOK, CommitPage
      <3>6. pc' \in {"stopped", "budget"} /\ reason' \in Reasons
        BY <2>8 DEF TypeOK, CommitPage, Reasons
      <3> QED BY <2>8, <3>3, <3>4, <3>5, <3>6 DEF TypeOK, CommitPage
    <2>9. CASE CommitFails
      <3>1. page.next \in Places
        BY <2>9 DEF TypeOK, CommitFails, Pages
      <3>2. [at |-> cursor, next |-> page.next, acked |-> FALSE] \in Entries
        BY <3>1 DEF TypeOK, Entries
      <3>3. log' \in Seq(Entries)
        BY <2>9, <3>2 DEF TypeOK, CommitFails, Stored
      <3> QED BY <2>9, <3>3 DEF TypeOK, CommitFails, Stop, ResumeAtFailedPage, Reasons
    <2>10. CASE UNCHANGED vars
      BY <2>10 DEF TypeOK, vars, runVars
    <2> QED BY <2>1, <2>2, <2>3, <2>4, <2>5, <2>6, <2>7, <2>8, <2>9, <2>10 DEF Next, Step
  <1> QED BY <1>1, <1>2, PTL DEF Spec

-----------------------------------------------------------------------------
\* SyncBudget bounds every run: no page is stored that does not fit.
THEOREM BudgetsHold == Spec => []WithinBudget
  <1>1. Init => BudgetInv
    BY DEF Init, BudgetInv, WithinBudget
  <1>2. TypeOK /\ BudgetInv /\ [Next]_vars => BudgetInv'
    <2> SUFFICES ASSUME TypeOK, BudgetInv, [Next]_vars PROVE BudgetInv'
      OBVIOUS
    <2> USE DEF BudgetInv, WithinBudget, TypeOK
    <2>1. CASE Start
      BY <2>1 DEF Start
    <2>2. CASE TimePasses
      BY <2>2 DEF TimePasses
    <2>3. CASE CheckBudget
      BY <2>3 DEF CheckBudget, Stop, Goto
    <2>4. CASE CheckAttempt
      BY <2>4 DEF CheckAttempt, Stop, Goto
    <2>5. CASE ReadPage
      BY <2>5 DEF ReadPage
    <2>6. CASE ReadFails
      BY <2>6 DEF ReadFails, Stop, Goto
    <2>7. CASE CheckPage
      BY <2>7 DEF CheckPage, Fits, Stop, Goto
    <2>8. CASE CommitPage
      <3>1. page.size \in Nat
        BY <2>8 DEF CommitPage, Pages
      <3> QED BY <2>8, <3>1 DEF CommitPage
    <2>9. CASE CommitFails
      BY <2>9 DEF CommitFails, Stop
    <2>10. CASE UNCHANGED vars
      BY <2>10 DEF vars, runVars
    <2> QED BY <2>1, <2>2, <2>3, <2>4, <2>5, <2>6, <2>7, <2>8, <2>9, <2>10 DEF Next, Step
  <1>3. BudgetInv => WithinBudget
    BY DEF BudgetInv
  <1> QED BY <1>1, <1>2, <1>3, TypeCorrect, PTL DEF Spec

-----------------------------------------------------------------------------
\* Storing a page at the log's end leaves no page out.
LEMMA StoredAtTheEnd ==
  ASSUME TypeOK, NoPageSkipped, AtTheLogsEnd, NEW ack \in BOOLEAN, page \in Pages
  PROVE  LET entry == [at |-> cursor, next |-> page.next, acked |-> ack]
         IN  /\ Append(log, entry) # <<>>
             /\ Append(log, entry)[1].at = NoCursor
             /\ \A i \in 1 .. Len(Append(log, entry)) - 1 :
                  Append(log, entry)[i + 1].at = After(Append(log, entry)[i])
             /\ Append(log, entry)[Len(Append(log, entry))] = entry
  <1> DEFINE entry == [at |-> cursor, next |-> page.next, acked |-> ack]
             longer == Append(log, entry)
  <1>1. /\ log \in Seq(Entries) /\ entry \in Entries
        /\ entry.at = cursor
    BY DEF TypeOK, Entries, Pages
  <1>2. /\ longer \in Seq(Entries)
        /\ Len(longer) = Len(log) + 1
        /\ longer[Len(log) + 1] = entry
        /\ \A i \in 1 .. Len(log) : longer[i] = log[i]
        /\ Len(log) \in Nat
    BY <1>1
  <1> HIDE DEF entry, longer
  <1>3. longer[1].at = NoCursor
    <2>1. CASE log = <<>>
      BY <2>1, <1>1, <1>2 DEF AtTheLogsEnd
    <2>2. CASE log # <<>>
      <3>1. 1 \in 1 .. Len(log)
        BY <2>2, <1>1
      <3> QED BY <3>1, <2>2, <1>2 DEF NoPageSkipped
    <2> QED BY <2>1, <2>2
  <1>4. ASSUME NEW i \in 1 .. Len(longer) - 1
        PROVE  longer[i + 1].at = After(longer[i])
    <2>1. i \in 1 .. Len(log) /\ longer[i] = log[i]
      BY <1>2
    <2>2. CASE i = Len(log)
      <3>1. log # <<>> /\ cursor = After(log[i])
        BY <2>1, <2>2, <1>1 DEF AtTheLogsEnd
      <3> QED BY <3>1, <2>1, <2>2, <1>1, <1>2
    <2>3. CASE i # Len(log)
      <3>1. i \in 1 .. Len(log) - 1 /\ i + 1 \in 1 .. Len(log)
        BY <2>1, <2>3, <1>2
      <3>2. log[i + 1].at = After(log[i])
        BY <3>1 DEF NoPageSkipped, After
      <3> QED BY <3>1, <3>2, <2>1, <1>2
    <2> QED BY <2>2, <2>3
  <1>5. longer # <<>>
    BY <1>2
  <1>6. longer[Len(longer)] = entry
    BY <1>2
  <1> QED BY <1>3, <1>4, <1>5, <1>6 DEF entry, longer

\* A commit, acknowledged or not, leads from the log's end to the log's end.
LEMMA StoringKeepsPosition ==
  ASSUME TypeOK, NoPageSkipped, AtTheLogsEnd, NEW ack \in BOOLEAN, page \in Pages,
         log' = Stored(ack),
         cursor' = (IF ack THEN page.next ELSE cursor),
         next' = cursor'
  PROVE  NoPageSkipped' /\ AtTheLogsEnd'
  <1> DEFINE entry == [at |-> cursor, next |-> page.next, acked |-> ack]
  <1>1. log' = Append(log, entry)
    BY DEF Stored
  <1>2. /\ log' # <<>>
        /\ log'[1].at = NoCursor
        /\ \A i \in 1 .. Len(log') - 1 : log'[i + 1].at = After(log'[i])
        /\ log'[Len(log')] = entry
    BY <1>1, StoredAtTheEnd
  <1>3. NoPageSkipped'
    BY <1>2 DEF NoPageSkipped, After
  <1>4. cursor' = After(entry)
    BY DEF After
  <1> HIDE DEF entry
  <1>5. AtTheLogsEnd'
    BY <1>2, <1>4 DEF AtTheLogsEnd, After
  <1> QED BY <1>3, <1>5

\* A step that leaves log, cursor and next alone keeps them in place.
LEMMA PositionKept ==
  ASSUME PositionInv, log' = log, cursor' = cursor, next' = next,
         pc # "stopped" \/ UNCHANGED <<pc, reason>>
  PROVE  PositionInv'
  BY DEF PositionInv, NoPageSkipped, AtTheLogsEnd, After

\* However the runs of a sync stop, and wherever a commit fails, together they
\* store the provider's pages in order and leave none out.
THEOREM NothingSkipped == Spec => []NoPageSkipped
  <1>1. Init => PositionInv
    BY DEF Init, PositionInv, NoPageSkipped, AtTheLogsEnd
  <1>2. TypeOK /\ PositionInv /\ [Next]_vars => PositionInv'
    <2> SUFFICES ASSUME TypeOK, PositionInv, [Next]_vars PROVE PositionInv'
      OBVIOUS
    <2>1. CASE Start
      <3>1. CASE reason = "COMPLETED"
        <4>1. log' = <<>> /\ cursor' = NoCursor /\ next' = NoCursor
          BY <2>1, <3>1 DEF Start
        <4> QED BY <4>1 DEF PositionInv, NoPageSkipped, AtTheLogsEnd
      <3>2. CASE reason # "COMPLETED"
        <4>1. log' = log /\ cursor' = next /\ next' = next
          BY <2>1, <3>2 DEF Start
        <4>2. AtTheLogsEnd /\ NoPageSkipped
          BY <3>2 DEF PositionInv
        <4> QED BY <4>1, <4>2 DEF PositionInv, NoPageSkipped, AtTheLogsEnd, After
      <3> QED BY <3>1, <3>2
    <2>2. CASE TimePasses
      BY <2>2, PositionKept DEF TimePasses
    <2>3. CASE CheckBudget
      BY <2>3, PositionKept DEF CheckBudget, Stop, Goto, PositionInv, AtTheLogsEnd
    <2>4. CASE CheckAttempt
      BY <2>4, PositionKept DEF CheckAttempt, Stop, Goto
    <2>5. CASE ReadPage
      BY <2>5, PositionKept DEF ReadPage
    <2>6. CASE ReadFails
      BY <2>6, PositionKept DEF ReadFails, Stop, Goto, PositionInv, AtTheLogsEnd
    <2>7. CASE CheckPage
      BY <2>7, PositionKept DEF CheckPage, Stop, Goto, PositionInv, AtTheLogsEnd
    <2>8. CASE CommitPage
      <3>1. /\ page \in Pages /\ AtTheLogsEnd /\ NoPageSkipped
            /\ log' = Stored(TRUE) /\ cursor' = page.next /\ next' = page.next
        BY <2>8 DEF CommitPage, TypeOK, PositionInv
      <3> QED BY <3>1, StoringKeepsPosition DEF PositionInv
    <2>9. CASE CommitFails
      <3>1. /\ page \in Pages /\ AtTheLogsEnd /\ NoPageSkipped /\ pc # "stopped"
            /\ cursor' = cursor /\ next' = cursor
            /\ log' = log \/ log' = Stored(FALSE)
        BY <2>9 DEF CommitFails, Stop, ResumeAtFailedPage, TypeOK, PositionInv
      <3>2. CASE log' = log
        BY <3>1, <3>2, PositionKept DEF AtTheLogsEnd
      <3>3. CASE log' = Stored(FALSE)
        BY <3>1, <3>3, StoringKeepsPosition DEF PositionInv
      <3> QED BY <3>1, <3>2, <3>3
    <2>10. CASE UNCHANGED vars
      BY <2>10, PositionKept DEF vars, runVars
    <2> QED BY <2>1, <2>2, <2>3, <2>4, <2>5, <2>6, <2>7, <2>8, <2>9, <2>10 DEF Next, Step
  <1>3. PositionInv => NoPageSkipped
    BY DEF PositionInv
  <1> QED BY <1>1, <1>2, <1>3, TypeCorrect, PTL DEF Spec

-----------------------------------------------------------------------------
\* A page stored where the run is at was not stored in it before.
LEMMA StoringKeepsRun ==
  ASSUME TypeOK, RunInv, pc # "stopped", NEW ack \in BOOLEAN,
         log' = Stored(ack), first' = first
  PROVE  /\ first' <= Len(log')
         /\ NoPageTwiceInARun'
         /\ \A i \in first' + 1 .. Len(log') : log'[i].at \in seen
  <1> DEFINE entry == [at |-> cursor, next |-> page.next, acked |-> ack]
  <1>1. log \in Seq(Entries) /\ log' = Append(log, entry) /\ entry.at = cursor
    BY DEF TypeOK, Stored
  <1> HIDE DEF entry
  <1>2. /\ Len(log) \in Nat /\ Len(log') = Len(log) + 1
        /\ log'[Len(log) + 1] = entry
        /\ \A i \in 1 .. Len(log) : log'[i] = log[i]
    BY <1>1
  <1>3. first \in Nat /\ first <= Len(log)
    BY DEF TypeOK, RunInv
  <1>4. \A i \in first + 1 .. Len(log) : log'[i] = log[i] /\ log[i].at \in seen /\ log[i].at # cursor
    BY <1>2, <1>3 DEF RunInv
  <1>5. \A i \in first + 1 .. Len(log') : i \in first + 1 .. Len(log) \/ i = Len(log) + 1
    BY <1>2, <1>3
  <1>6. \A i \in first + 1 .. Len(log') : log'[i].at \in seen
    BY <1>1, <1>2, <1>4, <1>5 DEF RunInv
  <1>7. ASSUME NEW i \in first + 1 .. Len(log'), NEW j \in first + 1 .. Len(log'), i # j
        PROVE  log'[i].at # log'[j].at
    <2>1. CASE i = Len(log) + 1
      BY <2>1, <1>1, <1>2, <1>4, <1>5, <1>7
    <2>2. CASE j = Len(log) + 1
      BY <2>2, <1>1, <1>2, <1>4, <1>5, <1>7
    <2>3. CASE i \in first + 1 .. Len(log) /\ j \in first + 1 .. Len(log)
      BY <2>3, <1>4, <1>7 DEF RunInv, NoPageTwiceInARun
    <2> QED BY <2>1, <2>2, <2>3, <1>5
  <1> QED BY <1>2, <1>3, <1>6, <1>7 DEF NoPageTwiceInARun

\* A step that leaves the log, the position and what was seen alone.
LEMMA RunKept ==
  ASSUME RunInv, UNCHANGED <<log, first, cursor, seen>>,
         pc # "stopped" \/ UNCHANGED pc,
         ~(pc' = "commit" /\ page'.more) \/ page'.next \notin seen
  PROVE  RunInv'
  BY DEF RunInv, NoPageTwiceInARun

\* Within one run no page is handed to commit_page twice, whatever cursors the
\* provider answers with.
THEOREM NothingTwice == Spec => []NoPageTwiceInARun
  <1>1. Init => RunInv
    BY DEF Init, RunInv, NoPageTwiceInARun
  <1>2. TypeOK /\ RunInv /\ [Next]_vars => RunInv'
    <2> SUFFICES ASSUME TypeOK, RunInv, [Next]_vars PROVE RunInv'
      OBVIOUS
    <2>1. CASE Start
      <3>1. /\ first' = Len(log') /\ Len(log') \in Nat
            /\ cursor' \in seen' /\ pc' = "budget"
        BY <2>1 DEF Start, TypeOK
      <3>2. \A i \in first' + 1 .. Len(log') : FALSE
        BY <3>1
      <3> QED BY <3>1, <3>2 DEF RunInv, NoPageTwiceInARun
    <2>2. CASE TimePasses
      BY <2>2, RunKept DEF TimePasses, RunInv
    <2>3. CASE CheckBudget
      BY <2>3, RunKept DEF CheckBudget, Stop, Goto
    <2>4. CASE CheckAttempt
      BY <2>4, RunKept DEF CheckAttempt, Stop, Goto
    <2>5. CASE ReadPage
      BY <2>5, RunKept DEF ReadPage
    <2>6. CASE ReadFails
      BY <2>6, RunKept DEF ReadFails, Stop, Goto
    <2>7. CASE CheckPage
      BY <2>7, RunKept DEF CheckPage, LeadsNowhere, Stop, Goto
    <2>8. CASE CommitPage
      <3>1. /\ pc # "stopped" /\ log' = Stored(TRUE) /\ first' = first
            /\ cursor' = page.next /\ seen' = seen \union {page.next}
            /\ pc' # "stopped" => pc' = "budget" /\ page.more
        BY <2>8 DEF CommitPage
      <3>2. /\ first' <= Len(log') /\ NoPageTwiceInARun'
            /\ \A i \in first' + 1 .. Len(log') : log'[i].at \in seen
        BY <3>1, StoringKeepsRun
      <3>3. pc' # "stopped" => page.next \notin seen
        BY <2>8, <3>1 DEF CommitPage, RunInv
      <3>4. pc' # "commit"
        BY <2>8 DEF CommitPage
      <3> QED BY <3>1, <3>2, <3>3, <3>4 DEF RunInv
    <2>9. CASE CommitFails
      <3>1. /\ pc # "stopped" /\ pc' = "stopped" /\ first' = first
            /\ log' = log \/ log' = Stored(FALSE)
        BY <2>9 DEF CommitFails, Stop
      <3>2. CASE log' = log
        BY <3>1, <3>2 DEF RunInv, NoPageTwiceInARun
      <3>3. CASE log' = Stored(FALSE)
        BY <3>1, <3>3, StoringKeepsRun DEF RunInv
      <3> QED BY <3>1, <3>2, <3>3
    <2>10. CASE UNCHANGED vars
      BY <2>10, RunKept DEF vars, runVars, RunInv
    <2> QED BY <2>1, <2>2, <2>3, <2>4, <2>5, <2>6, <2>7, <2>8, <2>9, <2>10 DEF Next, Step
  <1>3. RunInv => NoPageTwiceInARun
    BY DEF RunInv
  <1> QED BY <1>1, <1>2, <1>3, TypeCorrect, PTL DEF Spec

\* The pages of a sync are stored in order: none is left out by its runs, and none
\* is stored twice in one of them.
THEOREM InOrder == Spec => []PagesInOrder
  BY NothingSkipped, NothingTwice, PTL DEF PagesInOrder
=============================================================================
