----------------------------- MODULE SyncRunner -----------------------------
(***************************************************************************)
(* ProviderSyncRunner.run: pages of a provider are read one after another, *)
(* a failed read is retried as RetryPolicy decides, every page is handed   *)
(* to commit_page, and the run stops at the first of its budgets.  The     *)
(* result's next_cursor is where the caller's next run starts.             *)
(*                                                                         *)
(* The clock is abstracted to whether the time budget is used up: it may   *)
(* be found used up at any check.  The provider is external: what it can   *)
(* answer at a cursor is the constant Answers, which may point back to a   *)
(* page already read.                                                      *)
(***************************************************************************)
EXTENDS Naturals, Sequences

CONSTANTS
  Cursors,
  NoCursor,      \* None: before the first page, and after the last
  Answers,       \* cursor -> the pages the provider may answer with
  MaxPages, MaxItems,   \* SyncBudget
  MaxAttempts,   \* RetryPolicy.max_attempts
  MaxRuns        \* bound: runs the caller starts

Places == Cursors \union {NoCursor}
Pages  == [size : Nat, next : Places, more : BOOLEAN]

ASSUME SyncAssumption ==
  /\ NoCursor \notin Cursors
  /\ Answers \in [Places -> SUBSET Pages]
  /\ MaxPages \in Nat \ {0} /\ MaxItems \in Nat \ {0} /\ MaxAttempts \in Nat \ {0}
  /\ MaxRuns \in Nat

VARIABLES
  pc,
  cursor, seen,    \* the run's position and seen_cursors
  attempt,
  page,            \* the page just read
  expired,         \* max_elapsed_seconds has passed
  pages, items,    \* pages_succeeded, len(items)
  next,            \* result.next_cursor
  reason,          \* result.stop_reason
  log,             \* external: what commit_page stored, over all runs of one sync
  first,           \* history: length of log when the run started
  runs

runVars == <<pc, cursor, seen, attempt, page, expired, pages, items, next, reason>>
vars    == <<runVars, log, first, runs>>

-----------------------------------------------------------------------------
NoPage == [none |-> TRUE]
Reasons == {"RUNNING", "COMPLETED", "MAX_PAGES", "MAX_ITEMS", "MAX_ELAPSED",
            "MAX_ATTEMPTS_EXHAUSTED", "NON_RETRYABLE", "INVALID_RETRY_AFTER",
            "INVALID_PAGINATION_CURSOR", "CANONICAL_COMMIT_FAILED"}

\* A stored page, and whether commit_page returned normally.
Entries == [at : Places, next : Places, acked : BOOLEAN]

TypeOK ==
  /\ pc \in {"stopped", "budget", "attempt", "read", "page", "commit"}
  /\ cursor \in Places /\ next \in Places
  /\ seen \subseteq Places
  /\ attempt \in 1 .. MaxAttempts
  /\ page \in Pages \union {NoPage}
  /\ pc \in {"page", "commit"} => page \in Pages
  /\ expired \in BOOLEAN
  /\ pages \in Nat /\ items \in Nat
  /\ reason \in Reasons
  /\ log \in Seq(Entries)
  /\ first \in Nat
  /\ runs \in 0 .. MaxRuns

Init ==
  /\ pc = "stopped"
  /\ cursor = NoCursor /\ next = NoCursor
  /\ seen = {}
  /\ attempt = 1
  /\ page = NoPage
  /\ expired = FALSE
  /\ pages = 0 /\ items = 0
  /\ reason = "RUNNING"
  /\ log = <<>>
  /\ first = 0
  /\ runs = 0

-----------------------------------------------------------------------------
\* The caller starts a run where the last one stopped, or a fresh sync when
\* that one was complete.
Start ==
  LET from == IF reason = "COMPLETED" THEN NoCursor ELSE next
      kept == IF reason = "COMPLETED" THEN <<>> ELSE log IN
  /\ pc = "stopped"
  /\ runs < MaxRuns
  /\ runs' = runs + 1
  /\ pc' = "budget"
  /\ cursor' = from /\ next' = from
  /\ seen' = {from}
  /\ attempt' = 1
  /\ page' = NoPage
  /\ expired' = FALSE
  /\ pages' = 0 /\ items' = 0
  /\ reason' = "RUNNING"
  /\ log' = kept
  /\ first' = Len(kept)

\* The run returns; kept is what the branch leaves in result.next_cursor.
Stop(why, kept) ==
  /\ pc' = "stopped"
  /\ reason' = why
  /\ next' = kept
  /\ UNCHANGED <<cursor, seen, attempt, page, expired, pages, items>>

Goto(label) ==
  /\ pc' = label
  /\ UNCHANGED <<cursor, seen, page, expired, pages, items, next, reason>>

\* The time budget runs out between two checks.
TimePasses ==
  /\ pc # "stopped"
  /\ ~expired
  /\ expired' = TRUE
  /\ UNCHANGED <<pc, cursor, seen, attempt, page, pages, items, next, reason, log, first, runs>>

\* The head of the loop: the budgets, in their order.
CheckBudget ==
  /\ pc = "budget"
  /\ \/ pages >= MaxPages /\ Stop("MAX_PAGES", cursor)
     \/ pages < MaxPages /\ items >= MaxItems /\ Stop("MAX_ITEMS", cursor)
     \/ pages < MaxPages /\ items < MaxItems /\ expired /\ Stop("MAX_ELAPSED", cursor)
     \/ pages < MaxPages /\ items < MaxItems /\ ~expired /\ Goto("attempt") /\ attempt' = 1
  /\ UNCHANGED <<log, first, runs>>

\* The head of the attempt loop; this branch leaves next_cursor as it is.
CheckAttempt ==
  /\ pc = "attempt"
  /\ \/ expired /\ Stop("MAX_ELAPSED", next)
     \/ ~expired /\ Goto("read") /\ UNCHANGED attempt
  /\ UNCHANGED <<log, first, runs>>

ReadPage ==
  /\ pc = "read"
  /\ page' \in Answers[cursor]
  /\ pc' = "page"
  /\ UNCHANGED <<cursor, seen, attempt, expired, pages, items, next, reason, log, first, runs>>

\* RetryPolicy.decide: no retry after the last attempt, whatever the error.
GivesUp(n) == n >= MaxAttempts

\* The attempt after a failed one.
SameAttempt(n) == n
NextAttempt(n) == n + 1

ReadFails ==
  /\ pc = "read"
  /\ \/ GivesUp(attempt) /\ Stop("MAX_ATTEMPTS_EXHAUSTED", cursor)
     \/ /\ ~GivesUp(attempt)
        /\ \/ Stop("NON_RETRYABLE", cursor)
           \/ Stop("INVALID_RETRY_AFTER", cursor)
           \/ Stop("MAX_ELAPSED", cursor)       \* the delay exceeds the time left
           \/ ~expired /\ Goto("attempt") /\ attempt' = NextAttempt(attempt)
  /\ UNCHANGED <<log, first, runs>>

\* A page that says there is more must lead to a place not seen in this run.
LeadsNowhereOnlyIfNone == page.more /\ page.next = NoCursor
LeadsNowhere == page.more /\ (page.next = NoCursor \/ page.next \in seen)

\* The whole page has to fit what is left of max_items.
FitsIfAnyLeft == items < MaxItems
Fits == page.size <= MaxItems - items

CheckPage ==
  /\ pc = "page"
  /\ \/ expired /\ Stop("MAX_ELAPSED", next)
     \/ ~expired /\ LeadsNowhere /\ Stop("INVALID_PAGINATION_CURSOR", next)
     \/ ~expired /\ ~LeadsNowhere /\ ~Fits /\ Stop("MAX_ITEMS", cursor)
     \/ ~expired /\ ~LeadsNowhere /\ Fits /\ Goto("commit") /\ UNCHANGED attempt
  /\ UNCHANGED <<log, first, runs>>

\* commit_page returns: the page counts and the run moves on or is complete.
Stored(acked) == Append(log, [at |-> cursor, next |-> page.next, acked |-> acked])

CommitPage ==
  /\ pc = "commit"
  /\ log' = Stored(TRUE)
  /\ items' = items + page.size
  /\ pages' = pages + 1
  /\ cursor' = page.next
  /\ next' = page.next
  /\ seen' = seen \union {page.next}
  /\ IF ~page.more \/ page.next = NoCursor
     THEN pc' = "stopped" /\ reason' = "COMPLETED"
     ELSE pc' = "budget" /\ UNCHANGED reason
  /\ UNCHANGED <<attempt, page, expired, first, runs>>

\* commit_page raises; its transaction may have taken effect all the same.
ResumeAfterFailedPage == page.next
ResumeAtFailedPage == cursor

CommitFails ==
  /\ pc = "commit"
  /\ log' \in {log, Stored(FALSE)}
  /\ Stop("CANONICAL_COMMIT_FAILED", ResumeAtFailedPage)
  /\ UNCHANGED <<first, runs>>

Step ==
  CheckBudget \/ CheckAttempt \/ ReadPage \/ ReadFails \/ CheckPage \/ CommitPage \/ CommitFails

Next == Start \/ TimePasses \/ Step

Spec == Init /\ [][Next]_vars

\* The run is a loop of one thread: it goes on until it returns.
FairSpec == Spec /\ WF_vars(Step)

-----------------------------------------------------------------------------
(***************************************************************************)
(* Properties                                                              *)
(***************************************************************************)

\* Over all the runs of a sync, however each of them stopped, no page is left
\* out (run's result.next_cursor and the caller's next start_cursor): the first
\* page is stored first, a page whose commit_page returned is followed by the one
\* it leads to, and one whose commit_page raised is stored again.
NoPageSkipped ==
  /\ log # <<>> => log[1].at = NoCursor
  /\ \A i \in 1 .. Len(log) - 1 :
       log[i + 1].at = IF log[i].acked THEN log[i].next ELSE log[i].at

\* Within one run commit_page never gets a page twice, also when the provider's
\* cursors lead back to a page already read (seen_cursors).
NoPageTwiceInARun ==
  \A i, j \in first + 1 .. Len(log) : i # j => log[i].at # log[j].at

\* Together: the pages of a sync are stored in the provider's order, none is left
\* out, and none is stored twice in a run.
PagesInOrder == NoPageSkipped /\ NoPageTwiceInARun

\* SyncBudget holds after every step: the last page of a run, which is stored as a
\* whole or not at all, never carries it over max_items.
WithinBudget == pages <= MaxPages /\ items <= MaxItems

\* Every call of run returns, whatever the provider answers and however often a
\* read fails (the retries, budgets and seen_cursors together).
RunEnds == pc # "stopped" ~> pc = "stopped"
=============================================================================
