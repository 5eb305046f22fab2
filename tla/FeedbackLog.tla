----------------------------- MODULE FeedbackLog -----------------------------
(***************************************************************************)
(* What appending feedback promises its callers: a task's feedback is a    *)
(* log, and a request is served as if at one instant.  At that instant it  *)
(* is appended, or found in the log, or refused, and a refusal is true     *)
(* when it is made.  A caller that is told nothing may have been served.   *)
(***************************************************************************)
EXTENDS Naturals, Sequences

CONSTANTS
  Tasks,
  Requests,   \* records with at least a task, a key and an expected length
  Entry,      \* the entry each request asks for
  NoRow       \* what a refusal carries in place of an entry

VARIABLES
  log,     \* per task: its feedback, oldest first
  replies

vars == <<log, replies>>

Init ==
  /\ log = [task \in Tasks |-> <<>>]
  /\ replies = {}

KeyInUse(key) ==
  \E task \in Tasks : \E i \in 1 .. Len(log[task]) : log[task][i].key = key

Stale(r) == Len(log[r.task]) # r.expected

Reply(r, outcome, row) ==
  replies' = replies \union {[to |-> r, outcome |-> outcome, row |-> row]}

\* Whether the caller learns of it is decided with the append.
AppendEntry(r) ==
  /\ ~Stale(r)
  /\ ~KeyInUse(r.key)
  /\ log' = [log EXCEPT ![r.task] = Append(@, Entry[r])]
  /\ Reply(r, "stored", Entry[r]) \/ UNCHANGED replies

\* The entry that was appended for the same request, at whatever length.
Replay(r) ==
  /\ \E i \in 1 .. Len(log[r.task]) :
       /\ log[r.task][i] = [Entry[r] EXCEPT !.version = i]
       /\ Reply(r, "replayed", log[r.task][i])
  /\ UNCHANGED log

RefuseKey(r) ==
  /\ KeyInUse(r.key)
  /\ Reply(r, "idempotency_conflict", NoRow)
  /\ UNCHANGED log

RefuseVersion(r) ==
  /\ Stale(r) \/ KeyInUse(r.key)
  /\ Reply(r, "version_conflict", NoRow)
  /\ UNCHANGED log

Next ==
  \E r \in Requests :
    \/ AppendEntry(r)
    \/ Replay(r)
    \/ RefuseKey(r)
    \/ RefuseVersion(r)

Spec == Init /\ [][Next]_vars
=============================================================================
