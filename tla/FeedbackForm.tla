---------------------------- MODULE FeedbackForm ----------------------------
(***************************************************************************)
(* The form of a shortage task in the browser (TodayTasks.tsx) against the *)
(* feedback history on the server.  TaskFeedback proves that the history   *)
(* of a task is gapless and grows by a row only for a request that expects *)
(* the current version; here that is one step, and a row is the opinion it *)
(* holds.  A save uses the history as it was last shown and a new key, so  *)
(* that the server takes a second attempt for another request.             *)
(***************************************************************************)
EXTENDS Naturals, Sequences, FiniteSets

CONSTANTS
  Forms,           \* the forms of one task that are open in browsers
  MaxOpinions,     \* bound: opinions typed
  MaxPosts,        \* bound: attempts to save
  MaxFormFaults,   \* bound: answers lost and pages loaded anew
  Unread           \* history === null

ASSUME FormAssumption == Unread \notin Nat /\ {MaxOpinions, MaxPosts, MaxFormFaults} \subseteq Nat

VARIABLES
  history,     \* the task's rows on the server: the opinion each one holds
  posts,       \* saves on their way to the server
  form,        \* what a form keeps in its state
  typed,       \* opinions typed so far; opinions are numbered
  attempts,    \* keys drawn so far
  formFaults

formVars == <<history, posts, form, typed, attempts, formFaults>>

Steps == {"ready", "posting", "reading"}

\* Every opinion is on the server once: `sent` and `key` are those of the last save.
FormStates ==
  [pc : Steps, shown : Nat \union {Unread}, text : 0 .. MaxOpinions,
   sent : 0 .. MaxOpinions, key : 0 .. MaxPosts, saved : BOOLEAN]

FormTypeOK ==
  /\ history \in Seq(1 .. MaxOpinions)
  /\ posts \subseteq [of : Forms, key : 1 .. MaxPosts, opinion : 1 .. MaxOpinions, version : Nat]
  /\ form \in [Forms -> FormStates]
  /\ typed \in 0 .. MaxOpinions
  /\ attempts \in 0 .. MaxPosts
  /\ formFaults \in 0 .. MaxFormFaults

Blank == [pc |-> "ready", shown |-> Unread, text |-> 0, sent |-> 0, key |-> 0, saved |-> FALSE]

FormInit ==
  /\ history = <<>>
  /\ posts = {}
  /\ form = [a \in Forms |-> Blank]
  /\ typed = 0 /\ attempts = 0 /\ formFaults = 0

FormTo(a, f)   == form' = [form EXCEPT ![a] = f]
FormAt(a, pc)  == form[a].pc = pc
NoFormFault    == UNCHANGED formFaults
FormFault      == formFaults < MaxFormFaults /\ formFaults' = formFaults + 1

-----------------------------------------------------------------------------
\* The effect's getTaskFeedback; an answer that is lost leaves the form unread.
LoadHistory(a) ==
  /\ FormAt(a, "ready") /\ form[a].shown = Unread
  /\ FormTo(a, [form[a] EXCEPT !.shown = Len(history)])
  /\ UNCHANGED <<history, posts, typed, attempts>> /\ NoFormFault

\* The fields stay open while a save is under way.
Type(a) ==
  /\ typed < MaxOpinions
  /\ typed' = typed + 1
  /\ FormTo(a, [form[a] EXCEPT !.text = typed + 1])
  /\ UNCHANGED <<history, posts, attempts>> /\ NoFormFault

Save(a) ==
  /\ FormAt(a, "ready") /\ form[a].shown # Unread /\ form[a].text # 0
  /\ attempts < MaxPosts
  /\ attempts' = attempts + 1
  /\ posts' = posts \union {[of |-> a, key |-> attempts + 1, opinion |-> form[a].text, version |-> form[a].shown]}
  /\ FormTo(a, [form[a] EXCEPT !.pc = "posting", !.sent = form[a].text, !.key = attempts + 1, !.saved = FALSE])
  /\ UNCHANGED <<history, typed>> /\ NoFormFault

\* Mutant: a failed save shows the history anew.
ReloadedAfterFailure(a) == [form[a] EXCEPT !.pc = "ready", !.shown = Len(history)]

\* A failed save says so and changes nothing else: the next one expects the same version.
AfterFailure(a) == [form[a] EXCEPT !.pc = "ready"]

\* The server appends a row for the version expected, or refuses the request.
\* The form may have stopped waiting for the answer.
Serve(p) ==
  LET current == p.version = Len(history)
      waits   == FormAt(p.of, "posting") /\ form[p.of].key = p.key IN
  /\ posts' = posts \ {p}
  /\ history' = IF current THEN Append(history, p.opinion) ELSE history
  /\ IF ~waits THEN UNCHANGED form
     ELSE FormTo(p.of, IF current THEN [form[p.of] EXCEPT !.pc = "reading"] ELSE AfterFailure(p.of))
  /\ UNCHANGED <<typed, attempts>> /\ NoFormFault

\* The request fails on its way, or its answer does: it may still be served.
PostFails(a) ==
  /\ FormAt(a, "posting")
  /\ FormTo(a, AfterFailure(a))
  /\ FormFault
  /\ UNCHANGED <<history, posts, typed, attempts>>

\* The read-back shows the history and clears the fields, whatever they hold now.
ReadBackHistory(a) ==
  /\ FormAt(a, "reading")
  /\ FormTo(a, [form[a] EXCEPT !.pc = "ready", !.shown = Len(history), !.text = 0, !.saved = TRUE])
  /\ UNCHANGED <<history, posts, typed, attempts>> /\ NoFormFault

ReadBackFails(a) ==
  /\ FormAt(a, "reading")
  /\ FormTo(a, AfterFailure(a))
  /\ FormFault
  /\ UNCHANGED <<history, posts, typed, attempts>>

\* The page is left and opened again: the form is blank, a save goes on.
Remount(a) ==
  /\ form[a] # Blank
  /\ FormTo(a, Blank)
  /\ FormFault
  /\ UNCHANGED <<history, posts, typed, attempts>>

FormNext ==
  \/ \E a \in Forms : \/ LoadHistory(a) \/ Type(a) \/ Save(a) \/ PostFails(a)
                      \/ ReadBackHistory(a) \/ ReadBackFails(a) \/ Remount(a)
  \/ \E p \in posts : Serve(p)

FormSpec == FormInit /\ [][FormNext]_formVars

-----------------------------------------------------------------------------
\* An opinion is stored at most once, although no attempt repeats the key of the
\* one before it and the author cannot know whether a failed one was stored; and
\* a form that says it is saved shows a history with the opinion it speaks of.
OpinionStoredOnce ==
  /\ \A i, j \in DOMAIN history : history[i] = history[j] => i = j
  /\ \A a \in Forms : form[a].saved => \E i \in 1 .. form[a].shown : history[i] = form[a].sent
=============================================================================
