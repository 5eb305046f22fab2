--------------------------- MODULE MCTaskFeedback ---------------------------
(***************************************************************************)
(* Small instances of TaskFeedback: two threads, two tasks, two keys.      *)
(***************************************************************************)
EXTENDS TaskFeedback, TLC

CONSTANTS t1, t2, taskA, taskB, key1, key2, key3, retitle, dismiss, late

Ask(task, change, key, expected, padded) ==
  [task |-> task, change |-> change, key |-> key, expected |-> expected,
   reason |-> [words |-> late, padded |-> padded]]

\* Two first decisions that compete, a decision on top of the first one, the
\* first key reused for another task, and a decision ahead of its time.
CompetingRequests ==
  {Ask(taskA, retitle, key1, 0, FALSE), Ask(taskA, dismiss, key2, 0, TRUE),
   Ask(taskA, dismiss, key2, 1, FALSE), Ask(taskB, retitle, key1, 0, FALSE),
   Ask(taskA, retitle, key3, 2, FALSE)}

\* One request whose reason ends in white space.
PaddedRequests == {Ask(taskA, dismiss, key1, 0, TRUE)}

ThreadSymmetry == Permutations(Threads)
=============================================================================
