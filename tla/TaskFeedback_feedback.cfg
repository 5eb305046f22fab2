SPECIFICATION Spec

CONSTANTS
  t1 = t1
  t2 = t2
  taskA = taskA
  taskB = taskB
  key1 = key1
  key2 = key2
  key3 = key3
  retitle = retitle
  dismiss = dismiss
  late = late
  NoRequest = NoRequest
  Threads = {t1, t2}
  Tasks = {taskA, taskB}
  Keys = {key1, key2, key3}
  Changes = {retitle, dismiss}
  Words = {late}
  Requests <- CompetingRequests
  MaxFaults = 1

SYMMETRY ThreadSymmetry

INVARIANT HistoryGapless
INVARIANT KeyStandsForOneRequest
PROPERTY RefinesFeedbackLog
