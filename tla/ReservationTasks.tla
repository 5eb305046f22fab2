-------------------------- MODULE ReservationTasks --------------------------
(***************************************************************************)
(* Reservation shortages and the tasks they lead to.  A detection is kept  *)
(* among the risk projections; one with a shortage is deduplicated by its  *)
(* cause and the period it falls in, aged, and shown as a row of the       *)
(* schedule's task list.                                                   *)
(*                                                                         *)
(* The demo preparation works under a lock and is the only caller in the   *)
(* app; other callers are external, one at a time, and may be late.  Time  *)
(* is counted in hours, a detection is its own evidence, and tenant, SKU   *)
(* and risk type go with the reservation.                                  *)
(***************************************************************************)
EXTENDS Naturals, Sequences, FiniteSets

CONSTANTS
  Reservations,
  Seeds,            \* the reservations of the demo preparation, in order
  UnknownShortage,  \* reservations whose shortage cannot be calculated
  Hours,            \* when detections are made
  Window,           \* dedupe_window_hours
  MaxDetections,    \* bound: detections registered
  NoEntry

Periods   == {h \div Window : h \in Hours}
Keys      == [of : Reservations, period : Periods]
Proposals == [first : Hours, last : Hours, evidence : SUBSET Hours, replays : Nat]
ShortageTasks == [seen : Proposals, aging : Nat]

ASSUME WindowAssumption ==
  /\ Window \in Nat \ {0}
  /\ Hours \subseteq Nat
  /\ Seeds \in Seq(Reservations)
  /\ MaxDetections \in Nat
  /\ NoEntry \notin Proposals /\ NoEntry \notin ShortageTasks

VARIABLES
  detections,   \* reservation_risk_projections
  proposals,    \* TaskDedupService.proposals
  tasks,        \* ReservationTaskService.tasks
  taskRows,     \* schedule_task_projections
  seed          \* the seed the preparation under the lock is at; 0: no preparation

reservationVars == <<detections, proposals, tasks, taskRows, seed>>

-----------------------------------------------------------------------------
Detections == [of : Reservations, at : Hours, demo : BOOLEAN]
TaskRows   == [key : Keys, evidence : SUBSET Hours, replays : Nat, asOf : Hours]

ReservationTypeOK ==
  /\ detections \in Seq(Detections)
  /\ proposals \in [Keys -> Proposals \union {NoEntry}]
  /\ tasks \in [Keys -> ShortageTasks \union {NoEntry}]
  /\ taskRows \in Seq(TaskRows)
  /\ seed \in 0 .. Len(Seeds)

ReservationInit ==
  /\ detections = <<>>
  /\ proposals = [k \in Keys |-> NoEntry]
  /\ tasks = [k \in Keys |-> NoEntry]
  /\ taskRows = <<>>
  /\ seed = 0

-----------------------------------------------------------------------------
Period(hour) == hour \div Window

Key(d) == [of |-> d.of, period |-> Period(d.at)]

\* register: the first detection of a key, or one more.
Seen(old, d) ==
  IF old = NoEntry THEN [first |-> d.at, last |-> d.at, evidence |-> {d.at}, replays |-> 0]
  ELSE [old EXCEPT !.last = d.at, !.evidence = @ \union {d.at}, !.replays = @ + 1]

\* propose_shortage_task: a task ages from its first detection on; one that is
\* registered late does not.
Proposed(old, d) ==
  IF old = NoEntry THEN [seen |-> Seen(NoEntry, d), aging |-> 0]
  ELSE [seen  |-> Seen(old.seen, d),
        aging |-> IF d.at > old.seen.first THEN d.at - old.seen.first ELSE 0]

Priority(aging) ==
  CASE aging >= 72 -> 90
    [] aging >= 48 /\ aging < 72 -> 70
    [] aging >= 24 /\ aging < 48 -> 50
    [] OTHER -> 30

AddRow(row) == Append(taskRows, row)   \* mutant: the list is not searched

\* The row of the task is replaced, or added at the end.
StoreRow(row) ==
  LET same == {i \in DOMAIN taskRows : taskRows[i].key = row.key}
  IN IF same = {} THEN Append(taskRows, row)
     ELSE [taskRows EXCEPT ![CHOOSE i \in same : \A j \in same : i <= j] = row]

Register(d) ==
  LET k == Key(d) IN
  /\ Len(detections) < MaxDetections
  /\ detections' = Append(detections, d)
  /\ IF d.of \in UnknownShortage THEN UNCHANGED <<proposals, tasks, taskRows>>
     ELSE /\ proposals' = [proposals EXCEPT ![k] = Seen(@, d)]
          /\ tasks' = [tasks EXCEPT ![k] = Proposed(@, d)]
          /\ taskRows' = StoreRow([key |-> k, evidence |-> tasks'[k].seen.evidence,
                                   replays |-> tasks'[k].seen.replays, asOf |-> d.at])

RegisterShortage ==
  /\ \E r \in Reservations, h \in Hours : Register([of |-> r, at |-> h, demo |-> FALSE])
  /\ UNCHANGED seed

-----------------------------------------------------------------------------
\* prepare_synthetic_reservations, seed by seed.
Matches(r) == {i \in DOMAIN detections : detections[i].of = r}

TakePrepareLock ==
  /\ seed = 0 /\ Seeds # <<>>
  /\ seed' = 1
  /\ UNCHANGED <<detections, proposals, tasks, taskRows>>

NextSeed == seed' = IF seed < Len(Seeds) THEN seed + 1 ELSE 0

PrepareSeed ==
  /\ seed > 0
  /\ Matches(Seeds[seed]) = {}
  /\ \E h \in Hours : Register([of |-> Seeds[seed], at |-> h, demo |-> TRUE])
  /\ NextSeed

PreparedBefore ==
  /\ seed > 0
  /\ \E i \in Matches(Seeds[seed]) : Matches(Seeds[seed]) = {i} /\ detections[i].demo
  /\ NextSeed
  /\ UNCHANGED <<detections, proposals, tasks, taskRows>>

\* SYNTHETIC_RESERVATION_IDENTITY_CONFLICT: the seeds before it stay.
SeedConflict ==
  /\ seed > 0
  /\ Matches(Seeds[seed]) # {}
  /\ ~ \E i \in Matches(Seeds[seed]) : Matches(Seeds[seed]) = {i} /\ detections[i].demo
  /\ seed' = 0
  /\ UNCHANGED <<detections, proposals, tasks, taskRows>>

ReservationNext ==
  RegisterShortage \/ TakePrepareLock \/ PrepareSeed \/ PreparedBefore \/ SeedConflict

ReservationSpec == ReservationInit /\ [][ReservationNext]_reservationVars

-----------------------------------------------------------------------------
Shortages(k) == {i \in DOMAIN detections : detections[i].of \notin UnknownShortage /\ Key(detections[i]) = k}

\* One row for each reservation and period with a shortage.
RowsKnowDetections ==
  \A k \in Keys :
    LET rows == {i \in DOMAIN taskRows : taskRows[i].key = k} IN
    /\ Cardinality(rows) = IF Shortages(k) = {} THEN 0 ELSE 1
    /\ \A i \in rows : /\ taskRows[i].evidence = {detections[j].at : j \in Shortages(k)}
                       /\ taskRows[i].replays = Cardinality(Shortages(k)) - 1

\* A task never ages past its period.
AgingStaysInPeriod ==
  \A k \in Keys : tasks[k] # NoEntry =>
    /\ tasks[k].aging < Window
    /\ Window <= 24 => Priority(tasks[k].aging) = 30

\* The task list has one row for each reservation and period with a shortage,
\* the row knows of every detection made in it, in whatever order they were
\* registered, and no task lives to the length of the window: with the 24 hours
\* the app uses, its priority never rises above that of a new shortage.
TaskRowsAreCurrent == RowsKnowDetections /\ AgingStaysInPeriod
=============================================================================
