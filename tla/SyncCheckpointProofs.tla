------------------------ MODULE SyncCheckpointProofs ------------------------
(***************************************************************************)
(* Proofs about SyncCheckpoint, for any workers, processes, modes and      *)
(* pages: types, that a checkpoint is backed by committed pages, and that  *)
(* it never goes back while one process syncs at a time.                   *)
(***************************************************************************)
EXTENDS SyncCheckpoint, TLAPS

-----------------------------------------------------------------------------
(* The inductive invariant                                                 *)

\* A worker that has a row in memory found it, and rows are never deleted.
SeenRowsStay == \A w \in Workers : Busy(w) /\ worker[w].seen # NoRow => rows[worker[w].mode] # NoRow

\* A worker stands where the pages before it are committed.
WorkersAreBacked == \A w \in Workers : Busy(w) => 1 .. worker[w].pos \subseteq canonical[worker[w].mode]

BackedInv == CheckpointTypeOK /\ SeenRowsStay /\ WorkersAreBacked /\ CursorIsBacked

\* The lock keeps the workers of a process apart, and as long as no two
\* processes synced at once there is one busy worker at most.
LockHeld  == \A w \in Workers : Busy(w) => syncLock[ProcessOf[w]] = w
OneAtOnce == ~crossed => \A v, w \in Workers : Busy(v) /\ Busy(w) => v = w

\* The one worker is not behind the row it is about to write, and nobody has
\* changed the row since it was read.
NotBehind ==
  ~crossed => \A w \in Workers : Busy(w) /\ ~WorkerAt(w, "load") =>
    LET r == worker[w] IN
    /\ rows[r.mode] # NoRow => rows[r.mode].pos <= r.pos
    /\ r.at \in {"write", "note"} => r.seen = rows[r.mode]

ForwardInv == BackedInv /\ LockHeld /\ OneAtOnce /\ NotBehind

-----------------------------------------------------------------------------
(* Facts about states and rows                                             *)

LEMMA BusyWorker ==
  ASSUME CheckpointTypeOK, NEW w \in Workers
  PROVE  /\ Busy(w) => worker[w] \in Syncing
         /\ ~Busy(w) => worker[w] = Waiting
         /\ worker[w] \in Syncing => Busy(w)
         /\ worker[w] = Waiting => ~Busy(w)
BY DEF CheckpointTypeOK, Busy, WorkerAt, Waiting, Syncing

\* What commit_api_checkpoint writes, when the row it has seen still exists.
LEMMA AdvancedRow ==
  ASSUME NEW seen \in Rows \union {NoRow}, NEW row \in Rows \union {NoRow},
         NEW pos \in 0 .. MaxPages, seen # NoRow => row # NoRow
  PROVE  /\ Advanced(seen, row, pos) \in Rows
         /\ seen = NoRow => Advanced(seen, row, pos).pos = pos
         /\ seen # NoRow => Advanced(seen, row, pos).pos = IF pos # seen.pos THEN pos ELSE row.pos
<1>1. CASE seen = NoRow
  BY <1>1, CheckpointAssumption DEF Advanced, Rows
<1>2. CASE seen # NoRow
  <2>1. row \in Rows /\ seen \in Rows
    BY <1>2
  <2> DEFINE p == IF pos # seen.pos THEN pos ELSE row.pos
             e == IF seen.error THEN FALSE ELSE row.error
             moved == [row EXCEPT !.pos = p]
             counted == [moved EXCEPT !.version = seen.version + 1]
             cleared == [counted EXCEPT !.error = e]
  <2>2. p \in 0 .. MaxPages /\ e \in BOOLEAN /\ seen.version + 1 \in Nat
    <3>1. p \in 0 .. MaxPages /\ seen.version + 1 \in Nat
      BY <2>1 DEF Rows
    <3>2. e \in BOOLEAN
      BY <2>1 DEF Rows
    <3> QED BY <3>1, <3>2
  <2>3. Advanced(seen, row, pos) = cleared
    BY <1>2 DEF Advanced
  <2> HIDE DEF p, e
  <2>4. moved \in Rows /\ moved.pos = p
    BY <2>1, <2>2 DEF Rows
  <2>5. counted \in Rows /\ counted.pos = p
    <3> HIDE DEF moved
    <3> QED BY <2>2, <2>4 DEF Rows
  <2>6. cleared \in Rows /\ cleared.pos = p
    <3> HIDE DEF counted
    <3> QED BY <2>2, <2>5 DEF Rows
  <2> QED BY <1>2, <2>3, <2>6 DEF p
<1> QED BY <1>1, <1>2

\* What record_error writes.
LEMMA NotedRow ==
  ASSUME NEW seen \in Rows \union {NoRow}, NEW row \in Rows \union {NoRow},
         NEW pos \in 0 .. MaxPages, seen # NoRow => row # NoRow
  PROVE  /\ Noted(seen, row, pos) \in Rows
         /\ seen = NoRow => Noted(seen, row, pos).pos = 0
         /\ seen # NoRow => Noted(seen, row, pos).pos = row.pos
<1>1. CASE seen = NoRow
  BY <1>1, CheckpointAssumption DEF Noted, Rows
<1>2. CASE seen # NoRow
  <2>1. row \in Rows /\ seen \in Rows
    BY <1>2
  <2> DEFINE e == IF seen.error THEN row.error ELSE TRUE
  <2>2. e \in BOOLEAN
    BY <2>1 DEF Rows
  <2>3. Noted(seen, row, pos) = [row EXCEPT !.error = e]
    BY <1>2 DEF Noted
  <2> HIDE DEF e
  <2> QED BY <1>2, <2>1, <2>2, <2>3 DEF Rows
<1> QED BY <1>1, <1>2

-----------------------------------------------------------------------------
(* Checkpoints are backed                                                  *)

\* One worker moves: it is typed, and if it is busy after the step it stands
\* where pages are committed and has seen a row that is there.
LEMMA OneWorkerMoves ==
  ASSUME BackedInv, NEW w \in Workers, NEW r \in Syncing \union {Waiting},
         worker' = [worker EXCEPT ![w] = r],
         \A m \in Modes : canonical[m] \subseteq canonical'[m],
         \A m \in Modes : rows[m] # NoRow => rows'[m] # NoRow,
         r # Waiting => /\ 1 .. r.pos \subseteq canonical'[r.mode]
                        /\ r.seen # NoRow => rows'[r.mode] # NoRow
  PROVE  /\ worker' \in [Workers -> Syncing \union {Waiting}]
         /\ SeenRowsStay' /\ WorkersAreBacked'
<1>1. CheckpointTypeOK /\ SeenRowsStay /\ WorkersAreBacked
  BY DEF BackedInv
<1>2. worker' \in [Workers -> Syncing \union {Waiting}] /\ worker'[w] = r
  BY <1>1 DEF CheckpointTypeOK
<1>3. ASSUME NEW v \in Workers, v # w, Busy(v)'
      PROVE  /\ worker'[v] = worker[v] /\ Busy(v) /\ worker[v].mode \in Modes
             /\ 1 .. worker[v].pos \subseteq canonical'[worker[v].mode]
             /\ worker[v].seen # NoRow => rows'[worker[v].mode] # NoRow
  <2>1. worker'[v] = worker[v] /\ Busy(v)
    BY <1>1, <1>3 DEF CheckpointTypeOK, Busy, WorkerAt
  <2>2. worker[v].mode \in Modes
    BY <1>1, <2>1, BusyWorker DEF Syncing
  <2> QED BY <1>1, <2>1, <2>2 DEF SeenRowsStay, WorkersAreBacked
<1>4. Busy(w)' => r # Waiting
  BY <1>2 DEF Busy, WorkerAt, Waiting
<1>5. SeenRowsStay'
  BY <1>2, <1>3, <1>4 DEF SeenRowsStay
<1>6. WorkersAreBacked'
  BY <1>2, <1>3, <1>4 DEF WorkersAreBacked
<1> QED BY <1>2, <1>5, <1>6

\* A worker's step keeps types and backing.
LEMMA StepKeepsBacked ==
  ASSUME BackedInv, NEW w \in Workers, SyncStep(w)
  PROVE  BackedInv'
<1> USE DEF WorkerAt, WorkerTo, WorkerGoto, CountsUnchanged
<1>0. /\ CheckpointTypeOK /\ SeenRowsStay /\ WorkersAreBacked /\ CursorIsBacked
      /\ ProcessOf[w] \in Processes /\ MaxPages \in Nat /\ MaxSyncs \in Nat /\ MaxOutages \in Nat
  BY CheckpointAssumption DEF BackedInv
<1>a. Busy(w) => /\ worker[w] \in Syncing
                 /\ 1 .. worker[w].pos \subseteq canonical[worker[w].mode]
                 /\ worker[w].seen # NoRow => rows[worker[w].mode] # NoRow
  BY <1>0, BusyWorker DEF SeenRowsStay, WorkersAreBacked
<1>b. Busy(w) <=> worker[w].at # "idle"
  BY DEF Busy
<1>c. Waiting # [at |-> "load"] /\ \A r \in Syncing : r # Waiting
  BY DEF Waiting, Syncing
<1>1. CASE Acquire(w)
  <2>1. PICK m \in Modes : worker' = [worker EXCEPT ![w] = [at |-> "load", mode |-> m, pos |-> 0, seen |-> NoRow]]
    BY <1>1 DEF Acquire
  <2> DEFINE r == [at |-> "load", mode |-> m, pos |-> 0, seen |-> NoRow]
  <2>2. r \in Syncing
    BY <1>0 DEF Syncing
  <2>3. UNCHANGED <<rows, canonical>> /\ 1 .. 0 = {}
    BY <1>1 DEF Acquire
  <2>4. worker' \in [Workers -> Syncing \union {Waiting}] /\ SeenRowsStay' /\ WorkersAreBacked'
    BY <2>1, <2>2, <2>3, OneWorkerMoves
  <2>5. CheckpointTypeOK'
    BY <1>0, <1>1, <2>4 DEF CheckpointTypeOK, Acquire
  <2> QED BY <1>0, <2>3, <2>4, <2>5 DEF BackedInv, CursorIsBacked
<1>2. CASE Load(w)
  <2> DEFINE p == IF rows[worker[w].mode] = NoRow THEN 0 ELSE rows[worker[w].mode].pos
             r == [worker[w] EXCEPT !.at = "page", !.pos = p]
  <2>1. worker[w] \in Syncing /\ worker[w].mode \in Modes
    BY <1>2, <1>a, <1>b DEF Load, Syncing
  <2>2. p \in 0 .. MaxPages /\ 1 .. p \subseteq canonical[worker[w].mode]
    BY <1>0, <2>1 DEF CheckpointTypeOK, Rows, CursorIsBacked
  <2>3. r \in Syncing /\ r.mode = worker[w].mode /\ r.pos = p /\ r.seen = worker[w].seen
    <3> HIDE DEF p
    <3> QED BY <2>1, <2>2 DEF Syncing
  <2>4. UNCHANGED <<rows, canonical>> /\ worker' = [worker EXCEPT ![w] = r]
    BY <1>2 DEF Load
  <2>5. worker' \in [Workers -> Syncing \union {Waiting}] /\ SeenRowsStay' /\ WorkersAreBacked'
    <3>1. Busy(w)
      BY <1>2, <1>b DEF Load
    <3>2. /\ 1 .. r.pos \subseteq canonical'[r.mode]
          /\ r.seen # NoRow => rows'[r.mode] # NoRow
      <4> HIDE DEF r, p
      <4> QED BY <1>a, <2>2, <2>3, <2>4, <3>1
    <3>3. /\ \A m \in Modes : canonical[m] \subseteq canonical'[m]
          /\ \A m \in Modes : rows[m] # NoRow => rows'[m] # NoRow
      BY <2>4
    <3> HIDE DEF r, p
    <3> QED BY <2>3, <2>4, <3>2, <3>3, OneWorkerMoves
  <2>6. CheckpointTypeOK'
    BY <1>0, <1>2, <2>5 DEF CheckpointTypeOK, Load
  <2> QED BY <1>0, <2>4, <2>5, <2>6 DEF BackedInv, CursorIsBacked
<1>3. CASE CommitCanonical(w)
  <2> DEFINE q == worker[w].pos + 1
             r == [worker[w] EXCEPT !.at = "read", !.pos = q]
             m == worker[w].mode
  <2>1. worker[w] \in Syncing /\ m \in Modes /\ worker[w].pos \in Nat /\ q \in 1 .. MaxPages
    BY <1>0, <1>3, <1>a, <1>b DEF CommitCanonical, Syncing
  <2>2. r \in Syncing /\ r.mode = m /\ r.pos = q /\ r.seen = worker[w].seen
    <3>1. worker[w] \in Syncing /\ q \in 0 .. MaxPages
      BY <1>0, <2>1
    <3> HIDE DEF q
    <3> QED BY <3>1 DEF Syncing
  <2>3. /\ UNCHANGED rows /\ worker' = [worker EXCEPT ![w] = r]
        /\ canonical' = [canonical EXCEPT ![m] = canonical[m] \union {q}]
    BY <1>3 DEF CommitCanonical
  <2>4. /\ canonical' \in [Modes -> SUBSET (1 .. MaxPages)]
        /\ canonical'[m] = canonical[m] \union {q}
        /\ \A x \in Modes : canonical[x] \subseteq canonical'[x]
    <3> HIDE DEF q
    <3> QED BY <1>0, <2>1, <2>3 DEF CheckpointTypeOK
  <2>5. 1 .. q \subseteq canonical'[m]
    <3>1. 1 .. q \subseteq 1 .. worker[w].pos \union {q}
      BY <2>1
    <3> QED BY <1>3, <1>a, <1>b, <2>4, <3>1 DEF CommitCanonical
  <2>6. worker' \in [Workers -> Syncing \union {Waiting}] /\ SeenRowsStay' /\ WorkersAreBacked'
    <3>1. Busy(w)
      BY <1>3, <1>b DEF CommitCanonical
    <3> HIDE DEF r, q
    <3> QED BY <1>a, <2>2, <2>3, <2>4, <2>5, <3>1, OneWorkerMoves
  <2>7. CheckpointTypeOK'
    BY <1>0, <1>3, <2>4, <2>6 DEF CheckpointTypeOK, CommitCanonical
  <2>8. CursorIsBacked'
    BY <1>0, <2>3, <2>4 DEF CursorIsBacked
  <2> QED BY <2>6, <2>7, <2>8 DEF BackedInv
<1>4. CASE PageFails(w)
  <2> DEFINE r == [worker[w] EXCEPT !.at = "failed"]
  <2>1. worker[w] \in Syncing
    BY <1>4, <1>a, <1>b DEF PageFails
  <2>2. r \in Syncing /\ r.mode = worker[w].mode /\ r.pos = worker[w].pos /\ r.seen = worker[w].seen
    BY <2>1 DEF Syncing
  <2>3. UNCHANGED <<rows, canonical>> /\ worker' = [worker EXCEPT ![w] = r]
    BY <1>4 DEF PageFails
  <2>4. worker' \in [Workers -> Syncing \union {Waiting}] /\ SeenRowsStay' /\ WorkersAreBacked'
    <3>1. Busy(w)
      BY <1>4, <1>b DEF PageFails
    <3>2. /\ 1 .. r.pos \subseteq canonical'[r.mode]
          /\ r.seen # NoRow => rows'[r.mode] # NoRow
      <4> HIDE DEF r
      <4> QED BY <1>a, <2>2, <2>3, <3>1
    <3>3. /\ \A m \in Modes : canonical[m] \subseteq canonical'[m]
          /\ \A m \in Modes : rows[m] # NoRow => rows'[m] # NoRow
      BY <2>3
    <3> HIDE DEF r
    <3> QED BY <2>2, <2>3, <3>2, <3>3, OneWorkerMoves
  <2>5. CheckpointTypeOK'
    BY <1>0, <1>4, <2>4 DEF CheckpointTypeOK, PageFails
  <2> QED BY <1>0, <2>3, <2>4, <2>5 DEF BackedInv, CursorIsBacked
<1>5. CASE ReadRow(w) \/ ReadRowForError(w)
  <2> DEFINE row == rows[worker[w].mode]
  <2>1. worker[w] \in Syncing /\ row \in Rows \union {NoRow}
    BY <1>0, <1>5, <1>a, <1>b DEF ReadRow, ReadRowForError, CheckpointTypeOK, Syncing
  <2>2. PICK a \in {"write", "note"} : worker' = [worker EXCEPT ![w] = [worker[w] EXCEPT !.at = a, !.seen = row]]
    BY <1>5 DEF ReadRow, ReadRowForError
  <2> DEFINE r == [worker[w] EXCEPT !.at = a, !.seen = row]
  <2>3. r \in Syncing /\ r.mode = worker[w].mode /\ r.pos = worker[w].pos /\ r.seen = row
    <3> HIDE DEF row
    <3> QED BY <2>1 DEF Syncing
  <2>4. UNCHANGED <<syncLock, rows, canonical, syncs, outages, crossed>> /\ worker' = [worker EXCEPT ![w] = r]
    BY <1>5, <2>2 DEF ReadRow, ReadRowForError
  <2>5. worker' \in [Workers -> Syncing \union {Waiting}] /\ SeenRowsStay' /\ WorkersAreBacked'
    <3>1. Busy(w)
      BY <1>5, <1>b DEF ReadRow, ReadRowForError
    <3>2. /\ 1 .. r.pos \subseteq canonical'[r.mode]
          /\ r.seen # NoRow => rows'[r.mode] # NoRow
      <4> HIDE DEF r
      <4> QED BY <1>a, <2>3, <2>4, <3>1
    <3>3. /\ \A m \in Modes : canonical[m] \subseteq canonical'[m]
          /\ \A m \in Modes : rows[m] # NoRow => rows'[m] # NoRow
      BY <2>4
    <3> HIDE DEF r
    <3> QED BY <2>3, <2>4, <3>2, <3>3, OneWorkerMoves
  <2>6. CheckpointTypeOK'
    BY <1>0, <2>4, <2>5 DEF CheckpointTypeOK
  <2> QED BY <1>0, <2>4, <2>5, <2>6 DEF BackedInv, CursorIsBacked
<1>6. CASE WriteRow(w)
  <2> DEFINE old == worker[w]
             new == Advanced(old.seen, rows[old.mode], old.pos)
             r   == [old EXCEPT !.at = "page", !.seen = NoRow]
  <2>1. old \in Syncing /\ old.mode \in Modes /\ Busy(w)
    BY <1>6, <1>a, <1>b DEF WriteRow, Syncing
  <2>2. /\ new \in Rows
        /\ 1 .. new.pos \subseteq canonical[old.mode]
    <3>1. /\ old.seen \in Rows \union {NoRow} /\ rows[old.mode] \in Rows \union {NoRow}
          /\ old.pos \in 0 .. MaxPages
          /\ old.seen # NoRow => rows[old.mode] # NoRow
      BY <1>0, <1>a, <2>1 DEF CheckpointTypeOK, Syncing
    <3>2. new \in Rows /\ (new.pos = old.pos \/ (rows[old.mode] # NoRow /\ new.pos = rows[old.mode].pos))
      <4> HIDE DEF old
      <4>1. /\ new \in Rows
            /\ old.seen = NoRow => new.pos = old.pos
            /\ old.seen # NoRow => new.pos = IF old.pos # old.seen.pos THEN old.pos ELSE rows[old.mode].pos
        BY <3>1, AdvancedRow
      <4> HIDE DEF new
      <4> QED BY <3>1, <4>1
    <3> HIDE DEF new, old
    <3>3. 1 .. old.pos \subseteq canonical[old.mode]
      BY <1>a, <2>1 DEF old
    <3> QED BY <1>0, <2>1, <3>2, <3>3 DEF CursorIsBacked
  <2>3. r \in Syncing /\ r.mode = old.mode /\ r.pos = old.pos /\ r.seen = NoRow
    BY <2>1 DEF Syncing
  <2>4. /\ UNCHANGED <<syncLock, canonical, syncs, outages, crossed>> /\ worker' = [worker EXCEPT ![w] = r]
        /\ rows' = [rows EXCEPT ![old.mode] = new]
    BY <1>6 DEF WriteRow
  <2> HIDE DEF new, r, old
  <2>5. /\ rows' \in [Modes -> Rows \union {NoRow}] /\ NoRow \notin Rows
        /\ \A m \in Modes : rows[m] # NoRow => rows'[m] # NoRow
    BY <1>0, <2>1, <2>2, <2>4, CheckpointAssumption DEF CheckpointTypeOK, Rows
  <2>6. worker' \in [Workers -> Syncing \union {Waiting}] /\ SeenRowsStay' /\ WorkersAreBacked'
    BY <1>a, <2>1, <2>3, <2>4, <2>5, OneWorkerMoves DEF old
  <2>7. CheckpointTypeOK'
    BY <1>0, <2>4, <2>5, <2>6 DEF CheckpointTypeOK
  <2>8. CursorIsBacked'
    BY <1>0, <2>1, <2>2, <2>4 DEF CursorIsBacked, CheckpointTypeOK
  <2> QED BY <2>6, <2>7, <2>8 DEF BackedInv
<1>7. CASE RecordError(w)
  <2> DEFINE old == worker[w]
             new == Noted(old.seen, rows[old.mode], old.pos)
  <2>1. old \in Syncing /\ old.mode \in Modes /\ Busy(w)
    BY <1>7, <1>a, <1>b DEF RecordError, Syncing
  <2>2. /\ new \in Rows
        /\ 1 .. new.pos \subseteq canonical[old.mode]
    <3>1. /\ old.seen \in Rows \union {NoRow} /\ rows[old.mode] \in Rows \union {NoRow}
          /\ old.pos \in 0 .. MaxPages
          /\ old.seen # NoRow => rows[old.mode] # NoRow
      BY <1>0, <1>a, <2>1 DEF CheckpointTypeOK, Syncing
    <3>2. new \in Rows /\ (new.pos = 0 \/ (rows[old.mode] # NoRow /\ new.pos = rows[old.mode].pos))
      <4> HIDE DEF old
      <4> QED BY <3>1, NotedRow
    <3> HIDE DEF new, old
    <3>3. 1 .. 0 = {}
      OBVIOUS
    <3> QED BY <1>0, <2>1, <3>2, <3>3 DEF CursorIsBacked
  <2>3. /\ UNCHANGED <<canonical, syncs, outages, crossed>> /\ worker' = [worker EXCEPT ![w] = Waiting]
        /\ syncLock' \in [Processes -> Workers \union {Nobody}]
        /\ rows' = [rows EXCEPT ![old.mode] = new]
    BY <1>0, <1>7 DEF RecordError, Leaves, CheckpointTypeOK
  <2> HIDE DEF new, old
  <2>4. /\ rows' \in [Modes -> Rows \union {NoRow}] /\ NoRow \notin Rows
        /\ \A m \in Modes : rows[m] # NoRow => rows'[m] # NoRow
    BY <1>0, <2>1, <2>2, <2>3, CheckpointAssumption DEF CheckpointTypeOK, Rows
  <2>5. worker' \in [Workers -> Syncing \union {Waiting}] /\ SeenRowsStay' /\ WorkersAreBacked'
    BY <2>3, <2>4, OneWorkerMoves
  <2>6. CheckpointTypeOK'
    BY <1>0, <2>3, <2>4, <2>5 DEF CheckpointTypeOK
  <2>7. CursorIsBacked'
    BY <1>0, <2>1, <2>2, <2>3 DEF CursorIsBacked, CheckpointTypeOK
  <2> QED BY <2>5, <2>6, <2>7 DEF BackedInv
<1>8. CASE Refused(w) \/ Release(w)
  <2>1. /\ UNCHANGED <<rows, canonical, syncs, outages, crossed>> /\ worker' = [worker EXCEPT ![w] = Waiting]
        /\ syncLock' \in [Processes -> Workers \union {Nobody}]
    BY <1>0, <1>8 DEF Refused, Release, Leaves, CheckpointTypeOK
  <2>2. worker' \in [Workers -> Syncing \union {Waiting}] /\ SeenRowsStay' /\ WorkersAreBacked'
    BY <2>1, OneWorkerMoves
  <2>3. CheckpointTypeOK'
    BY <1>0, <2>1, <2>2 DEF CheckpointTypeOK
  <2> QED BY <1>0, <2>1, <2>2, <2>3 DEF BackedInv, CursorIsBacked
<1> QED BY <1>1, <1>2, <1>3, <1>4, <1>5, <1>6, <1>7, <1>8 DEF SyncStep

\* The death of a process, and no step at all, keep them too.
LEMMA DeathKeepsBacked ==
  ASSUME BackedInv, NEW p \in Processes, ProcessDies(p)
  PROVE  BackedInv'
<1>1. CheckpointTypeOK /\ SeenRowsStay /\ WorkersAreBacked /\ CursorIsBacked
  BY DEF BackedInv
<1>2. /\ UNCHANGED <<rows, canonical, syncs, crossed>>
      /\ worker' = [w \in Workers |-> IF ProcessOf[w] = p THEN Waiting ELSE worker[w]]
  BY DEF ProcessDies
<1>3. CheckpointTypeOK'
  BY <1>1, <1>2, CheckpointAssumption DEF CheckpointTypeOK, ProcessDies
<1>4. \A w \in Workers : Busy(w)' => Busy(w) /\ worker'[w] = worker[w]
  BY <1>2 DEF Busy, WorkerAt, Waiting
<1> QED BY <1>1, <1>2, <1>3, <1>4 DEF BackedInv, SeenRowsStay, WorkersAreBacked, CursorIsBacked

LEMMA RestKeepsBacked ==
  ASSUME BackedInv, UNCHANGED checkpointVars
  PROVE  BackedInv'
BY DEF checkpointVars, BackedInv, CheckpointTypeOK, SeenRowsStay, WorkersAreBacked, CursorIsBacked,
       Busy, WorkerAt

LEMMA BackedInitially == CheckpointInit => BackedInv
<1> SUFFICES ASSUME CheckpointInit PROVE BackedInv
  OBVIOUS
<1>1. CheckpointTypeOK
  <2>1. 0 \in 0 .. MaxSyncs /\ 0 \in 0 .. MaxOutages
    BY CheckpointAssumption
  <2> QED BY <2>1 DEF CheckpointInit, CheckpointTypeOK
<1>2. \A w \in Workers : ~Busy(w)
  BY DEF CheckpointInit, Busy, WorkerAt, Waiting
<1>3. CursorIsBacked
  BY DEF CheckpointInit, CursorIsBacked
<1> QED BY <1>1, <1>2, <1>3 DEF BackedInv, SeenRowsStay, WorkersAreBacked

LEMMA BackedStep == BackedInv /\ [CheckpointNext]_checkpointVars => BackedInv'
BY StepKeepsBacked, DeathKeepsBacked, RestKeepsBacked DEF CheckpointNext

THEOREM BackedInvariance == CheckpointSpec => []BackedInv
BY BackedInitially, BackedStep, PTL DEF CheckpointSpec

\* Locks, rows, committed pages and workers are typed in every state.
THEOREM CheckpointTypeCorrect == CheckpointSpec => []CheckpointTypeOK
<1>1. BackedInv => CheckpointTypeOK
  BY DEF BackedInv
<1> QED BY <1>1, BackedInvariance, PTL

\* No checkpoint stands past a page whose canonical transaction did not commit,
\* for any number of processes that write over each other's rows.
THEOREM CursorBacked == CheckpointSpec => []CursorIsBacked
<1>1. BackedInv => CursorIsBacked
  BY DEF BackedInv
<1> QED BY <1>1, BackedInvariance, PTL

-----------------------------------------------------------------------------
(* Checkpoints do not go back                                              *)

\* Apart from Acquire, a step is one of a busy worker, and makes nobody busy.
LEMMA BusyStep ==
  ASSUME CheckpointTypeOK, NEW w \in Workers, SyncStep(w), ~Acquire(w)
  PROVE  /\ Busy(w) /\ crossed' = crossed
         /\ \A v \in Workers : v # w => worker'[v] = worker[v]
         /\ Busy(w)' => UNCHANGED syncLock
         /\ ~Busy(w)' => syncLock' = [syncLock EXCEPT ![ProcessOf[w]] = Nobody]
<1> USE DEF WorkerAt, WorkerTo, WorkerGoto, CountsUnchanged, Busy, Waiting
<1>1. CASE Load(w) \/ CommitCanonical(w) \/ PageFails(w) \/ ReadRow(w) \/ WriteRow(w) \/ ReadRowForError(w)
  <2>1. worker[w].at # "idle" /\ UNCHANGED <<syncLock, crossed>>
    BY <1>1 DEF Load, CommitCanonical, PageFails, ReadRow, WriteRow, ReadRowForError
  <2>2. worker[w] \in Syncing
    BY <1>1, <2>1, BusyWorker
  <2>3. CASE Load(w)
    BY <2>1, <2>2, <2>3 DEF Load, Syncing, CheckpointTypeOK
  <2>4. CASE CommitCanonical(w)
    BY <2>1, <2>2, <2>4 DEF CommitCanonical, Syncing, CheckpointTypeOK
  <2>5. CASE PageFails(w)
    BY <2>1, <2>2, <2>5 DEF PageFails, Syncing, CheckpointTypeOK
  <2>6. CASE ReadRow(w)
    BY <2>1, <2>2, <2>6 DEF ReadRow, Syncing, CheckpointTypeOK
  <2>7. CASE WriteRow(w)
    BY <2>1, <2>2, <2>7 DEF WriteRow, Syncing, CheckpointTypeOK
  <2>8. CASE ReadRowForError(w)
    BY <2>1, <2>2, <2>8 DEF ReadRowForError, Syncing, CheckpointTypeOK
  <2> QED BY <1>1, <2>3, <2>4, <2>5, <2>6, <2>7, <2>8
<1>2. CASE RecordError(w) \/ Refused(w) \/ Release(w)
  <2>1. worker[w].at # "idle" /\ UNCHANGED crossed
    BY <1>2 DEF RecordError, Refused, Release
  <2>2. /\ worker' = [worker EXCEPT ![w] = Waiting]
        /\ syncLock' = [syncLock EXCEPT ![ProcessOf[w]] = Nobody]
    BY <1>2 DEF RecordError, Refused, Release, Leaves
  <2> QED BY <2>1, <2>2 DEF CheckpointTypeOK
<1> QED BY <1>1, <1>2 DEF SyncStep

\* Who begins begins alone in its process, and counts as crossed otherwise.
LEMMA AcquireKeepsLocks ==
  ASSUME ForwardInv, NEW w \in Workers, Acquire(w)
  PROVE  LockHeld' /\ OneAtOnce' /\ NotBehind'
<1>1. CheckpointTypeOK /\ LockHeld /\ ProcessOf[w] \in Processes
  BY CheckpointAssumption DEF ForwardInv, BackedInv
<1>2. /\ syncLock[ProcessOf[w]] = Nobody
      /\ syncLock' = [syncLock EXCEPT ![ProcessOf[w]] = w]
      /\ ~Busy(w)
      /\ crossed' = (crossed \/ \E v \in Workers : Busy(v) /\ ProcessOf[v] # ProcessOf[w])
  BY DEF Acquire, Free, Busy
<1>3. worker'[w].at = "load" /\ \A v \in Workers : v # w => worker'[v] = worker[v]
  BY <1>1 DEF Acquire, WorkerTo, CheckpointTypeOK
<1>4. ASSUME NEW v \in Workers, Busy(v)', v # w
      PROVE  Busy(v) /\ ProcessOf[v] # ProcessOf[w]
  BY <1>1, <1>2, <1>3, <1>4, CheckpointAssumption DEF LockHeld, Busy, WorkerAt
<1>5. LockHeld'
  BY <1>1, <1>2, <1>3, <1>4, CheckpointAssumption DEF LockHeld, CheckpointTypeOK
<1>6. ~crossed' => \A v \in Workers : Busy(v)' => v = w
  BY <1>2, <1>4
<1>7. OneAtOnce' /\ NotBehind'
  BY <1>3, <1>6 DEF OneAtOnce, NotBehind, WorkerAt
<1> QED BY <1>5, <1>7

LEMMA LocksKept ==
  ASSUME ForwardInv, NEW w \in Workers, SyncStep(w), ~Acquire(w)
  PROVE  LockHeld' /\ OneAtOnce'
<1>1. CheckpointTypeOK /\ LockHeld /\ OneAtOnce /\ \A v \in Workers : ProcessOf[v] \in Processes
  BY CheckpointAssumption DEF ForwardInv, BackedInv
<1>2. /\ Busy(w) /\ crossed' = crossed
      /\ \A v \in Workers : v # w => worker'[v] = worker[v]
      /\ Busy(w)' => UNCHANGED syncLock
      /\ ~Busy(w)' => syncLock' = [syncLock EXCEPT ![ProcessOf[w]] = Nobody]
  BY <1>1, BusyStep
<1>3. \A v \in Workers : Busy(v)' => Busy(v)
  BY <1>2 DEF Busy, WorkerAt
<1>4. ASSUME NEW v \in Workers, Busy(v)'
      PROVE  syncLock'[ProcessOf[v]] = v
  <2>1. syncLock[ProcessOf[v]] = v /\ syncLock[ProcessOf[w]] = w
    BY <1>1, <1>2, <1>3, <1>4 DEF LockHeld
  <2>2. CASE Busy(w)'
    BY <1>2, <2>1, <2>2
  <2>3. CASE ~Busy(w)'
    <3>1. v # w /\ ProcessOf[v] # ProcessOf[w]
      BY <1>4, <2>1, <2>3
    <3> QED BY <1>1, <1>2, <2>1, <2>3, <3>1 DEF CheckpointTypeOK
  <2> QED BY <2>2, <2>3
<1>5. OneAtOnce'
  BY <1>1, <1>2, <1>3 DEF OneAtOnce
<1> QED BY <1>4, <1>5 DEF LockHeld

\* What an undisturbed writer writes: its own position over one no greater; an
\* error leaves the position that was there.
LEMMA UndisturbedWrite ==
  ASSUME ForwardInv, NEW w \in Workers, ~crossed
  PROVE  /\ WriteRow(w) =>
              /\ rows' = [rows EXCEPT ![worker[w].mode] = rows'[worker[w].mode]]
              /\ rows'[worker[w].mode].pos = worker[w].pos
              /\ rows[worker[w].mode] # NoRow => rows[worker[w].mode].pos <= worker[w].pos
         /\ RecordError(w) =>
              /\ rows' = [rows EXCEPT ![worker[w].mode] = rows'[worker[w].mode]]
              /\ rows[worker[w].mode] # NoRow => rows'[worker[w].mode].pos = rows[worker[w].mode].pos
<1> DEFINE old == worker[w]
<1>1. ASSUME Busy(w)
      PROVE  /\ old \in Syncing /\ old.pos \in 0 .. MaxPages /\ old.mode \in Modes
             /\ old.seen \in Rows \union {NoRow} /\ rows[old.mode] \in Rows \union {NoRow}
  BY <1>1, BusyWorker DEF ForwardInv, BackedInv, CheckpointTypeOK, Syncing
<1>2. ASSUME old.at \in {"write", "note"}
      PROVE  /\ Busy(w) /\ old.seen = rows[old.mode]
             /\ rows[old.mode] # NoRow => rows[old.mode].pos <= old.pos
  BY <1>2 DEF ForwardInv, NotBehind, Busy, WorkerAt
<1>3. ASSUME WriteRow(w)
      PROVE  /\ rows' = [rows EXCEPT ![old.mode] = rows'[old.mode]]
             /\ rows'[old.mode].pos = old.pos
  <2> DEFINE new == Advanced(old.seen, rows[old.mode], old.pos)
  <2>1. rows' = [rows EXCEPT ![old.mode] = new] /\ old.at = "write"
    BY <1>3 DEF WriteRow, WorkerAt
  <2>2. /\ old.seen = NoRow => new.pos = old.pos
        /\ old.seen # NoRow => new.pos = IF old.pos # old.seen.pos THEN old.pos ELSE rows[old.mode].pos
    <3>1. /\ old.pos \in 0 .. MaxPages /\ old.seen \in Rows \union {NoRow}
          /\ rows[old.mode] \in Rows \union {NoRow} /\ (old.seen # NoRow => rows[old.mode] # NoRow)
      BY <1>1, <1>2, <2>1
    <3> HIDE DEF old
    <3> QED BY <3>1, AdvancedRow
  <2> HIDE DEF new
  <2>3. new.pos = old.pos
    BY <1>2, <2>1, <2>2
  <2>4. rows'[old.mode] = new
    BY <1>1, <1>2, <2>1 DEF ForwardInv, BackedInv, CheckpointTypeOK
  <2> QED BY <2>1, <2>3, <2>4
<1>4. ASSUME RecordError(w)
      PROVE  /\ rows' = [rows EXCEPT ![old.mode] = rows'[old.mode]]
             /\ rows[old.mode] # NoRow => rows'[old.mode].pos = rows[old.mode].pos
  <2> DEFINE new == Noted(old.seen, rows[old.mode], old.pos)
  <2>1. rows' = [rows EXCEPT ![old.mode] = new] /\ old.at = "note"
    BY <1>4 DEF RecordError, WorkerAt
  <2>2. old.seen # NoRow => new.pos = rows[old.mode].pos
    <3>1. /\ old.pos \in 0 .. MaxPages /\ old.seen \in Rows \union {NoRow}
          /\ rows[old.mode] \in Rows \union {NoRow} /\ (old.seen # NoRow => rows[old.mode] # NoRow)
      BY <1>1, <1>2, <2>1
    <3> HIDE DEF old
    <3> QED BY <3>1, NotedRow
  <2> HIDE DEF new
  <2>3. rows'[old.mode] = new
    BY <1>1, <1>2, <2>1 DEF ForwardInv, BackedInv, CheckpointTypeOK
  <2> QED BY <1>2, <2>1, <2>2, <2>3
<1>5. ASSUME WriteRow(w)
      PROVE  rows[old.mode] # NoRow => rows[old.mode].pos <= old.pos
  BY <1>2, <1>5 DEF WriteRow, WorkerAt
<1> QED BY <1>3, <1>4, <1>5

\* The one busy worker stays at or past its row, and has seen it as it is.
LEMMA StepKeepsNotBehind ==
  ASSUME ForwardInv, BackedInv', NEW w \in Workers, SyncStep(w), ~Acquire(w)
  PROVE  NotBehind'
<1> USE DEF WorkerAt, WorkerTo, WorkerGoto, CountsUnchanged
<1> SUFFICES ASSUME ~crossed', NEW v \in Workers, Busy(v)', worker'[v].at # "load"
             PROVE  /\ rows'[worker'[v].mode] # NoRow => rows'[worker'[v].mode].pos <= worker'[v].pos
                    /\ worker'[v].at \in {"write", "note"} => worker'[v].seen = rows'[worker'[v].mode]
  BY DEF NotBehind
<1>0. CheckpointTypeOK /\ OneAtOnce
  BY DEF ForwardInv, BackedInv
<1>1. v = w /\ ~crossed /\ Busy(w)
  BY <1>0, BusyStep DEF OneAtOnce, Busy
<1> DEFINE old == worker[w]
<1>2. /\ old \in Syncing /\ old.mode \in Modes /\ old.pos \in 0 .. MaxPages
      /\ rows \in [Modes -> Rows \union {NoRow}] /\ worker \in [Workers -> Syncing \union {Waiting}]
  BY <1>0, <1>1, BusyWorker DEF CheckpointTypeOK, Syncing
<1>3. old.at # "load" /\ old.at # "idle" =>
        /\ rows[old.mode] # NoRow => rows[old.mode].pos <= old.pos
        /\ old.at \in {"write", "note"} => old.seen = rows[old.mode]
  BY <1>1 DEF ForwardInv, NotBehind, Busy
<1>4. \A m \in Modes : rows[m] # NoRow => rows[m].pos \in 0 .. MaxPages
  BY <1>2 DEF Rows
<1>5. CASE Load(w)
  <2> DEFINE p == IF rows[old.mode] = NoRow THEN 0 ELSE rows[old.mode].pos
  <2>1. /\ worker' = [worker EXCEPT ![w] = [old EXCEPT !.at = "page", !.pos = p]]
        /\ rows' = rows /\ p \in 0 .. MaxPages
        /\ rows[old.mode] # NoRow => p = rows[old.mode].pos
    BY <1>2, <1>4, <1>5, CheckpointAssumption DEF Load
  <2> HIDE DEF p
  <2>2. worker'[w].at = "page" /\ worker'[w].mode = old.mode /\ worker'[w].pos = p
    BY <1>2, <2>1 DEF Syncing
  <2>3. p <= p
    BY <2>1
  <2> QED BY <1>1, <2>1, <2>2, <2>3
<1>6. CASE CommitCanonical(w)
  <2> DEFINE q == old.pos + 1
  <2>1. /\ worker' = [worker EXCEPT ![w] = [old EXCEPT !.at = "read", !.pos = q]]
        /\ rows' = rows /\ old.at = "page"
    BY <1>6 DEF CommitCanonical
  <2>2. worker'[w].at = "read" /\ worker'[w].mode = old.mode /\ worker'[w].pos = q
    <3> HIDE DEF q
    <3> QED BY <1>2, <2>1 DEF Syncing
  <2>3. rows[old.mode] # NoRow => rows[old.mode].pos <= q
    <3>1. rows[old.mode] # NoRow => rows[old.mode].pos <= old.pos /\ rows[old.mode].pos \in Nat
      BY <1>2, <1>3, <1>4, <2>1
    <3> QED BY <1>2, <3>1
  <2> QED BY <1>1, <2>1, <2>2, <2>3
<1>7. CASE PageFails(w)
  <2>1. worker' = [worker EXCEPT ![w].at = "failed"] /\ rows' = rows /\ old.at = "page"
    BY <1>7 DEF PageFails
  <2>2. worker'[w].at = "failed" /\ worker'[w].mode = old.mode /\ worker'[w].pos = old.pos
    BY <1>2, <2>1 DEF Syncing
  <2> QED BY <1>1, <1>3, <2>1, <2>2
<1>8. CASE ReadRow(w) \/ ReadRowForError(w)
  <2> DEFINE row == rows[old.mode]
  <2>1. PICK a \in {"write", "note"} : worker' = [worker EXCEPT ![w] = [old EXCEPT !.at = a, !.seen = row]]
    BY <1>8 DEF ReadRow, ReadRowForError
  <2>2. rows' = rows /\ old.at \in {"read", "failed"}
    BY <1>8 DEF ReadRow, ReadRowForError
  <2>3. worker'[w].mode = old.mode /\ worker'[w].pos = old.pos /\ worker'[w].seen = row
    <3> HIDE DEF row
    <3> QED BY <1>2, <2>1 DEF Syncing
  <2> QED BY <1>1, <1>3, <2>2, <2>3
<1>9. CASE WriteRow(w)
  <2>1. worker' = [worker EXCEPT ![w] = [old EXCEPT !.at = "page", !.seen = NoRow]]
    BY <1>9 DEF WriteRow
  <2>2. worker'[w].at = "page" /\ worker'[w].mode = old.mode /\ worker'[w].pos = old.pos
    BY <1>2, <2>1 DEF Syncing
  <2>3. rows'[old.mode].pos = old.pos
    BY <1>1, <1>9, UndisturbedWrite
  <2> QED BY <1>1, <1>2, <2>2, <2>3
<1>10. CASE RecordError(w) \/ Refused(w) \/ Release(w)
  <2>1. worker'[w] = Waiting
    BY <1>2, <1>10 DEF RecordError, Refused, Release, Leaves
  <2> QED BY <1>1, <2>1 DEF Busy, Waiting
<1> QED BY <1>5, <1>6, <1>7, <1>8, <1>9, <1>10 DEF SyncStep

LEMMA DeathKeepsForward ==
  ASSUME ForwardInv, NEW p \in Processes, ProcessDies(p)
  PROVE  LockHeld' /\ OneAtOnce' /\ NotBehind'
<1>1. CheckpointTypeOK /\ LockHeld /\ OneAtOnce /\ NotBehind
  BY DEF ForwardInv, BackedInv
<1>2. /\ UNCHANGED <<rows, crossed>> /\ syncLock' = [syncLock EXCEPT ![p] = Nobody]
      /\ worker' = [w \in Workers |-> IF ProcessOf[w] = p THEN Waiting ELSE worker[w]]
  BY DEF ProcessDies
<1>3. ASSUME NEW w \in Workers, Busy(w)'
      PROVE  Busy(w) /\ worker'[w] = worker[w] /\ syncLock'[ProcessOf[w]] = syncLock[ProcessOf[w]]
  BY <1>1, <1>2, <1>3, CheckpointAssumption DEF Busy, WorkerAt, Waiting, CheckpointTypeOK
<1> QED BY <1>1, <1>2, <1>3 DEF LockHeld, OneAtOnce, NotBehind, WorkerAt

LEMMA RestKeepsForward ==
  ASSUME ForwardInv, UNCHANGED checkpointVars
  PROVE  LockHeld' /\ OneAtOnce' /\ NotBehind'
BY DEF checkpointVars, ForwardInv, LockHeld, OneAtOnce, NotBehind, Busy, WorkerAt

LEMMA ForwardInitially == CheckpointInit => ForwardInv
<1> SUFFICES ASSUME CheckpointInit PROVE ForwardInv
  OBVIOUS
<1>1. \A w \in Workers : ~Busy(w)
  BY DEF CheckpointInit, Busy, WorkerAt, Waiting
<1> QED BY <1>1, BackedInitially DEF ForwardInv, LockHeld, OneAtOnce, NotBehind

LEMMA ForwardStep == ForwardInv /\ [CheckpointNext]_checkpointVars => ForwardInv'
<1> SUFFICES ASSUME ForwardInv, [CheckpointNext]_checkpointVars PROVE ForwardInv'
  OBVIOUS
<1>1. BackedInv'
  BY BackedStep DEF ForwardInv
<1>2. ASSUME NEW w \in Workers, SyncStep(w)
      PROVE  LockHeld' /\ OneAtOnce' /\ NotBehind'
  BY <1>1, <1>2, AcquireKeepsLocks, LocksKept, StepKeepsNotBehind
<1> QED BY <1>1, <1>2, DeathKeepsForward, RestKeepsForward DEF CheckpointNext, ForwardInv

THEOREM ForwardInvariance == CheckpointSpec => []ForwardInv
BY ForwardInitially, ForwardStep, PTL DEF CheckpointSpec

\* Of the steps only WriteRow and RecordError touch a row.
LEMMA StepsGoForward ==
  ASSUME ForwardInv, [CheckpointNext]_checkpointVars
  PROVE  \A m \in Modes :
           (rows[m] # NoRow /\ ~crossed') => rows'[m] # NoRow /\ rows'[m].pos >= rows[m].pos
<1>1. CheckpointTypeOK
  BY DEF ForwardInv, BackedInv
<1>2. \A m \in Modes : rows[m] # NoRow => rows[m].pos \in Nat
  BY <1>1 DEF CheckpointTypeOK, Rows
<1>3. CASE rows' = rows
  BY <1>2, <1>3
<1>4. ASSUME NEW w \in Workers, WriteRow(w) \/ RecordError(w),
             NEW m \in Modes, rows[m] # NoRow, ~crossed'
      PROVE  rows'[m] # NoRow /\ rows'[m].pos >= rows[m].pos
  <2>1. ~crossed /\ SyncStep(w)
    BY <1>4 DEF WriteRow, RecordError, CountsUnchanged, SyncStep
  <2>2. rows'[m] # NoRow
    <3>1. worker[w] \in Syncing /\ worker[w].mode \in Modes
      BY <1>1, <1>4, BusyWorker DEF WriteRow, RecordError, Busy, WorkerAt, Syncing
    <3>2. CASE m = worker[w].mode
      <4> DEFINE old == worker[w]
      <4>1. /\ old.seen \in Rows \union {NoRow} /\ rows[old.mode] \in Rows /\ old.pos \in 0 .. MaxPages
        BY <1>1, <1>4, <3>1, <3>2 DEF CheckpointTypeOK, Syncing
      <4>2. Advanced(old.seen, rows[old.mode], old.pos) \in Rows /\ Noted(old.seen, rows[old.mode], old.pos) \in Rows
        <5> HIDE DEF old
        <5>1. rows[old.mode] \in Rows \union {NoRow} /\ rows[old.mode] # NoRow
          BY <4>1, CheckpointAssumption DEF Rows
        <5> QED BY <4>1, <5>1, AdvancedRow, NotedRow
      <4>3. rows'[old.mode] \in Rows
        BY <1>1, <1>4, <3>1, <4>2 DEF WriteRow, RecordError, CheckpointTypeOK
      <4> QED BY <3>2, <4>3, CheckpointAssumption DEF Rows
    <3>3. CASE m # worker[w].mode
      BY <1>1, <1>4, <3>3 DEF WriteRow, RecordError, CheckpointTypeOK
    <3> QED BY <3>2, <3>3
  <2>3. CASE m = worker[w].mode
    <3>1. CASE WriteRow(w)
      <4>1. rows'[m].pos = worker[w].pos /\ rows[m].pos <= worker[w].pos
        BY <1>4, <2>1, <2>3, <3>1, UndisturbedWrite
      <4> QED BY <1>2, <1>4, <2>2, <4>1
    <3>2. CASE RecordError(w)
      <4>1. rows'[m].pos = rows[m].pos
        BY <1>4, <2>1, <2>3, <3>2, UndisturbedWrite
      <4> QED BY <1>2, <1>4, <2>2, <4>1
    <3> QED BY <1>4, <3>1, <3>2
  <2>4. CASE m # worker[w].mode
    <3>1. rows'[m] = rows[m]
      BY <1>1, <1>4, <2>4 DEF WriteRow, RecordError, CheckpointTypeOK
    <3> QED BY <1>2, <1>4, <3>1
  <2> QED BY <2>3, <2>4
<1>5. rows' = rows \/ \E w \in Workers : WriteRow(w) \/ RecordError(w)
  BY DEF checkpointVars, CheckpointNext, SyncStep, ProcessDies, Acquire, Load, CommitCanonical, PageFails,
         ReadRow, ReadRowForError, Refused, Release
<1> QED BY <1>3, <1>4, <1>5

\* No step takes a checkpoint back while one process syncs at a time, whatever
\* fails or dies on the way.
THEOREM CursorForward == CheckpointSpec => CursorNeverGoesBack
<1>1. ForwardInv /\ [CheckpointNext]_checkpointVars =>
        [\A m \in Modes :
           (rows[m] # NoRow /\ ~crossed') => rows'[m] # NoRow /\ rows'[m].pos >= rows[m].pos]_checkpointVars
  BY StepsGoForward
<1> QED BY <1>1, ForwardInvariance, PTL DEF CheckpointSpec, CursorNeverGoesBack
=============================================================================
