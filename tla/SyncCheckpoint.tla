--------------------------- MODULE SyncCheckpoint ---------------------------
(***************************************************************************)
(* CursorStore and SyncRunLock under the protocol they ask of their        *)
(* caller: take the lock, load the checkpoint, commit a page's canonical   *)
(* transaction, and only then advance the checkpoint.  The caller itself   *)
(* is external: nothing in the app calls the store yet.                    *)
(*                                                                         *)
(* A checkpoint row belongs to a tenant, provider, resource and connection *)
(* mode; one tenant, provider and resource are modelled, with their modes. *)
(* The lock lives in a server process and does not name the mode.  A       *)
(* position stands for the cursor of an API checkpoint or the row number   *)
(* of a file checkpoint; the columns a checkpoint sets together change     *)
(* together.  Each call works on a row read in its own transaction (READ   *)
(* COMMITTED); the session writes only the columns whose value it changed. *)
(***************************************************************************)
EXTENDS Naturals

CONSTANTS
  Workers,
  Processes,
  ProcessOf,      \* worker -> the server process it runs in
  Modes,          \* connection modes
  MaxPages,       \* pages of the source
  MaxSyncs,       \* bound: syncs started
  MaxOutages,     \* bound: failed pages and dead processes
  Nobody, NoRow

ASSUME CheckpointAssumption ==
  /\ ProcessOf \in [Workers -> Processes]
  /\ MaxPages \in Nat /\ MaxSyncs \in Nat /\ MaxOutages \in Nat
  /\ Nobody \notin Workers
  /\ NoRow \notin [pos : 0 .. MaxPages, version : Nat, error : BOOLEAN]

VARIABLES
  syncLock,    \* process -> the worker in _active, if any
  rows,        \* mode -> the row of sync_states, if there is one
  canonical,   \* mode -> the pages whose canonical transaction committed
  worker,      \* what a worker has in memory
  syncs, outages,
  crossed      \* history: workers of two processes were syncing at once

checkpointVars == <<syncLock, rows, canonical, worker, syncs, outages, crossed>>

-----------------------------------------------------------------------------
Rows    == [pos : 0 .. MaxPages, version : Nat, error : BOOLEAN]
Waiting == [at |-> "idle"]
Syncing == [at : {"load", "page", "read", "write", "failed", "note"},
            mode : Modes, pos : 0 .. MaxPages, seen : Rows \union {NoRow}]

CheckpointTypeOK ==
  /\ syncLock \in [Processes -> Workers \union {Nobody}]
  /\ rows \in [Modes -> Rows \union {NoRow}]
  /\ canonical \in [Modes -> SUBSET (1 .. MaxPages)]
  /\ worker \in [Workers -> Syncing \union {Waiting}]
  /\ syncs \in 0 .. MaxSyncs /\ outages \in 0 .. MaxOutages
  /\ crossed \in BOOLEAN

CheckpointInit ==
  /\ syncLock = [p \in Processes |-> Nobody]
  /\ rows = [m \in Modes |-> NoRow]
  /\ canonical = [m \in Modes |-> {}]
  /\ worker = [w \in Workers |-> Waiting]
  /\ syncs = 0 /\ outages = 0
  /\ crossed = FALSE

-----------------------------------------------------------------------------
WorkerAt(w, at)   == worker[w].at = at
WorkerTo(w, r)    == worker' = [worker EXCEPT ![w] = r]
WorkerGoto(w, at) == worker' = [worker EXCEPT ![w].at = at]
Busy(w)           == ~WorkerAt(w, "idle")
CountsUnchanged   == UNCHANGED <<syncs, outages, crossed>>

AlwaysFree(p) == p \in Processes   \* mutant: acquire does not look

Free(p) == syncLock[p] = Nobody

\* acquire, then a sync of some mode.  A worker that is refused does nothing.
Acquire(w) ==
  /\ WorkerAt(w, "idle")
  /\ syncs < MaxSyncs
  /\ Free(ProcessOf[w])
  /\ syncLock' = [syncLock EXCEPT ![ProcessOf[w]] = w]
  /\ \E m \in Modes : WorkerTo(w, [at |-> "load", mode |-> m, pos |-> 0, seen |-> NoRow])
  /\ syncs' = syncs + 1
  /\ crossed' = (crossed \/ \E v \in Workers : Busy(v) /\ ProcessOf[v] # ProcessOf[w])
  /\ UNCHANGED <<rows, canonical, outages>>

\* get: where the sync goes on.
Load(w) ==
  LET row == rows[worker[w].mode] IN
  /\ WorkerAt(w, "load")
  /\ WorkerTo(w, [worker[w] EXCEPT !.at = "page", !.pos = IF row = NoRow THEN 0 ELSE row.pos])
  /\ UNCHANGED <<syncLock, rows, canonical>> /\ CountsUnchanged

\* The canonical transaction of the next page commits.
CommitCanonical(w) ==
  LET r == worker[w] IN
  /\ WorkerAt(w, "page")
  /\ r.pos < MaxPages
  /\ canonical' = [canonical EXCEPT ![r.mode] = @ \union {r.pos + 1}]
  /\ WorkerTo(w, [r EXCEPT !.at = "read", !.pos = @ + 1])
  /\ UNCHANGED <<syncLock, rows>> /\ CountsUnchanged

\* It fails: an error is to be recorded, the position stays.
PageFails(w) ==
  /\ WorkerAt(w, "page")
  /\ worker[w].pos < MaxPages
  /\ outages < MaxOutages
  /\ outages' = outages + 1
  /\ WorkerGoto(w, "failed")
  /\ UNCHANGED <<syncLock, rows, canonical, syncs, crossed>>

\* commit_api_checkpoint and commit_file_checkpoint read the row ...
ReadRow(w) ==
  /\ WorkerAt(w, "read")
  /\ WorkerTo(w, [worker[w] EXCEPT !.at = "write", !.seen = rows[worker[w].mode]])
  /\ UNCHANGED <<syncLock, rows, canonical>> /\ CountsUnchanged

\* ... and write it: the position, no error, one version on.  Of two that
\* insert the row the second is refused by uq_sync_state_scope.
Advanced(seen, row, pos) ==
  IF seen = NoRow THEN [pos |-> pos, version |-> 1, error |-> FALSE]
  ELSE [row EXCEPT !.pos     = IF pos # seen.pos THEN pos ELSE @,
                   !.version = seen.version + 1,
                   !.error   = IF seen.error THEN FALSE ELSE @]

InsertRefused(w) == worker[w].seen = NoRow /\ rows[worker[w].mode] # NoRow

WriteRow(w) ==
  LET r == worker[w] IN
  /\ WorkerAt(w, "write")
  /\ ~InsertRefused(w)
  /\ rows' = [rows EXCEPT ![r.mode] = Advanced(r.seen, @, r.pos)]
  /\ WorkerTo(w, [r EXCEPT !.at = "page", !.seen = NoRow])
  /\ UNCHANGED <<syncLock, canonical>> /\ CountsUnchanged

\* record_error: the same, and only last_error changes.
ReadRowForError(w) ==
  /\ WorkerAt(w, "failed")
  /\ WorkerTo(w, [worker[w] EXCEPT !.at = "note", !.seen = rows[worker[w].mode]])
  /\ UNCHANGED <<syncLock, rows, canonical>> /\ CountsUnchanged

\* Mutant: the failed page counts as done.
NotedAndPassed(seen, row, pos) ==
  IF seen = NoRow THEN [pos |-> pos + 1, version |-> 0, error |-> TRUE]
                  ELSE [row EXCEPT !.pos = pos + 1, !.error = TRUE]

Noted(seen, row, pos) ==
  IF seen = NoRow THEN [pos |-> 0, version |-> 0, error |-> TRUE]
  ELSE [row EXCEPT !.error = IF seen.error THEN @ ELSE TRUE]

Leaves(w) ==
  /\ syncLock' = [syncLock EXCEPT ![ProcessOf[w]] = Nobody]
  /\ WorkerTo(w, Waiting)

RecordError(w) ==
  LET r == worker[w] IN
  /\ WorkerAt(w, "note")
  /\ ~InsertRefused(w)
  /\ rows' = [rows EXCEPT ![r.mode] = Noted(r.seen, @, r.pos)]
  /\ Leaves(w)
  /\ UNCHANGED canonical /\ CountsUnchanged

\* IntegrityError: the sync ends.
Refused(w) ==
  /\ worker[w].at \in {"write", "note"}
  /\ InsertRefused(w)
  /\ Leaves(w)
  /\ UNCHANGED <<rows, canonical>> /\ CountsUnchanged

Release(w) ==
  /\ WorkerAt(w, "page")
  /\ Leaves(w)
  /\ UNCHANGED <<rows, canonical>> /\ CountsUnchanged

\* A server process dies with its workers and its lock.
ProcessDies(p) ==
  /\ outages < MaxOutages
  /\ outages' = outages + 1
  /\ syncLock' = [syncLock EXCEPT ![p] = Nobody]
  /\ worker' = [w \in Workers |-> IF ProcessOf[w] = p THEN Waiting ELSE worker[w]]
  /\ UNCHANGED <<rows, canonical, syncs, crossed>>

SyncStep(w) ==
  \/ Acquire(w) \/ Load(w) \/ CommitCanonical(w) \/ PageFails(w) \/ ReadRow(w) \/ WriteRow(w)
  \/ ReadRowForError(w) \/ RecordError(w) \/ Refused(w) \/ Release(w)

CheckpointNext ==
  \/ \E w \in Workers : SyncStep(w)
  \/ \E p \in Processes : ProcessDies(p)

CheckpointSpec == CheckpointInit /\ [][CheckpointNext]_checkpointVars

-----------------------------------------------------------------------------
\* A checkpoint never stands past a page whose canonical transaction did not
\* commit, although two processes may move it at once and write over each
\* other, and whatever fails or dies between the page and its checkpoint.
CursorIsBacked ==
  \A m \in Modes : rows[m] # NoRow => 1 .. rows[m].pos \subseteq canonical[m]

\* A checkpoint never goes back, so that no committed page is read again, as
\* long as no two processes sync at once: the lock keeps the syncs of a process
\* apart, those of different modes too.  It does not reach another process, and
\* of two processes the later write wins.
CursorNeverGoesBack ==
  [][\A m \in Modes :
       (rows[m] # NoRow /\ ~crossed') => rows'[m] # NoRow /\ rows'[m].pos >= rows[m].pos]_checkpointVars
=============================================================================
