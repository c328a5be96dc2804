----------------------------- MODULE SnapshotIO ------------------------------
(***************************************************************************)
(* Snapshots, the transaction log and the collection of both, over runs of *)
(* a server that is closed, crashes and starts again:                      *)
(*   inodedb/blobstoredbstatesnapshotio   saving and restoring snapshots   *)
(*   gcloud/datastore/inodedbsslocator.go the rows that name them          *)
(*   gc/inodedbtxloggc, gc/inodedbssgc    collection                       *)
(*   inodedb/inodedb.go                   RestoreVersion, Sync             *)
(*   facade/otaru.go                      the order of Close               *)
(* Only versions are kept: a snapshot is the version of the state that was *)
(* encoded, the log a set of TxIDs, of which the pending ones are only in  *)
(* memory (module TxLog; TxLogIO implements it).                           *)
(* A snapshot's blob is written through the write-back cache, which keeps  *)
(* it on the local disk until it is uploaded (module CachedBlobEntry).  A  *)
(* blob that cannot be read, for this reason or another, is passed over:   *)
(* a restore may take any of the newest snapshots.                         *)
(***************************************************************************)
EXTENDS Naturals, FiniteSets, FiniteSetsExt

CONSTANTS
  MaxVersion,   \* bound: the last TxID
  MaxCrashes,   \* bound: crashes
  maxhist       \* snapshots a restore tries, and the snapshot GC keeps

ASSUME SnapshotAssumption ==
  /\ MaxVersion \in Nat \ {0}
  /\ MaxCrashes \in Nat
  /\ maxhist \in Nat \ {0}

Version == 1..MaxVersion
NoRow == 0
Live == 0     \* label of a save whose state object is still db.state

VARIABLES
  phase,        \* "running", the stages of Close, or "down"
  version,      \* db.state.version
  pending,      \* logged, not yet in Datastore
  stored,       \* the log in Datastore
  rows,         \* rows[label]: version of the snapshot the locator lists under label
  saves,        \* SaveSnapshot goroutines
  snapshotVer,
  gc,           \* threshold the log GC has found, 0 if none
  ssgc,         \* the snapshot GC has checked that a restore works
  closedAt,     \* version at a Close whose Sync succeeded, else 0 (history)
  lost,         \* the last transaction that is in a snapshot, and that a stop kept from
                \* reaching Datastore, 0 if none (history)
  faults,       \* "label": a save recorded another version than it encoded; "gap": a
                \* restore took a snapshot from which the log has a gap (history)
  crashes

history == <<closedAt, lost, crashes>>
vars == <<phase, version, pending, stored, rows, saves, snapshotVer, gc, ssgc, closedAt, lost,
          faults, crashes>>

Up == phase # "down"

(* Mkfs: NewEmptyDB saved a snapshot of version 1; its transaction is not   *)
(* written to Datastore, as Mkfs runs no sync job.                          *)
Init ==
  /\ phase = "running" /\ version = 1
  /\ pending = {} /\ stored = {}
  /\ rows = [l \in Version |-> IF l = 1 THEN 1 ELSE NoRow]
  /\ saves = {} /\ snapshotVer = 1
  /\ gc = 0 /\ ssgc = FALSE
  /\ closedAt = 0 /\ lost = 0 /\ faults = {} /\ crashes = 0

-----------------------------------------------------------------------------
(* The locator and RestoreVersion                                           *)

Labels == {l \in Version : rows[l] # NoRow}
Newer(l) == {m \in Labels : m > l}

(* Locate(n): the row with the n newer ones                                 *)
Located(n) == {l \in Labels : Cardinality(Newer(l)) = n}

NewestRow == rows[CHOOSE l \in Located(0) : TRUE]

(* RestoreSnapshot takes the newest row whose snapshot can be read, of so   *)
(* many.                                                                    *)
Kept == {l \in Labels : Cardinality(Newer(l)) < maxhist}

(* The transactions that are replayed from a snapshot of version v, whether *)
(* each fits on the one before, and the version this ends with.             *)
LogAfter(v, log) == {t \in log : t > v}
Fits(v, log) == \A t \in LogAfter(v, log) : (v + 1)..t \subseteq log
Restored(v, log) == Max(LogAfter(v, log) \cup {v})

(* A restore from row l, as far as it is the same for a rollback and a      *)
(* start.                                                                   *)
RestoreFrom(l, log) ==
  /\ version' = Restored(rows[l], log)
  /\ snapshotVer' = rows[l]
  /\ faults' = IF rows[l] < lost THEN faults \cup {"gap"} ELSE faults

-----------------------------------------------------------------------------
(* The end of a process                                                     *)

Stop(at) ==
  /\ phase' = "down"
  /\ closedAt' = at
  /\ lost' = Max({lost} \cup {t \in pending : t <= NewestRow})
  /\ pending' = {} /\ saves' = {} /\ gc' = 0 /\ ssgc' = FALSE
  /\ UNCHANGED <<version, stored, rows, snapshotVer, faults>>

-----------------------------------------------------------------------------
(* Transactions                                                             *)

SyncSaves == {s \in saves : s.by = "sync"}

(* Nothing makes a request, or Close, wait for a save of the sync job.      *)
ApplyTransaction ==
  /\ phase \in {"running", "files"}
  /\ version < MaxVersion
  /\ version' = version + 1
  /\ pending' = pending \cup {version + 1}
  /\ UNCHANGED <<phase, stored, rows, saves, snapshotVer, gc, ssgc, faults>> /\ UNCHANGED history

Detach(label) == IF label = Live THEN version ELSE label

(* A transaction that fails: a snapshot is restored, and a save in flight   *)
(* keeps the state object that was replaced; or the snapshot is newer than  *)
(* the database, or the log has a gap after it, and the process panics.     *)
RollbackTransaction ==
  /\ phase \in {"running", "files"}
  /\ \E l \in Kept :
       \/ /\ rows[l] <= version /\ Fits(rows[l], stored \cup pending)
          /\ RestoreFrom(l, stored \cup pending)
          /\ saves' = {[s EXCEPT !.label = Detach(@)] : s \in saves}
          /\ UNCHANGED <<phase, pending, stored, rows, gc, ssgc>> /\ UNCHANGED history
       \/ /\ ~(rows[l] <= version /\ Fits(rows[l], stored \cup pending))
          /\ Stop(0)
          /\ UNCHANGED crashes

(* The job that syncs the log; the one that is running when the jobs are    *)
(* stopped completes.                                                       *)
SyncLog ==
  /\ phase \in {"running", "fssync"}
  /\ pending # {}
  /\ stored' = stored \cup pending
  /\ pending' = {}
  /\ UNCHANGED <<phase, version, rows, saves, snapshotVer, gc, ssgc, faults>> /\ UNCHANGED history

-----------------------------------------------------------------------------
(* SaveSnapshot                                                             *)

(* Mutant: nothing is saved if the version is one ahead of the last save.   *)
SaveSnapshotLazy(who) ==
  saves' = IF version <= snapshotVer + 1 THEN saves
           ELSE saves \cup {[by |-> who, actual |-> version, label |-> Live, pc |-> "put"]}

(* The state is encoded at once; there is nothing to do if its version is   *)
(* believed to be saved.                                                    *)
SaveSnapshot(who) ==
  saves' = IF snapshotVer = version THEN saves
           ELSE saves \cup {[by |-> who, actual |-> version, label |-> Live, pc |-> "put"]}

(* The sync job waits for its save before it is scheduled again.            *)
TriggerSync ==
  /\ phase = "running"
  /\ \A s \in saves : s.by # "job"
  /\ snapshotVer # version
  /\ SaveSnapshot("job")
  /\ UNCHANGED <<phase, version, pending, stored, rows, snapshotVer, gc, ssgc, faults>> /\ UNCHANGED history

StateVersion(s) == IF s.label = Live THEN version ELSE s.label

(* The version is read from the state object, not from what was encoded.    *)
Labelled(s) == IF StateVersion(s) = s.actual THEN faults ELSE faults \cup {"label"}

(* The goroutine: the blob is written and its row put under the version the *)
(* state object has by now, ...                                             *)
PutSnapshot ==
  \E s \in saves :
    /\ s.pc = "put"
    /\ rows' = [rows EXCEPT ![StateVersion(s)] = s.actual]
    /\ saves' = (saves \ {s}) \cup {[s EXCEPT !.pc = "set"]}
    /\ faults' = Labelled(s)
    /\ UNCHANGED <<phase, version, pending, stored, snapshotVer, gc, ssgc>> /\ UNCHANGED history

(* ... and snapshotVer is set to the version it has after that.             *)
SnapshotSaved ==
  \E s \in saves :
    /\ s.pc = "set"
    /\ snapshotVer' = StateVersion(s)
    /\ saves' = saves \ {s}
    /\ faults' = Labelled(s)
    /\ UNCHANGED <<phase, version, pending, stored, rows, gc, ssgc>> /\ UNCHANGED history

(* A save that fails, or whose row is put and reported as failed.  Close    *)
(* goes on after a failed Sync, but reports it.                             *)
SaveFails ==
  \E s \in saves :
    /\ s.pc = "put"
    /\ \/ UNCHANGED <<rows, faults>>
       \/ rows' = [rows EXCEPT ![StateVersion(s)] = s.actual] /\ faults' = Labelled(s)
    /\ saves' = saves \ {s}
    /\ phase' = IF phase = "dbsync" /\ s.by = "sync" THEN "failed" ELSE phase
    /\ UNCHANGED <<version, pending, stored, snapshotVer, gc, ssgc>> /\ UNCHANGED history

-----------------------------------------------------------------------------
(* Collection                                                               *)

(* Mutant: the log is cut at the version the database has now.              *)
FindThresholdCurrent ==
  /\ phase = "running" /\ gc = 0
  /\ \E l \in Located(maxhist - 1) : gc' = version /\ snapshotVer' = rows[l]
  /\ UNCHANGED <<phase, version, pending, stored, rows, saves, ssgc, faults>> /\ UNCHANGED history

(* Mutant: the search resets snapshotVer.                                   *)
FindThresholdResets ==
  /\ phase = "running" /\ gc = 0
  /\ \E l \in Located(maxhist - 1) : gc' = rows[l] /\ snapshotVer' = 0
  /\ UNCHANGED <<phase, version, pending, stored, rows, saves, ssgc, faults>> /\ UNCHANGED history

(* FindUnneededTxIDThreshold restores the oldest snapshot that is kept, and *)
(* leaves its version in snapshotVer.                                       *)
FindUnneededTxIDThreshold ==
  /\ phase = "running" /\ gc = 0
  /\ \E l \in Located(maxhist - 1) : gc' = rows[l] /\ snapshotVer' = rows[l]
  /\ UNCHANGED <<phase, version, pending, stored, rows, saves, ssgc, faults>> /\ UNCHANGED history

DeleteTransactions ==
  /\ Up /\ gc # 0
  /\ pending' = {t \in pending : t >= gc}
  /\ stored' = {t \in stored : t >= gc}
  /\ gc' = 0
  /\ UNCHANGED <<phase, version, rows, saves, snapshotVer, ssgc, faults>> /\ UNCHANGED history

(* DeleteOldSnapshots: first a snapshot is read, ...                        *)
CheckRestoreSnapshot ==
  /\ phase = "running" /\ ~ssgc
  /\ \E l \in Kept : snapshotVer' = rows[l]
  /\ ssgc' = TRUE
  /\ UNCHANGED <<phase, version, pending, stored, rows, saves, gc, faults>> /\ UNCHANGED history

(* ... then all rows but the newest maxhist are deleted, with their blobs.  *)
DeleteOldSnapshots ==
  /\ Up /\ ssgc
  /\ rows' = [l \in Version |-> IF Cardinality(Newer(l)) >= maxhist THEN NoRow ELSE rows[l]]
  /\ ssgc' = FALSE
  /\ UNCHANGED <<phase, version, pending, stored, saves, snapshotVer, gc, faults>> /\ UNCHANGED history

-----------------------------------------------------------------------------
(* Otaru.Close                                                              *)

(* The jobs are stopped, saves in flight go on, and FS.Sync has the service *)
(* save a snapshot.                                                         *)
Close ==
  /\ phase = "running"
  /\ phase' = "fssync"
  /\ SaveSnapshot("sync")
  /\ UNCHANGED <<version, pending, stored, rows, snapshotVer, gc, ssgc, faults>> /\ UNCHANGED history

(* The open files are synced, which applies transactions.                   *)
SyncOpenFiles ==
  /\ phase = "fssync" /\ SyncSaves = {}
  /\ phase' = "files"
  /\ UNCHANGED <<version, pending, stored, rows, saves, snapshotVer, gc, ssgc, faults>> /\ UNCHANGED history

(* The service has quit, and IDBBE.Sync saves once more.                    *)
Quit ==
  /\ phase = "files"
  /\ phase' = "dbsync"
  /\ SaveSnapshot("sync")
  /\ UNCHANGED <<version, pending, stored, rows, snapshotVer, gc, ssgc, faults>> /\ UNCHANGED history

Exit ==
  /\ \/ phase = "dbsync" /\ SyncSaves = {} /\ Stop(version)
     \/ phase = "failed" /\ Stop(0)
  /\ UNCHANGED crashes

Crash ==
  /\ Up /\ crashes < MaxCrashes
  /\ crashes' = crashes + 1
  /\ Stop(0)

(* NewDB; if the log has a gap, the server does not start.                  *)
Restart ==
  /\ phase = "down"
  /\ \E l \in Kept : Fits(rows[l], stored) /\ RestoreFrom(l, stored)
  /\ phase' = "running"
  /\ closedAt' = 0
  /\ UNCHANGED <<pending, stored, rows, saves, gc, ssgc, lost, crashes>>

-----------------------------------------------------------------------------
Next ==
  \/ ApplyTransaction \/ RollbackTransaction \/ SyncLog
  \/ TriggerSync \/ PutSnapshot \/ SnapshotSaved \/ SaveFails
  \/ FindUnneededTxIDThreshold \/ DeleteTransactions
  \/ CheckRestoreSnapshot \/ DeleteOldSnapshots
  \/ Close \/ SyncOpenFiles \/ Quit \/ Exit
  \/ Crash \/ Restart

Spec == Init /\ [][Next]_vars

-----------------------------------------------------------------------------
TypeOK ==
  /\ phase \in {"running", "fssync", "files", "dbsync", "failed", "down"}
  /\ version \in Version
  /\ pending \subseteq Version /\ stored \subseteq Version
  /\ rows \in [Version -> Version \cup {NoRow}]
  /\ saves \subseteq [by : {"job", "sync"}, actual : Version, label : Version \cup {Live},
                      pc : {"put", "set"}]
  /\ snapshotVer \in Version
  /\ gc \in 0..MaxVersion /\ ssgc \in BOOLEAN
  /\ {closedAt, lost} \subseteq 0..MaxVersion
  /\ faults \subseteq {"label", "gap"} /\ crashes \in 0..MaxCrashes

(* A snapshot serves a restore: the log goes on from it without a gap, and  *)
(* takes it to every transaction that reached Datastore, and a rollback to  *)
(* the version the database is at.                                          *)
Serves(v) ==
  /\ Fits(v, stored) /\ \A t \in stored : t <= Restored(v, stored)
  /\ Up => v <= version /\ Fits(v, stored \cup pending) /\ Restored(v, stored \cup pending) = version

(* The newest snapshot serves, and so does each one a restore may fall back *)
(* to, unless it is older than a transaction that only a later snapshot has *)
(* because the process ended before the log was synced.  So no rollback     *)
(* panics ("DB rollback failed!!!"), and after a stop the server starts     *)
(* with all that was durable, whatever was collected meanwhile; as long as  *)
(* each snapshot was recorded under its own version.                        *)
Recoverable ==
  faults = {} => lost <= NewestRow /\ \A l \in Kept : rows[l] >= lost => Serves(rows[l])

(* "Current ver %d is already snapshotted. No-op.": after a Close whose     *)
(* Sync reported no error, nothing is lost.                                 *)
ClosedStateSaved ==
  phase = "down" /\ closedAt # 0 => Restored(NewestRow, stored) >= closedAt

(* The same, as long as each snapshot was recorded under its own version:   *)
(* what snapshotVer says is saved, also after the collectors changed it,    *)
(* after a failed or repeated save and after a fallback.                    *)
CloseKeepsAll == faults = {} => ClosedStateSaved

(* Once a fault is recorded the properties that pass excuse every later     *)
(* state, and TLC need not go on.                                           *)
Faultless == faults = {}

(* "Retrying state snapshot restore with an older state snapshot": after a  *)
(* clean exit each snapshot a restore may take leads to the same version.   *)
OlderSnapshotsServe ==
  phase = "down" /\ closedAt # 0 =>
    \A l \in Kept : Fits(rows[l], stored) /\ Restored(rows[l], stored) = Restored(NewestRow, stored)
=============================================================================
