# A TLA+ model of otaru

otaru is a file system whose files are cut into chunks, kept as encrypted blobs in a
cloud object store behind a local write-back cache, and whose directory tree (the inode
database) is kept in memory, as a transaction log in Cloud Datastore and as snapshots in
the blob store.  The modules here model the parts whose correctness depends on the order
in which goroutines, processes and remote calls take their steps.

Contents: [the system](#the-system-and-its-parts), [modules and code](#modules-and-the-code-they-model),
[runs](#what-the-runs-check), [findings](#what-disagrees-with-the-code),
[fairness](#fairness), [proofs](#what-is-proved), [limits](#what-is-only-model-checked-and-what-is-left-out),
[plan](#plan).

To check: `tlc -config X.cfg M` for the runs below, `tlapm GlobalLockProofs.tla` for the proofs.

## The system and its parts

A server (`facade/otaru.go`) starts by taking the **global lock**, a row in Datastore that
allows one process at a time to write the file system.  It restores the **inode database**
from the newest **snapshot** and the **transaction log**.  Calls from FUSE, WebDAV and the
API reach the **file system** layer, which holds open files, each with a **file write
cache** of patches over a **chunked file**.  A flush writes chunks to the **write-back
cache** and the new chunk array to the inode database, in a transaction made under the
node's lock.  In the background a **scheduler** runs jobs: sync of the log and of
snapshots, collection of old log entries, old snapshots and unused blobs, reduction of the
cache; the **cache syncer** writes dirty entries back.  `Close` stops all of this, flushes
what is open, saves a last snapshot and gives the lock back.

| Part | Source | Module | State |
|---|---|---|---|
| Global lock | `gcloud/datastore/globallock.go`, `gcloud/util/checkerr.go` | `GlobalLock` | modelled, proved |
| Transaction log | `gcloud/datastore/dbtransactionlogio.go`, `inodedb/cacheddbtransactionlogio.go` | `TxLogIO`, abstract: `TxLog` | modelled but for a tool's DeleteAllTransactions |
| Inode database | `inodedb/inodedb.go`, `dboperation.go`, `dbservice.go` | `INodeState`, `INodeDB` | modelled but for fsck, statistics and the service's channel |
| Snapshots, their collection and the log's | `inodedb/blobstoredbstatesnapshotio`, `gcloud/datastore/inodedbsslocator.go`, `gc/inodedbtxloggc`, `gc/inodedbssgc`, `inodedb/inodedbsyncer` | `SnapshotIO` | modelled but for a tool's DeleteAll |
| Write-back cache | `blobstore/cachedblobstore` | `CachedBlobEntry` | one entry; not RemoveBlob nor shutdown of the manager |
| Chunks | `chunkstore/chunkstore.go` | `CachedBlobEntry` | only the order of payload and header |
| Server lifecycle | `facade/otaru.go` | `GlobalLock`, `SnapshotIO` | the order of start and Close |
| Cache syncer | `blobstore/cachedblobstore/cachesyncer.go` | | planned |
| Scheduler | `scheduler/` | | planned |
| File system, open files | `filesystem/` | | planned |
| File write cache, chunked files | `filewritecache/`, `chunkstore/chunkedfile.go` | | planned |
| Blob collection | `gc/blobstoregc` | | planned |
| Cache usage and reduction | `blobstore/cachedblobstore/cacheusagestats.go`, `reducecachetask.go` | | not modelled: they choose what to drop, and `CachedBlobEntry` may drop anything |
| Encodings | `inodedb/snapshot.go`, `inodedb/*serdes*` | `INodeState` | only what a snapshot keeps and leaves out |
| Blob stores, encryption | `blobstore/`, `gcloud/gcs`, `btncrypt`, `metadata` | | not modelled: thin or byte-level |
| FUSE, API, WebDAV, command line | `fuse`, `apiserver`, `otaruapiserver`, `webdav`, `cli`, `cmd`, `extra` | | not modelled: glue without state of its own |
| Generated code, logging, helpers, tools | `pb`, `assets`, `logger`, `util`, `debugcmd`, `go-fuzz` | | not modelled |

`PROJECT.json` has the complete list, the lines each definition models, and the hazards:
the places where the order of steps, a failure or a limit can go wrong, with the
properties that cover them or the reason why none does.

## Modules and the code they model

### GlobalLock

`entry` is the Datastore row.  A `GlobalLocker` call (`op`, `pc`, `attempt`) is up to
`numRetries` attempts (`RetryIfNeeded`), each a Datastore transaction in two steps:
`TryLockOnceGet`/`Commit`, `UnlockInternalOnceGet`/`Commit`, `ForceUnlockOnceGet`/`Commit`.
Datastore is external, modelled from its use: a transaction whose row changed since it was
read (`conflicted`) aborts, any call may fail, and a commit may be applied and still be
reported as failed.  `Exit` is a process that ends, at any point of a call too, and leaves the row as it is.
`LockReadOnly` is `Lock` with its readOnly argument, which checks the row and writes none.
`CheckLock` tests the constant `checkCreatedAt` (false) like the code, not its parameter.
`forced` is history: the lockers (`Operators`) that have called `ForceUnlock`.

### TxLogIO and TxLog

A transaction is its TxID.  `nextbatch` and `committing` are the fields of
`DBTransactionLogIO`, `stored[k]` the batch in Datastore under key k, `ringbuf`, `next` and
`oldestTxID` the cached log in front.  The steps are the critical sections: `SyncBegin`
moves the next batch to `committing`, `SyncCommit` is the Datastore commit (which may be
applied and still be reported as failed), `SyncEnd` forgets the batch or rolls it back in
front of what was appended meanwhile.  A query reads memory (`QueryTransactions`), then
Datastore (`QueryTransactionsOnce`), then returns.  `DeleteTransactions`
filters memory, `DeleteBatches` deletes by key.  `unneeded` is history: the largest
threshold asked for.

`TxLog` is what the log promises: a durable prefix that only grows, and queries that
answer the whole suffix from `minID` on, in order.  `TxLogIO!ImplementsTxLog` maps the
durable prefix to `synced`, the threshold to `floor` and a finished query to `answer`.

### INodeState and INodeDB

`INodeState` has the database's state (nodes, lastID, version, node locks, last ticket)
and its operations as pairs: `XOk`, the conditions under which the code's `Apply` returns
no error, and `X`, what it does.  A file's size and chunk array are one `Content` and its
owner and mode one `Attr`.  Of a node's times `ModifiedT` is kept by its origin: `"given"`
by a client (`UpdateModifiedTOp`), or `"clock"`, the time at which the last operation on the
node was applied.  The code reads the clock again when the log is replayed, so a rollback or
a restart gives such a node a later time; two values `"clock"` stand for times that may
differ.  `SnapshotOf`/`FromSnapshot` are the encoding as far as it changes something: locks
and tickets are not encoded, nor is a directory's `ParentID`.

`INodeDB` puts the service goroutine in front: one request is one step.  A client locks a
node (`QueryNode`) or a new one (`LockNewNode`), applies transactions and unlocks, each in
a request of its own.  `Request` applies a transaction's operations in order; if one
fails, `Rollback` restores the newest snapshot and replays the log, as `ApplyTransaction`
does.  `Sync` saves a snapshot before the next request; `TriggerSync` (the background job)
encodes it now and makes it visible later (`SnapshotSaved`).  `log` is what was logged in
this run and before it, and `durable` how much of it a new process finds: `LogSynced` writes
it to Datastore, a snapshot has all transactions up to its own version.  `Restart`, after
a crash or a Close, keeps `durable` transactions and forgets the others.  `newest` and
`stale` are history: the newest snapshot was encoded before a rollback and saved after it;
a client that held a lock at a rollback may still be at work.

### SnapshotIO

Only versions are kept: a snapshot is the version that was encoded, `rows[label]` is the
locator's row named `label`, the log is the set of TxIDs in Datastore (`stored`) and in
memory (`pending`).  The label is read from the state object after the save, so it may
differ from what was encoded; a save keeps the version its state object stopped at when a
rollback replaced it (`Live` if none did).  Nothing makes a request, another save or Close
wait for a save of the sync job.  A restore (`Kept`, `RestoreFrom`) may take any of the
newest `maxhist` rows, as `RestoreSnapshot` goes on to an older snapshot when a newer one
cannot be read; this also stands for a snapshot whose blob is still in the local write-back
cache and lost with it.  A save that fails may have put its row nevertheless.  The collectors run in the steps of their tasks:
`FindUnneededTxIDThreshold`, which reads an old snapshot and by that changes
`snapshotVer`, then `DeleteTransactions`; `CheckRestoreSnapshot`, then
`DeleteOldSnapshots`.  `Close`, `SyncOpenFiles`, `Quit` and `Exit` are the stages of
`Otaru.Close`; `Crash` may come at any of them; `Restart` restores.  `faults` is history:
`label`, a save recorded another version than it encoded; `gap`, a restore took a snapshot
older than a transaction (`lost`) that only a later snapshot has.

### CachedBlobEntry

One blob: `cache` is the file in the local store, `backend` the blob behind it, each a
header version and a payload (the payload that belongs to version v is called v).
`state`, `bever` (the cached backend version) and the transition table are the code's.  A
step is what runs under one hold of `be.mu`, with two exceptions: `mgr.pc = "close"` holds
it across steps, and so does `upload.pc = "close"`, the end of a writeback, where the version
cache is set (`SyncEnds`, `CloseEnds`) before the backend's writer is closed (`CloseWriter`,
in `SyncReturns`, `CloseWritten`).  `SaveState` needs no `be.mu` and may come in between.
The actors: a user (`OpenEntry`, `OpenHandle`, `BeginWrite` and `EndWrite` for payload and
header, `CloseHandle`), the syncer's worker (`Sync`, the copy of header and payload
without the lock, `SyncEnds`, `SyncReturns`), the manager (`BeginClose` and the stages of `Close`), the
fetch (`FetchHeader`, `FetchPayload`), `SaveState` and `Crash`, which loses memory and
keeps files.  Failures of remote calls are actions, recorded in `faults` so that the
properties can say which failure they tolerate: `query` (a version query failed), `upload`
(a writeback failed), `close` (the writer's Close failed, which the code ignores), `torn`
(a failed upload left a partial blob, or a crash came between the two parts of a write or
of a fetch),
`stale` and `ahead` (the restored version cache is behind the backend, or ahead of it),
`file` (the cached file cannot be closed), `orphan` (an entry was closed or forgotten
under a user's handle).  `fate` is `panic` where `updateState` panics and `spin` where
`OpenHandle` loops for ever.

## What the runs check

| Run | Module, config | Instance | Shows |
|---|---|---|---|
| `globallock` | `MCGlobalLock`, `GlobalLock.cfg` | 3 lockers with different names, one of which may force the lock open, 2 attempts | `HolderOwnsEntry`, `MutualExclusion`: until the lock is forced open a server that serves for writing owns the row, so there is one. `UnlockSparesOthers`: Unlock deletes only its caller's row, also after that. `CallsReturn`: the retries end |
| `txlog` | `TxLogIO` | 4 transactions, a ring buffer of 2, deletes of 1 batch per Datastore transaction | `NothingLost`, `KeyIsLargest`, `QueryComplete`, `DurablePrefix`, the refinement `ImplementsTxLog`, `EventuallyStored` |
| `inodedb` | `MCINodeDB`, `INodeDB.cfg` | 2 clients, 2 nodes, 3 versions, snapshots of both kinds, restarts | `CommitsKept`: only the end of a process undoes a transaction, and none that was durable; a failed transaction, a rollback and a restart change no node otherwise. `StateIsLogged`: the state is what its log makes of an empty database. `Recovers`: the newest snapshot and the log give back the state, unless the snapshot was overtaken by a rollback. `LockExclusive`: two clients never hold one node, outside the aftermath of a rollback. `NoOrphanLock`: every lock has someone to give it back |
| `inodedb_locks` | `INodeDB_locks.cfg` | 3 nodes | violation of `LocksHonoured` |
| `inodedb_background` | `INodeDB_background.cfg` | 3 nodes, 4 versions | violation of `AlwaysRecovers` |
| `snapshot_restore` | `SnapshotIO`, `SnapshotIO_restore.cfg` | 4 versions, 2 crashes, 2 snapshots kept | `Recoverable`: the newest snapshot, and each older one that has all that only snapshots have, restores everything durable, and no rollback panics. `CloseKeepsAll`: a clean exit loses nothing. Both as long as each snapshot was recorded under its own version |
| `snapshot_close` | `SnapshotIO_close.cfg` | 4 versions, no crash, 3 snapshots kept | violation of `ClosedStateSaved` |
| `snapshot_fallback` | `SnapshotIO_fallback.cfg` | the same | violation of `OlderSnapshotsServe` |
| `cachedblob_entry` | `CachedBlobEntry`, `CachedBlobEntry_cache.cfg` | 2 versions, 1 crash, a blob that is new or has version 1 | `CleanIsStored`, `NothingLost`, `KnownVersionStored`, `NoLostWakeup`, `EventuallyStored`, each but for the faults it names |
| `cachedblob_panic` | `CachedBlobEntry_panic.cfg` | the same without a crash | violation of `NoPanic` |
| `cachedblob_removed` | `CachedBlobEntry_removed.cfg` | the same without a crash | violation of `RemovedOnlyIfStored` |
| `cachedblob_ahead` | `CachedBlobEntry_ahead.cfg` | the same with a crash | violation of `InterruptedSyncNoticed` |

Every passing run's module also has its type invariant among the properties (`TypeOK`).

Why the bounds are enough to meet the cases that matter:

- *Lock*: three lockers let one take the row between another's read and commit while a
  third unlocks; two attempts are enough for a retry after a lost reply.
- *Log*: with four transactions two batches are stored while a third is rolled back and
  merged with a later append; the ring buffer of two wraps twice; a collection takes
  several Datastore transactions.
- *Inode database*: two clients are needed for one to lose its lock by the other's
  failure.  With two IDs one is allocated beside the root, and after a rollback again, by
  another client; three versions have a snapshot, a transaction stored in Datastore and one
  that is not.  One name is enough for a hard link to be refused, a rename onto itself and a
  removal.  Of two concurrent creates the slower one is refused only with three IDs; the
  properties hold there too (`MaxID = 3`, 900,422 states), in more time than a regular run
  should take.
- *Snapshots*: with two snapshots kept and four versions there are rows to delete, an older
  one to fall back to and transactions below the threshold; a second crash meets what the
  first one left.  The constraint `Faultless` stops at the first fault, after which the two
  properties say nothing.
- *Cache*: with two versions a write comes in during the writeback of the one before.  The
  constraint `OneFault` follows a behaviour up to its second fault: one fault excuses
  `NothingLost` and `EventuallyStored` altogether, and the others are checked with each fault
  alone.  Without it the same run passes too (1.8 million states).

`CHECK_DEADLOCK FALSE` is used where the counters' bounds, or a server that has stopped
for good, end the behaviours.  The lock's run checks for deadlock.

### What disagrees with the code

Seven runs expect a violation; each states something a comment, an assertion or a message
of the code says.

1. **A failing transaction drops everybody's locks** (`inodedb_locks`).  `ApplyTransaction`
   "rollbacks intermediate state and returns error" (`inodedb/api.go:88`), but the state it
   restores has no locks and starts tickets again from 1, for all clients
   (`inodedb/inodedb.go:305`).
2. **A rollback during a background save can make the log impossible to replay**
   (`inodedb_background`).  The snapshot holds a `lastID` that counts IDs allocated and not
   used; after the rollback they are allocated again and created, and once the snapshot
   is visible the replay refuses these creates.
3. **A clean exit can lose a transaction** (`snapshot_close`).  The save reads the version
   after encoding (`blobstoredbstatesnapshotio.go:80` and `:85`); a transaction in between is
   counted as saved, and Close does not sync the log.
4. **After a clean exit older snapshots lack the end of the log** (`snapshot_fallback`).  A
   restore that cannot read the newest snapshot retries "with an older state snapshot"
   (`blobstoredbstatesnapshotio.go:99`), but Close does not write the log to Datastore: the
   older one leads to an older state, without an error.
5. **The cache's state machine meets transitions it has not** (`cachedblob_panic`): first
   Truncate on an entry in error, then a write that outlives a stale writeback, the close
   of an entry whose payload but not its header was written, and a failed writeback after a
   write came in.
6. **A failure can remove the only copy** (`cachedblob_removed`).  The file of every entry
   in error is removed, also if the error was a failed version query or writeback.
7. **An interrupted writeback can pass for a finished one** (`cachedblob_ahead`).  The version
   cache is told of the new version before the backend's writer is closed
   (`cachedblobentry.go:717` and `:705`), and may be saved in between.  After a crash the next
   process does not notice that the "previous sync stopped" (`cachedblobentry.go:435`).

Facts that came up on the way and that the models contain, without a run of their own:

- `addNewNode` refuses a fresh ID below one allocated later, so of two concurrent creates
  the slower one is refused, and its refusal is a rollback (finding 1).
- A directory's `ParentID` is not in the snapshot: it is 0 after any restore.
- The command line tools use fixed host names; two processes with one name pass for each
  other in `checkLock`.  `UnlockSparesOthers` rests on `HostNamesDiffer`.
- After a save that recorded another version than it encoded (finding 3),
  `FindUnneededTxIDThreshold` can pass a threshold that lets the log's collection delete
  transactions the newest snapshot needs, and the assertion "snapshot version newer than
  current ver" is reachable.  `snapshot_restore` shows that up to such a save neither is.
- If a process ends before the log is written to Datastore, the transactions that only a
  snapshot has leave a gap for every older one: `Recoverable` excludes these
  (`rows[l] >= lost`), and a restore that takes one is the fault `gap`.
- A replay that fails calls `RestoreVersion` again from within (`inodedb.go:305`), which
  replays the same log and fails again.
- Dropping an entry in error leaves it in the manager's map, as its file was removed before
  (`cachedblobentriesmanager.go:417`).

## Fairness

Only liveness properties use it.

- `GlobalLock!FairSpec`: weak fairness of each locker's steps.  A call in progress is a
  goroutine that runs on, and a Datastore call is assumed to return, with a result or an
  error: the code sets no deadline of its own and relies on the client library for this.
  No fairness says that a call succeeds.
- `TxLogIO!FairSpec`: weak fairness of the steps of Sync, which the repetitive sync job
  calls again and again, and strong fairness of the commit that succeeds: Datastore does
  not refuse for ever.  Without this last assumption the property is false, and nothing the
  code does could make it true.
- `CachedBlobEntry!FairSpec`: weak fairness of the manager's Close and of the Close of the
  backend's writer (`WriterStep`), which both hold `be.mu`;
  strong fairness of the steps that need the mutex, since Go's mutex lets no waiter starve;
  strong fairness of Sync, as the syncer is told of every dirty entry.  No fairness on
  failures, opening, saving or crashing.  `EventuallyStored` excuses the faults, and a `fate` of
  `panic` or `spin`.

## What is proved

`GlobalLockProofs` proves, for every set of lockers, every assignment of names and every
number of attempts, with TLAPS:

- `TypeCorrect`: `Spec => []TypeOK`;
- `HolderOwns`: if host names differ, `Spec => []HolderOwnsEntry`, which speaks of the time
  until somebody forces the lock open;
- `Exclusion`: under the same assumption `Spec => []MutualExclusion`, from `HolderOwns`:
  two holders would own one row, which names one locker;
- `UnlockSpares`: if host names differ, also with ForceUnlock,
  `Spec => UnlockSparesOthers`.

The assumptions on the constants are those of `GlobalLock` (`LockerAssumption`,
`RetryAssumption`, `NoEntryAssumption`), which TLC evaluates in the lock's run.

`HolderOwnsEntry` is not inductive: a holder's row can be deleted or overwritten by a
commit whose transaction read it before.  The strengthening is `ReadStillValid`: as long
as Datastore would let an open transaction commit (the locker is not `conflicted`), what it
has read is still there: no row for Lock, a row with its own host name for Unlock.  So a
commit of Lock finds no row, hence no holder, and a commit of Unlock deletes a row with the
caller's name, which, names being different, is the caller's.  `NoForce` (until `forced`
says so no call is ForceUnlock) rules the remaining action out.  Each is proved by one step per
action; `UnlockSpares` uses `ReadStillValid` alone.

## What is only model-checked, and what is left out

- Liveness, and the refinement of `TxLog`: the first is outside the prover's reach; for the
  second, and for the safety of `TxLogIO`, facts about `SelectSeq` are needed that take an
  induction over sequences.
- `INodeDB` replays the log with a recursive function: what a replay gives for every log is
  an induction too.
- `CachedBlobEntry` and `SnapshotIO` have no proofs yet (see the plan).
- `CachedBlobEntry` is one entry with one writer.  A second entry for a file whose first
  one is still at work, `RemoveBlob`, the manager's shutdown, and eviction's choice among
  entries are not modelled.
- A query of `TxLogIO` that fails may be retried any number of times, not just three.
- Times: expiry, back-off and `CreatedAt` are not measured, and of `ModifiedT` only the origin
  is kept; a timeout is a failure that may
  come at any time.
- Encodings, encryption, frontends: see the table above.

## Plan

In this order:

1. `Scheduler`: jobs, runners, abort, repetitive jobs and shutdown over bounded channels;
   an abstract "each job runs at most once, and runs unless aborted".
2. `CacheSyncer`: producer, workers and SyncAll; composed with the manager and the
   scheduler for the cycle of waits (runC full, manager waiting for schedulerMain).
3. `OpenFiles`: handles, node locks, flush and Sync over an abstract `INodeDB`; the races of
   CloseHandle with OpenFile and of the downgrade with the last header.
4. `ChunkedFile` and `FileWriteCache` as algorithms against a reference file, over all
   small writes, reads and truncations; the sharing of pooled patches.
5. `BlobGC` with `OpenFiles`: the race of a sweep with new chunks.
6. `CachedBlobEntryProofs`: `KnownVersionStored`, then `CleanIsStored` and `NothingLost`, for
   any number of versions and crashes; `SnapshotIO`'s `Recoverable`;
   the safety of `TxLogIO` over sets in place of sequences.

Further places where something can go wrong, for the modules above to take up:

- `scheduler/scheduler.go:466` renews the timer also if no job waits; `scheduler/repetitive.go:193`
  aborts without the job's mutex, so a job being scheduled at that moment escapes.
- `cachedblobstore/cachesyncer.go:126`: after Quit the closed channel is selected again and
  again until the queue is empty.
- `cachedblobstore/cachedblobentry.go:855` and `:896`: what Close does at the manager's shutdown,
  and when RemoveBlob meets a fetch; `cachedblobentriesmanager.go:294`: errors assigned to a
  shadowed variable.
- `filesystem/filesystem.go:491` (a failed last flush), `:382` (O_TRUNC on a file that is open).
- `chunkstore/chunkedfile.go:236` (the bound of an inserted chunk), `:279` (the append loop when a
  chunk cannot be written), `:308` (a failed update of the chunk array is only logged).
- `filewritecache/patch.go:99`: the offsets of an in-place replacement.
- `inodedb/dboperation.go:274`: a directory can be moved below itself, and fsck then does not
  end; `inodedb/dbservice.go:35`: requests after Quit are not answered;
  `gcloud/datastore/inodedbsslocator.go:144`: a dry run with a full page of rows does not end.
