--------------------------- MODULE CachedBlobEntry ----------------------------
(***************************************************************************)
(* One blob of the write-back cache (blobstore/cachedblobstore): its cache *)
(* entry with the mutex be.mu, and everything that works on it at a time:  *)
(*   - a user that opens a handle, writes and closes it;                   *)
(*   - the syncer's worker, which writes the entry back to the backend;    *)
(*   - the entries manager, which closes entries to stay below maxEntries  *)
(*     and drops cached files to stay below the cache's size;              *)
(*   - the task that fetches the blob, and the goroutine that closes an    *)
(*     entry in error.                                                     *)
(* A step is what runs under one hold of be.mu, but for the end of a       *)
(* writeback: the version cache, which has a mutex of its own, is set      *)
(* before the backend's writer is closed.  The blob's users write one at a *)
(* time (filesystem.OpenFile has a mutex of its own).  A cached file that  *)
(* is there can be removed.                                                *)
(*                                                                         *)
(* A blob is a chunk: a header with a version and a payload.  ChunkIO      *)
(* writes the payload first and the header with the next version after it; *)
(* the payload that goes with version v is called v.                       *)
(***************************************************************************)
EXTENDS Integers, FiniteSets

CONSTANTS
  MaxVersion,   \* bound: versions written
  MaxCrashes    \* bound: times the process ends and starts again

ASSUME CacheAssumption == MaxVersion \in Nat \ {0} /\ MaxCrashes \in Nat

Unknown == -1     \* no version is cached
Hole == -1        \* a payload that was not fetched

Empty == [ver |-> 0, data |-> 0]
NoUpload == [by |-> "none", pc |-> "none", cachever |-> 0, ver |-> 0, data |-> 0]
NotRead == -2

VARIABLES
  state,      \* be.state
  listed,     \* the entry is in mgr.entries
  fetch,      \* InvalidateCacheTask: "none", "scheduled", "header" (header fetched)
  closer,     \* a goroutine is about to Close(abandonAndClose) the entry
  cache,      \* the file in cachebs
  backend,    \* the blob in backendbs
  bever,      \* CachedBackendVersion's entry
  savedver,   \* the same, as last saved by SaveState
  user,       \* "idle", "opened" (OpenEntry returned), "open", or the write it is in
  mgr,        \* the manager: pc ("close": it holds be.mu), and why it closes the entry
  upload,     \* the writeback in progress: who waits for it, whether it copies or
              \* closes the writer (under be.mu), what was read so far
  acked,      \* the last version whose write returned (history)
  faults,     \* what has gone wrong outside the model's control (history)
  fate,       \* "ok", "panic", or "spin": a loop that never ends, under be.mu
  crashes

entryvars == <<state, listed, fetch, closer>>
blobvars == <<cache, backend, bever, savedver, acked>>
vars == <<state, listed, fetch, closer, cache, backend, bever, savedver, user, mgr, upload,
          acked, faults, fate, crashes>>

MgrIdle == [pc |-> "idle", why |-> "none"]

Init ==
  /\ state = "Uninitialized" /\ listed = FALSE /\ fetch = "none" /\ closer = FALSE
  /\ cache = Empty /\ backend \in {Empty, [ver |-> 1, data |-> 1]}
  /\ bever = Unknown /\ savedver = Unknown
  /\ user = "idle" /\ mgr = MgrIdle /\ upload = NoUpload
  /\ acked = backend.ver
  /\ faults = {} /\ fate = "ok" /\ crashes = 0

-----------------------------------------------------------------------------
(* The state machine                                                        *)

Usable == {"Invalidating", "Clean", "WriteInProgress", "WritebackInProgress",
           "StaleWritebackInProgress", "Dirty"}

Transition ==
  {<<"Uninitialized", s>> : s \in {"Invalidating", "Clean", "Errored"}}
  \cup {<<"Invalidating", s>> : s \in {"Clean", "Errored"}}
  \cup {<<"Errored", "ErroredClosed">>}
  \cup {<<"Clean", s>> : s \in {"WriteInProgress", "Closing"}}
  \cup {<<"WriteInProgress", "Dirty">>}
  \cup {<<"WritebackInProgress", s>> : s \in {"Clean", "StaleWritebackInProgress", "Errored"}}
  \cup {<<"StaleWritebackInProgress", s>> : s \in {"Dirty", "StaleWritebackInProgress"}}
  \cup {<<"Dirty", s>> : s \in {"WriteInProgress", "WritebackInProgress", "DirtyClosing"}}
  \cup {<<"DirtyClosing", "Closed">>, <<"Closing", "Closed">>}
  \cup {<<"Closed", s>> : s \in {"Clean", "Errored"}}

Panic == fate' = "panic" /\ UNCHANGED state

UpdateState(new) ==
  IF <<state, new>> \in Transition THEN state' = new /\ UNCHANGED fate ELSE Panic

(* progressCond.Broadcast: a manager that waits will look at the state.     *)
Broadcast == mgr' = IF mgr.pc = "asleep" THEN [mgr EXCEPT !.pc = "woken"] ELSE mgr

HasHandle == user \in {"open", "payload", "header"}
HalfWritten == cache.data = cache.ver + 1

(* OpenEntry and OpenHandle are two steps, and Close looks at the handles   *)
(* only once: a user may come to hold a handle on an entry that has left    *)
(* the map, or is about to.  That is taken for a fault of its own.          *)
Orphaned(happens) == IF happens THEN {"orphan"} ELSE {}

-----------------------------------------------------------------------------
(* initializeWithLock                                                       *)

BackendVersion == IF bever = Unknown THEN backend.ver ELSE bever

InitialState ==
  CASE cache.ver > BackendVersion -> "Dirty"    \* through Clean and WriteInProgress
    [] cache.ver = BackendVersion -> "Clean"
    [] cache.ver < BackendVersion -> "Invalidating"

Initialize ==
  /\ bever' = BackendVersion
  /\ IF InitialState = "Dirty" THEN state' = "Dirty" /\ UNCHANGED fate ELSE UpdateState(InitialState)
  /\ fetch' = IF InitialState = "Invalidating" THEN "scheduled" ELSE fetch
  /\ UNCHANGED closer

(* The cached file or the backend cannot be read.                           *)
InitializeFails ==
  /\ UpdateState("Errored")
  /\ closer' = TRUE
  /\ UNCHANGED <<bever, fetch>>

-----------------------------------------------------------------------------
(* The user                                                                 *)

(* The entry is not in the map and its background work has ended.           *)
Forgotten == ~listed /\ fetch = "none" /\ upload = NoUpload /\ ~closer

(* CachedBlobEntriesManager.OpenEntry.  A forgotten entry is given up for a *)
(* new one.                                                                 *)
OpenEntry ==
  /\ user = "idle" /\ mgr.pc = "idle"
  /\ listed \/ Forgotten
  /\ user' = "opened"
  /\ listed' = TRUE
  /\ state' = IF listed THEN state ELSE "Uninitialized"
  /\ UNCHANGED <<fetch, closer, mgr, upload, faults, fate, crashes>> /\ UNCHANGED blobvars

(* OpenHandle, if it returns a handle.                                      *)
OpenHandle ==
  /\ user = "opened"
  /\ \/ state \in {"Uninitialized", "Closed"} /\ Initialize
     \/ state \in Usable /\ UNCHANGED <<state, fetch, closer, bever, fate>>
  /\ user' = "open"
  /\ faults' = faults \cup Orphaned(~listed)
  /\ UNCHANGED <<listed, cache, backend, savedver, acked, mgr, upload, crashes>>

OpenHandleFails ==
  /\ user = "opened"
  /\ \/ state \in {"Uninitialized", "Closed"} /\ InitializeFails /\ faults' = faults \cup {"query"}
     \/ state \in {"Errored", "ErroredClosed"} /\ UNCHANGED <<state, fetch, closer, bever, fate, faults>>
  /\ user' = "idle"
  /\ UNCHANGED <<listed, cache, backend, savedver, acked, mgr, upload, crashes>>

(* OpenHandle has no case for DirtyClosing: it loops and never unlocks.     *)
OpenHandleSpins ==
  /\ user = "opened" /\ state = "DirtyClosing"
  /\ fate' = "spin"
  /\ UNCHANGED <<user, mgr, upload, faults, crashes>> /\ UNCHANGED entryvars /\ UNCHANGED blobvars

(* PWrite and Truncate up to the write itself.  They wait for a fetch.      *)
BeginWrite(part) ==
  /\ user = "open"
  /\ state # "Invalidating"
  /\ CASE part = "payload" -> ~HalfWritten /\ cache.ver < MaxVersion
       [] part = "header" -> HalfWritten
  /\ \/ state \in {"Clean", "Dirty"} /\ UpdateState("WriteInProgress")
     \/ state \in {"WritebackInProgress", "StaleWritebackInProgress"}
        /\ UpdateState("StaleWritebackInProgress")
     \/ state \in {"Uninitialized", "DirtyClosing", "Closed"} /\ Panic
  /\ user' = part
  /\ Broadcast
  /\ UNCHANGED <<listed, fetch, closer, upload, faults, crashes>> /\ UNCHANGED blobvars

(* Truncate goes on where PWrite returns the error.                         *)
TruncateErrored ==
  /\ user = "open" /\ state \in {"Errored", "ErroredClosed", "Closing"}
  /\ Panic
  /\ UNCHANGED <<listed, fetch, closer, user, mgr, upload, faults, crashes>> /\ UNCHANGED blobvars

MarkWriteEnd ==
  CASE state = "WriteInProgress" -> UpdateState("Dirty")
    [] state = "StaleWritebackInProgress" -> UNCHANGED <<state, fate>>
    [] OTHER -> Panic

(* Mutant: the header skips a version.                                      *)
EndWriteSkips ==
  /\ user \in {"payload", "header"}
  /\ cache' = IF user = "payload" THEN [cache EXCEPT !.data = cache.ver + 1]
              ELSE [cache EXCEPT !.ver = cache.data + 1]
  /\ acked' = IF user = "header" THEN cache'.ver ELSE acked
  /\ MarkWriteEnd
  /\ user' = "open"
  /\ Broadcast
  /\ UNCHANGED <<listed, fetch, closer, backend, bever, savedver, upload, faults, crashes>>

EndWrite ==
  /\ user \in {"payload", "header"}
  /\ cache' = IF user = "payload" THEN [cache EXCEPT !.data = cache.ver + 1]
              ELSE [cache EXCEPT !.ver = cache.data]
  /\ acked' = IF user = "header" THEN cache'.ver ELSE acked
  /\ MarkWriteEnd
  /\ user' = "open"
  /\ Broadcast
  /\ UNCHANGED <<listed, fetch, closer, backend, bever, savedver, upload, faults, crashes>>

(* The header is written before the handle is closed, unless that fails.    *)
CloseHandle ==
  /\ user = "open"
  /\ ~HalfWritten \/ state \in {"Errored", "ErroredClosed", "Closing"}
  /\ user' = "idle"
  /\ UNCHANGED <<mgr, upload, faults, fate, crashes>> /\ UNCHANGED entryvars /\ UNCHANGED blobvars

-----------------------------------------------------------------------------
(* writeBackWithLock                                                        *)

StartUpload(who) ==
  upload' = [by |-> who, pc |-> "copy", cachever |-> cache.ver, ver |-> NotRead, data |-> NotRead]

Copied == upload.pc = "copy" /\ upload.ver # NotRead /\ upload.data # NotRead

(* Sync.  It waits until a write or another writeback has ended, and does   *)
(* nothing in the other states.                                             *)
Sync ==
  /\ listed /\ state = "Dirty" /\ upload = NoUpload
  /\ \/ bever = cache.ver /\ state' = "Clean" /\ UNCHANGED upload
     \/ bever < cache.ver /\ state' = "WritebackInProgress" /\ StartUpload("sync")
  /\ UNCHANGED <<listed, fetch, closer, user, mgr, faults, fate, crashes>> /\ UNCHANGED blobvars

(* io.Copy, without be.mu                                                   *)
CopyHeader ==
  /\ upload.ver = NotRead
  /\ upload' = [upload EXCEPT !.ver = cache.ver]
  /\ UNCHANGED <<user, mgr, faults, fate, crashes>> /\ UNCHANGED entryvars /\ UNCHANGED blobvars

CopyPayload ==
  /\ upload.ver # NotRead /\ upload.data = NotRead
  /\ upload' = [upload EXCEPT !.data = cache.data]
  /\ UNCHANGED <<user, mgr, faults, fate, crashes>> /\ UNCHANGED entryvars /\ UNCHANGED blobvars

(* The backend's writer cannot be opened, or the copy fails; the writer is  *)
(* closed with what it has got.  Nobody is woken.                           *)
UploadFails ==
  /\ upload.ver = NotRead \/ upload.data = NotRead
  /\ \/ UNCHANGED backend /\ faults' = faults \cup {"upload"}
     \/ /\ upload.ver # NotRead /\ backend' = [ver |-> upload.ver, data |-> Hole]
        /\ faults' = faults \cup {"upload", "torn"}
  /\ UpdateState("Errored")
  /\ upload' = NoUpload
  /\ mgr' = IF upload.by = "close" THEN MgrIdle ELSE mgr
  /\ UNCHANGED <<listed, fetch, closer, cache, bever, savedver, acked, user, crashes>>

(* Mutants of SyncEnds below: a write that came in between is forgotten,    *)
(* the version at the end is taken for the uploaded one, nobody is woken,   *)
(* and a stale writeback is not made dirty again.                           *)
SyncEndsWith(version, newstate, wake) ==
  /\ upload.by = "sync" /\ Copied
  /\ bever' = version
  /\ state' = newstate /\ UNCHANGED fate
  /\ upload' = [upload EXCEPT !.pc = "close"]
  /\ wake
  /\ UNCHANGED <<listed, fetch, closer, cache, backend, savedver, acked, user, faults, crashes>>

AfterSync ==
  CASE state = "StaleWritebackInProgress" -> "Dirty"
    [] state = "WritebackInProgress" -> "Clean"
    [] OTHER -> state

SyncEndsClean == SyncEndsWith(upload.cachever, "Clean", Broadcast)
SyncEndsAhead == SyncEndsWith(cache.ver, AfterSync, Broadcast)
SyncEndsSilently == SyncEndsWith(upload.cachever, AfterSync, UNCHANGED mgr)
SyncEndsStale ==
  SyncEndsWith(upload.cachever, IF state = "WritebackInProgress" THEN "Clean" ELSE state, Broadcast)

(* The writeback of Sync, when all is copied: the version cache is told     *)
(* that the backend has the version.                                        *)
SyncEnds ==
  /\ upload.by = "sync" /\ Copied
  /\ bever' = upload.cachever
  /\ CASE state = "WritebackInProgress" ->
           /\ UpdateState(IF cache.ver = upload.cachever THEN "Clean" ELSE "Dirty")
           /\ Broadcast
       [] state = "StaleWritebackInProgress" -> UpdateState("Dirty") /\ Broadcast
       [] OTHER -> UNCHANGED <<state, fate, mgr>>
  /\ upload' = [upload EXCEPT !.pc = "close"]
  /\ UNCHANGED <<listed, fetch, closer, cache, backend, savedver, acked, user, faults, crashes>>

(* All is copied, and then the cached file's version cannot be read.        *)
SyncEndsErrored ==
  /\ upload.by = "sync" /\ Copied
  /\ state = "WritebackInProgress"
  /\ bever' = upload.cachever
  /\ state' = "Errored"
  /\ upload' = [upload EXCEPT !.pc = "close"]
  /\ faults' = faults \cup {"upload"}
  /\ UNCHANGED <<listed, fetch, closer, cache, backend, savedver, acked, user, mgr, fate, crashes>>

(* The writer's Close, deferred to the return of the writeback, makes the   *)
(* blob visible; that it fails is only printed.                             *)
CloseWriter ==
  /\ upload.pc = "close" /\ upload' = NoUpload
  /\ \/ backend' = [ver |-> upload.ver, data |-> upload.data] /\ UNCHANGED faults
     \/ faults' = faults \cup {"close"} /\ UNCHANGED backend

SyncReturns ==
  /\ upload.by = "sync" /\ CloseWriter
  /\ UNCHANGED <<cache, bever, savedver, acked, user, mgr, fate, crashes>> /\ UNCHANGED entryvars

-----------------------------------------------------------------------------
(* Closing an entry                                                         *)

(* closeOldCacheEntriesIfNeeded and DropCacheEntry, up to the check of the  *)
(* handles at the beginning of Close.  A file that has no entry gets one to *)
(* be dropped, which is not put into the map.                               *)
BeginClose(why) ==
  /\ mgr.pc = "idle"
  /\ \/ listed /\ (~HasHandle \/ state = "Errored") /\ UNCHANGED state
     \/ why = "drop" /\ Forgotten /\ user = "idle" /\ cache # Empty /\ state' = "Uninitialized"
  /\ mgr' = [pc |-> "close", why |-> why]
  /\ UNCHANGED <<listed, fetch, closer, user, upload, faults, fate, crashes>> /\ UNCHANGED blobvars

(* Close has returned nil.  The entry leaves the map, and the file is       *)
(* removed if it is to be dropped or was in error; that one is gone when    *)
(* DropCacheEntry wants to remove it, which keeps the entry in the map.     *)
EntryClosed(new) ==
  /\ state' = new
  /\ listed' = (listed /\ mgr.why = "drop" /\ new = "ErroredClosed")
  /\ cache' = IF state = "Errored" \/ mgr.why = "drop" THEN Empty ELSE cache
  /\ mgr' = MgrIdle

(* The cached file cannot be closed: Close returns the error, and the entry *)
(* stays in the state it has come to.                                       *)
FileFails(reached) ==
  /\ state' = reached
  /\ mgr' = MgrIdle
  /\ UNCHANGED <<listed, cache>>

(* The loop of Close, in the states it leaves at once.                      *)
CloseReturns ==
  /\ mgr.pc = "close"
  /\ \/ state \in {"Closed", "ErroredClosed"} /\ EntryClosed(state)
     \/ state = "Errored" /\ EntryClosed("ErroredClosed")
     \/ state = "Clean" /\ EntryClosed("Closed")
     \/ state = "WriteInProgress" /\ mgr' = MgrIdle /\ UNCHANGED <<state, listed, cache>>
  /\ faults' = faults \cup Orphaned(state = "Clean" /\ HasHandle)
  /\ UNCHANGED <<fetch, closer, backend, bever, savedver, acked, user, upload, fate, crashes>>

CloseFails ==
  /\ mgr.pc = "close"
  /\ \/ state = "Errored" /\ FileFails("Errored")
     \/ state = "Clean" /\ FileFails("Closing")
  /\ faults' = faults \cup {"file"} \cup Orphaned(state = "Clean" /\ HasHandle)
  /\ UNCHANGED <<fetch, closer, backend, bever, savedver, acked, user, upload, fate, crashes>>

(* An entry nobody opened is initialized to be closed.                      *)
CloseInitializes ==
  /\ mgr.pc = "close" /\ state = "Uninitialized"
  /\ \/ Initialize /\ UNCHANGED <<mgr, faults>>
     \/ InitializeFails /\ mgr' = MgrIdle /\ faults' = faults \cup {"query"}
  /\ UNCHANGED <<listed, cache, backend, savedver, acked, user, upload, crashes>>

(* An entry that is being fetched is waited for, and then not closed.       *)
CloseWaitsForFetch ==
  /\ \/ mgr.pc = "close" /\ state = "Invalidating" /\ mgr' = [mgr EXCEPT !.pc = "refuse"]
     \/ mgr.pc = "refuse" /\ state # "Invalidating" /\ mgr' = MgrIdle
  /\ UNCHANGED <<user, upload, faults, fate, crashes>> /\ UNCHANGED entryvars /\ UNCHANGED blobvars

CloseWaits ==
  /\ \/ /\ mgr.pc = "close" /\ mgr' = [mgr EXCEPT !.pc = "asleep"]
        /\ state \in {"WritebackInProgress", "StaleWritebackInProgress", "DirtyClosing", "Closing"}
     \/ mgr.pc = "woken" /\ mgr' = [mgr EXCEPT !.pc = "close"]
  /\ UNCHANGED <<user, upload, faults, fate, crashes>> /\ UNCHANGED entryvars /\ UNCHANGED blobvars

(* Mutant: a dirty entry is closed as it is.                                *)
CloseDirtyAbandons ==
  /\ mgr.pc = "close" /\ state = "Dirty"
  /\ EntryClosed("Closed")
  /\ UNCHANGED <<fetch, closer, backend, bever, savedver, acked, user, upload, faults, fate, crashes>>

(* A dirty entry is written back; one whose version is the backend's has no *)
(* way from DirtyClosing to Clean, and one whose version cannot be read, or *)
(* is behind the backend's, stays in DirtyClosing.                          *)
CloseDirty ==
  /\ mgr.pc = "close" /\ state = "Dirty"
  /\ \/ /\ bever = cache.ver /\ Panic /\ UNCHANGED <<mgr, upload>>
        /\ faults' = faults \cup Orphaned(HasHandle)
     \/ /\ bever < cache.ver /\ UpdateState("DirtyClosing") /\ StartUpload("close")
        /\ mgr' = [mgr EXCEPT !.pc = "upload"]
        /\ faults' = faults \cup Orphaned(HasHandle)
     \/ /\ UpdateState("DirtyClosing") /\ mgr' = MgrIdle /\ UNCHANGED upload
        /\ faults' = faults \cup {"query"} \cup Orphaned(HasHandle)
  /\ UNCHANGED <<listed, fetch, closer, user, crashes>> /\ UNCHANGED blobvars

(* The writeback of Close, when all is copied, and its return.              *)
CloseEnds ==
  /\ upload.by = "close" /\ Copied
  /\ bever' = upload.cachever
  /\ upload' = [upload EXCEPT !.pc = "close"]
  /\ UNCHANGED <<cache, backend, savedver, acked, user, mgr, faults, fate, crashes>>
  /\ UNCHANGED entryvars

CloseWritten ==
  /\ upload.by = "close" /\ CloseWriter
  /\ EntryClosed("Closed")
  /\ UNCHANGED <<fetch, closer, bever, savedver, acked, user, fate, crashes>>

CloseWrittenFails ==
  /\ upload.by = "close" /\ upload.pc = "close" /\ upload' = NoUpload
  /\ backend' = [ver |-> upload.ver, data |-> upload.data]
  /\ FileFails(state)
  /\ faults' = faults \cup {"file"}
  /\ UNCHANGED <<fetch, closer, bever, savedver, acked, user, fate, crashes>>

(* CloseWithLogErr(abandonAndClose), which an error has started.            *)
CloseAbandons ==
  /\ closer
  /\ closer' = FALSE
  /\ \/ state = "Errored" /\ state' = "ErroredClosed" /\ cache' = Empty /\ Broadcast /\ UNCHANGED faults
     \/ state = "ErroredClosed" /\ UNCHANGED <<state, cache, mgr, faults>>
     \/ state = "Errored" /\ faults' = faults \cup {"file"} /\ UNCHANGED <<state, cache, mgr>>
  /\ UNCHANGED <<listed, fetch, backend, bever, savedver, acked, user, upload, fate, crashes>>

-----------------------------------------------------------------------------
(* InvalidateCacheTask: the file is created anew and filled from the start. *)

FetchHeader ==
  /\ fetch = "scheduled"
  /\ cache' = [ver |-> backend.ver, data |-> Hole]
  /\ fetch' = "header"
  /\ Broadcast
  /\ UNCHANGED <<state, listed, closer, backend, bever, savedver, acked, user, upload, faults, fate, crashes>>

FetchPayload ==
  /\ fetch = "header"
  /\ cache' = [cache EXCEPT !.data = backend.data]
  /\ fetch' = "none"
  /\ UpdateState("Clean")
  /\ Broadcast
  /\ UNCHANGED <<listed, closer, backend, bever, savedver, acked, user, upload, faults, crashes>>

(* The backend fails, or Close has cancelled the fetch.                     *)
FetchFails ==
  /\ fetch # "none"
  /\ fetch' = "none"
  /\ UpdateState("Errored")
  /\ closer' = TRUE
  /\ Broadcast
  /\ UNCHANGED <<listed, user, upload, faults, crashes>> /\ UNCHANGED blobvars

-----------------------------------------------------------------------------
(* SaveStateToBlobstore, every 30 seconds and at the end: it takes the      *)
(* version cache's mutex only.  What is saved after the last crash of a     *)
(* behaviour is never restored, and left out.                               *)
SaveState ==
  /\ savedver # bever /\ crashes < MaxCrashes
  /\ savedver' = bever
  /\ UNCHANGED <<cache, backend, bever, acked, user, mgr, upload, faults, fate, crashes>>
  /\ UNCHANGED entryvars

(* The process ends, by a panic or otherwise, and another one restores the  *)
(* saved versions, or starts with none if they cannot be read.  What was    *)
(* only half in the cached file, and a restored version that the backend    *)
(* has left behind or has not come to, are faults of their own.             *)
Crash ==
  /\ crashes < MaxCrashes
  /\ crashes' = crashes + 1
  /\ state' = "Uninitialized" /\ listed' = FALSE /\ fetch' = "none" /\ closer' = FALSE
  /\ user' = "idle" /\ mgr' = MgrIdle /\ upload' = NoUpload /\ fate' = "ok"
  /\ bever' \in {savedver, Unknown}
  /\ faults' = faults \cup (IF cache.data # cache.ver THEN {"torn"} ELSE {})
                      \cup (IF bever' \in 0..(backend.ver - 1) THEN {"stale"} ELSE {})
                      \cup (IF bever' > backend.ver THEN {"ahead"} ELSE {})
  /\ UNCHANGED <<cache, backend, savedver, acked>>

-----------------------------------------------------------------------------
UserStep ==
  \/ OpenHandle \/ OpenHandleFails \/ OpenHandleSpins
  \/ BeginWrite("header") \/ EndWrite \/ CloseHandle

WritebackStep == Sync \/ CopyHeader \/ CopyPayload \/ UploadFails \/ SyncEnds \/ SyncEndsErrored

CloseStep ==
  \/ CloseReturns \/ CloseFails \/ CloseInitializes \/ CloseWaitsForFetch \/ CloseWaits
  \/ CloseDirty \/ CloseEnds

(* What ends a hold of be.mu that began with SyncEnds or CloseEnds.         *)
WriterStep == SyncReturns \/ CloseWritten \/ CloseWrittenFails

FetchStep == FetchHeader \/ FetchPayload \/ FetchFails

(* Nobody holds be.mu; nobody but the manager does.                         *)
Unlocked == fate = "ok" /\ upload.pc # "close" /\ mgr.pc # "close"
ManagerMayRun == fate = "ok" /\ upload.pc # "close"

Next ==
  \/ /\ Unlocked
     /\ \/ OpenEntry \/ UserStep \/ BeginWrite("payload") \/ TruncateErrored
        \/ WritebackStep
        \/ BeginClose("evict") \/ BeginClose("drop")
        \/ CloseAbandons \/ FetchStep
  \/ ManagerMayRun /\ CloseStep
  \/ WriterStep
  \/ fate # "panic" /\ SaveState
  \/ Crash

Spec == Init /\ [][Next]_vars

(* Goroutines that can go on do, and the syncer finds a dirty entry again   *)
(* and again: a write may end between two of its looks.                     *)
FairSpec ==
  /\ Spec
  /\ WF_vars(ManagerMayRun /\ CloseStep)
  /\ WF_vars(WriterStep)
  /\ SF_vars(Unlocked /\ UserStep)
  /\ SF_vars(Unlocked /\ FetchStep)
  /\ SF_vars(Unlocked /\ (CopyHeader \/ CopyPayload \/ SyncEnds))
  /\ SF_vars(Unlocked /\ Sync)

-----------------------------------------------------------------------------
Version == 0..MaxVersion

(* A bound for TLC: behaviours are followed up to their second fault.       *)
OneFault == Cardinality(faults) <= 1

TypeOK ==
  /\ state \in {"Uninitialized", "Errored", "ErroredClosed", "DirtyClosing", "Closing", "Closed"} \cup Usable
  /\ listed \in BOOLEAN /\ fetch \in {"none", "scheduled", "header"} /\ closer \in BOOLEAN
  /\ cache \in [ver : Version, data : Version \cup {Hole}]
  /\ backend \in [ver : Version, data : Version \cup {Hole}]
  /\ {bever, savedver} \subseteq Version \cup {Unknown}
  /\ user \in {"idle", "opened", "open", "payload", "header"}
  /\ mgr \in [pc : {"idle", "close", "asleep", "woken", "refuse", "upload"}, why : {"none", "evict", "drop"}]
  /\ upload \in [by : {"none", "sync", "close"}, pc : {"none", "copy", "close"}, cachever : Version,
                 ver : Version \cup {NotRead}, data : Version \cup {Hole, NotRead}]
  /\ acked \in Version
  /\ faults \subseteq {"orphan", "query", "upload", "close", "file", "torn", "stale", "ahead"}
  /\ fate \in {"ok", "panic", "spin"} /\ crashes \in 0..MaxCrashes

(* Whenever be.mu is free, an entry the cache calls clean is the backend's  *)
(* blob, but for a payload whose header the user has yet to write: dropping *)
(* the cached file loses nothing.                                           *)
CleanIsStored ==
  Unlocked /\ state = "Clean" /\ faults \subseteq {"query", "upload", "file"} =>
    cache = backend \/ (HalfWritten /\ HasHandle /\ cache.ver = backend.ver)

(* Whatever is closed, evicted, dropped, refetched or interrupted, the last *)
(* version written is whole in the cached file or in the backend.           *)
NothingLost ==
  faults = {} =>
    \/ backend = [ver |-> acked, data |-> acked]
    \/ cache.ver = acked /\ cache.data \in {acked, acked + 1}

(* The version a process takes the backend to have is one the backend has,  *)
(* and is not above that of a file the process calls dirty: but for the     *)
(* time a writer is being closed, a Close of a writer that failed unseen,   *)
(* and a version saved in that time and restored by the next process.       *)
KnownVersionStored ==
  upload.pc # "close" /\ faults \cap {"close", "ahead"} = {} =>
    /\ bever <= backend.ver
    /\ state = "Dirty" => bever <= cache.ver

(* A manager that waits for progressCond waits for something that is going  *)
(* on.  The exceptions are the Broadcast that a failed writeback leaves out *)
(* and the DirtyClosing or Closing that a failed read of the version or a   *)
(* failed close of the cached file leaves behind.                           *)
NoLostWakeup ==
  fate = "ok" /\ mgr.pc = "asleep" /\ faults \cap {"upload", "query", "file"} = {} =>
    state \in {"WritebackInProgress", "StaleWritebackInProgress"} /\ upload.by = "sync"

(* What was written reaches the backend, unless something fails, the        *)
(* process ends or the entry has left the map under its user.               *)
EventuallyStored ==
  \A v \in 1..MaxVersion :
    acked = v ~> backend.ver >= v \/ faults # {} \/ fate # "ok" \/ crashes > 0

(* "Cache for blob %q ver %v is newer than backend %v when open. Previous   *)
(* sync stopped?": a writeback that the end of the process has interrupted  *)
(* is noticed, and made up for, when the blob is opened.                    *)
InterruptedSyncNoticed ==
  [][user = "opened" /\ user' = "open" /\ state = "Uninitialized" /\ faults \subseteq {"ahead"}
       => (cache.ver > backend.ver => state' = "Dirty")]_vars

(* No operation meets a state it has no transition for.                     *)
NoPanic == fate # "panic"

(* "blob removals for failed-to-invalidate caches": a cached file is        *)
(* removed only if the backend has what is in it.                           *)
RemovedOnlyIfStored == [][cache # Empty /\ cache' = Empty => cache.ver <= backend.ver]_vars
=============================================================================
