----------------------------- MODULE GlobalLock -----------------------------
(***************************************************************************)
(* The global lock of an otaru file system: one row in Cloud Datastore     *)
(* that every process allowed to write the file system must own.           *)
(* gcloud/datastore/globallock.go, as used by facade/otaru.go and the      *)
(* deleteallblobs and globallock commands.                                 *)
(*                                                                         *)
(* A GlobalLocker's call runs as up to numRetries attempts, each a         *)
(* Datastore transaction of two steps: read the row, then commit.  Between *)
(* the two any other process may commit.  Datastore is external: it aborts *)
(* a transaction whose row changed since it was read, may fail any call,   *)
(* and may report an error for a commit it did apply.                      *)
(***************************************************************************)
EXTENDS Naturals

CONSTANTS
  Locker,       \* GlobalLocker instances: one per otaru process
  Host,         \* the names a locker can record in the row
  HostName,     \* HostName[l]: the name locker l was created with
  Operators,    \* the lockers whose user may call ForceUnlock
  numRetries,   \* attempts of one call (RetryIfNeeded)
  NoEntry       \* the row does not exist

ASSUME LockerAssumption == HostName \in [Locker -> Host] /\ Operators \subseteq Locker
ASSUME RetryAssumption == numRetries \in Nat \ {0}

(* GenHostName appends the pid to the host's name, so two running servers   *)
(* differ; the command line tools use one fixed name each.                  *)
HostNamesDiffer == \A l, m \in Locker : HostName[l] = HostName[m] => l = m

(* The row: CreatedAt is the time of the successful attempt, which no two   *)
(* lockers share; the locker itself stands for it.                          *)
LockEntry(l) == [HostName |-> HostName[l], CreatedAt |-> l]

ASSUME NoEntryAssumption == \A l \in Locker : NoEntry # LockEntry(l)

VARIABLES
  entry,       \* the row, or NoEntry
  op,          \* the call a locker is in
  pc,          \* where that call is, or what its process is when in none
  attempt,     \* which attempt of the call is running
  conflicted,  \* the lockers whose open transaction read a row that has changed
  forced       \* history: the lockers that have called ForceUnlock

vars == <<entry, op, pc, attempt, conflicted, forced>>

LockOps == {"Lock", "LockReadOnly"}
UnlockOps == {"Unlock", "UnlockIgnoreCreatedAt"}

Init ==
  /\ entry = NoEntry
  /\ op = [l \in Locker |-> "none"]
  /\ pc = [l \in Locker |-> "idle"]
  /\ attempt = [l \in Locker |-> 0]
  /\ conflicted = {}
  /\ forced = {}

-----------------------------------------------------------------------------
(* One call of a GlobalLocker method                                        *)

Call(l, o) ==
  /\ op' = [op EXCEPT ![l] = o]
  /\ pc' = [pc EXCEPT ![l] = "get"]
  /\ attempt' = [attempt EXCEPT ![l] = 1]
  /\ UNCHANGED <<entry, conflicted>>

(* The call returns and leaves the process in state p.                      *)
Return(l, p) ==
  /\ op' = [op EXCEPT ![l] = "none"]
  /\ pc' = [pc EXCEPT ![l] = p]
  /\ attempt' = [attempt EXCEPT ![l] = 0]

(* What the process is after a call that failed: a server whose Lock failed *)
(* still runs the deferred Close, a failed unlock ends the process.         *)
AfterError(l) == IF op[l] = "Lock" THEN "refused" ELSE "idle"

(* Mutant: one attempt too many, i <= numRetries.                           *)
RetryOneMore(l) ==
  \/ /\ attempt[l] <= numRetries
     /\ attempt' = [attempt EXCEPT ![l] = @ + 1]
     /\ pc' = [pc EXCEPT ![l] = "get"]
     /\ UNCHANGED op
  \/ Return(l, AfterError(l))

(* Mutant: the attempts are not counted.                                    *)
RetryForever(l) ==
  \/ /\ pc' = [pc EXCEPT ![l] = "get"]
     /\ UNCHANGED <<attempt, op>>
  \/ Return(l, AfterError(l))

(* RetryIfNeeded: an error it recognises starts the next attempt while      *)
(* there is one left; any other is returned.                                *)
RetryOrGiveUp(l) ==
  \/ /\ attempt[l] < numRetries
     /\ attempt' = [attempt EXCEPT ![l] = @ + 1]
     /\ pc' = [pc EXCEPT ![l] = "get"]
     /\ UNCHANGED op
  \/ Return(l, AfterError(l))

(* Datastore runs a transaction's commit: the row becomes e, and every      *)
(* other open transaction that read it can no longer commit.                *)
Apply(l, e) ==
  /\ l \notin conflicted
  /\ entry' = e
  /\ conflicted' = IF e = entry THEN conflicted
                   ELSE {m \in Locker : m # l /\ pc[m] = "commit"}

(* The read step of an attempt fails.                                       *)
GetFails(l) ==
  /\ pc[l] = "get"
  /\ RetryOrGiveUp(l)
  /\ UNCHANGED <<entry, conflicted>>

(* The read step succeeds and the attempt goes on to its commit.            *)
GetSucceeds(l) ==
  /\ pc' = [pc EXCEPT ![l] = "commit"]
  /\ conflicted' = conflicted \ {l}
  /\ UNCHANGED <<entry, op, attempt>>

(* The read step decides the outcome: the transaction is rolled back.       *)
GetRefuses(l) ==
  /\ Return(l, AfterError(l))
  /\ UNCHANGED <<entry, conflicted>>

-----------------------------------------------------------------------------
(* Lock                                                                     *)

Lock(l) == pc[l] = "idle" /\ \E o \in LockOps : Call(l, o)

(* Mutant: an existing row is overwritten.                                  *)
TryLockOnceGetAnyRow(l) == pc[l] = "get" /\ op[l] \in LockOps /\ GetSucceeds(l)

TryLockOnceGet(l) ==
  /\ pc[l] = "get"
  /\ op[l] \in LockOps
  /\ \/ entry # NoEntry /\ GetRefuses(l)          \* ErrLockTaken
     \/ entry = NoEntry /\ GetSucceeds(l)

TryLockOnceRow(l) == IF op[l] = "Lock" THEN LockEntry(l) ELSE entry

TryLockOnceCommit(l) ==
  /\ pc[l] = "commit"
  /\ op[l] \in LockOps
  /\ \/ /\ Apply(l, TryLockOnceRow(l))
        /\ Return(l, IF op[l] = "Lock" THEN "held" ELSE "reading")
     \/ Apply(l, TryLockOnceRow(l)) /\ RetryOrGiveUp(l)
     \/ UNCHANGED <<entry, conflicted>> /\ RetryOrGiveUp(l)

-----------------------------------------------------------------------------
(* Unlock                                                                   *)

checkCreatedAt == FALSE

closeEnough(a, b) == a = b

(* Mutant: whose lock it is does not matter.                                *)
CheckLockAnyHost(a, e, checkCreatedAtFlag) == checkCreatedAt => closeEnough(a.CreatedAt, e.CreatedAt)

(* The constant, not the flag the caller passes, decides whether CreatedAt  *)
(* is compared.                                                             *)
CheckLock(a, e, checkCreatedAtFlag) ==
  /\ checkCreatedAt => closeEnough(a.CreatedAt, e.CreatedAt)
  /\ a.HostName = e.HostName

(* Otaru.Close runs Unlock also when the server never got the lock; the     *)
(* globallock command runs it in a process that never called Lock.          *)
Unlock(l) ==
  \/ pc[l] \in {"held", "refused"} /\ Call(l, "Unlock")
  \/ pc[l] = "idle" /\ Call(l, "UnlockIgnoreCreatedAt")

UnlockInternalOnceGet(l) ==
  /\ pc[l] = "get"
  /\ op[l] \in UnlockOps
  /\ \/ entry = NoEntry /\ GetRefuses(l)          \* ErrNoLock
     \/ /\ entry # NoEntry
        /\ IF CheckLock(LockEntry(l), entry, op[l] = "UnlockIgnoreCreatedAt")
           THEN GetSucceeds(l)
           ELSE GetRefuses(l)                     \* ErrLockTaken

UnlockInternalOnceCommit(l) ==
  /\ pc[l] = "commit"
  /\ op[l] \in UnlockOps
  /\ \/ Apply(l, NoEntry) /\ Return(l, "idle")
     \/ Apply(l, NoEntry) /\ RetryOrGiveUp(l)
     \/ UNCHANGED <<entry, conflicted>> /\ RetryOrGiveUp(l)

-----------------------------------------------------------------------------
(* ForceUnlock                                                              *)

ForceUnlock(l) ==
  /\ l \in Operators /\ pc[l] = "idle" /\ Call(l, "ForceUnlock")
  /\ forced' = forced \cup {l}

(* Whatever the row holds, the attempt goes on.                             *)
ForceUnlockOnceGet(l) ==
  pc[l] = "get" /\ op[l] = "ForceUnlock" /\ GetSucceeds(l)

ForceUnlockOnceCommit(l) ==
  /\ pc[l] = "commit"
  /\ op[l] = "ForceUnlock"
  /\ \/ Apply(l, NoEntry) /\ Return(l, "idle")
     \/ Apply(l, NoEntry) /\ RetryOrGiveUp(l)
     \/ UNCHANGED <<entry, conflicted>> /\ RetryOrGiveUp(l)

-----------------------------------------------------------------------------
(* A read-only server, or a process that gave up, exits; any process may    *)
(* crash.  The row stays as it is; the name is free for a new process.      *)
Exit(l) ==
  /\ pc[l] # "idle"
  /\ Return(l, "idle")
  /\ UNCHANGED <<entry, conflicted>>

Step(l) ==
  /\ \/ GetFails(l)
     \/ TryLockOnceGet(l)
     \/ TryLockOnceCommit(l)
     \/ UnlockInternalOnceGet(l)
     \/ UnlockInternalOnceCommit(l)
     \/ ForceUnlockOnceGet(l)
     \/ ForceUnlockOnceCommit(l)
  /\ UNCHANGED forced

Next ==
  \E l \in Locker :
    \/ (Lock(l) \/ Unlock(l) \/ Exit(l)) /\ UNCHANGED forced
    \/ ForceUnlock(l)
    \/ Step(l)

Spec == Init /\ [][Next]_vars

(* A call that was made is executed: the process runs or crashes.           *)
FairSpec == Spec /\ \A l \in Locker : WF_vars(Step(l))

-----------------------------------------------------------------------------
TypeOK ==
  /\ entry \in {NoEntry} \cup {LockEntry(l) : l \in Locker}
  /\ op \in [Locker -> LockOps \cup UnlockOps \cup {"ForceUnlock", "none"}]
  /\ pc \in [Locker -> {"idle", "get", "commit", "held", "reading", "refused"}]
  /\ attempt \in [Locker -> 0..numRetries]
  /\ conflicted \subseteq Locker
  /\ forced \subseteq Operators

(* Until somebody calls ForceUnlock, a process that serves the file system *)
(* for writing owns the row: neither a commit whose outcome was lost, nor a *)
(* retry of an unlock that was already done, nor the unlock a refused       *)
(* server issues when it closes takes the row away from its holder.         *)
HolderOwnsEntry == forced = {} => \A l \in Locker : pc[l] = "held" => entry = LockEntry(l)

(* Until then no two processes serve the file system for writing.           *)
MutualExclusion == forced = {} => \A l, m \in Locker : pc[l] = "held" /\ pc[m] = "held" => l = m

(* Unlock only removes a row that this locker wrote (the comment on Unlock: *)
(* with another GlobalLocker's lock it fails with ErrLockTaken), even where *)
(* ForceUnlock has let another locker in meanwhile, and although Unlock is  *)
(* retried when the outcome of its commit was lost.                         *)
UnlockSparesOthers ==
  [][\A l \in Locker :
       op[l] = "Unlock" /\ UnlockInternalOnceCommit(l) /\ entry' # entry
         => entry.CreatedAt = l]_vars

(* A call of a locker returns: the retries end.                             *)
CallsReturn == \A l \in Locker : pc[l] \in {"get", "commit"} ~> pc[l] \notin {"get", "commit"}
=============================================================================
