-------------------------- MODULE GlobalLockProofs --------------------------
(***************************************************************************)
(* The global lock excludes for any number of processes, retries and lost  *)
(* commits, provided that host names differ and until somebody calls       *)
(* ForceUnlock; Unlock spares the lock of others also after that.          *)
(***************************************************************************)
EXTENDS GlobalLock, TLAPS

(* What an open transaction has read is still there, as long as Datastore   *)
(* would let it commit.                                                     *)
ReadStillValid ==
  \A l \in Locker :
    pc[l] = "commit" /\ l \notin conflicted =>
      /\ op[l] \in LockOps => entry = NoEntry
      /\ op[l] \in UnlockOps => entry # NoEntry /\ entry.HostName = HostName[l]

(* Every step keeps every variable in its type.                             *)
THEOREM TypeCorrect == Spec => []TypeOK
<1>1. Init => TypeOK
  BY RetryAssumption DEF Init, TypeOK
<1>2. TypeOK /\ [Next]_vars => TypeOK'
  <2> SUFFICES ASSUME TypeOK, [Next]_vars PROVE TypeOK'
    OBVIOUS
  <2> USE RetryAssumption DEF TypeOK, LockOps, UnlockOps
  <2>1. CASE UNCHANGED vars
    BY <2>1 DEF vars
  <2>2. ASSUME NEW l \in Locker, Lock(l), UNCHANGED forced PROVE TypeOK'
    BY <2>2 DEF Lock, Call
  <2>3. ASSUME NEW l \in Locker, Unlock(l), UNCHANGED forced PROVE TypeOK'
    BY <2>3 DEF Unlock, Call
  <2>4. ASSUME NEW l \in Locker, ForceUnlock(l) PROVE TypeOK'
    BY <2>4 DEF ForceUnlock, Call
  <2>5. ASSUME NEW l \in Locker, Exit(l), UNCHANGED forced PROVE TypeOK'
    BY <2>5 DEF Exit, Return
  <2>6. ASSUME NEW l \in Locker, GetFails(l), UNCHANGED forced PROVE TypeOK'
    BY <2>6 DEF GetFails, RetryOrGiveUp, Return, AfterError
  <2>7. ASSUME NEW l \in Locker, TryLockOnceGet(l), UNCHANGED forced PROVE TypeOK'
    BY <2>7 DEF TryLockOnceGet, GetRefuses, GetSucceeds, Return, AfterError
  <2>8. ASSUME NEW l \in Locker, TryLockOnceCommit(l), UNCHANGED forced PROVE TypeOK'
    BY <2>8 DEF TryLockOnceCommit, TryLockOnceRow, Apply, RetryOrGiveUp, Return, AfterError
  <2>9. ASSUME NEW l \in Locker, UnlockInternalOnceGet(l), UNCHANGED forced PROVE TypeOK'
    BY <2>9 DEF UnlockInternalOnceGet, GetRefuses, GetSucceeds, Return, AfterError
  <2>10. ASSUME NEW l \in Locker, UnlockInternalOnceCommit(l), UNCHANGED forced PROVE TypeOK'
    BY <2>10 DEF UnlockInternalOnceCommit, Apply, RetryOrGiveUp, Return, AfterError
  <2>11. ASSUME NEW l \in Locker, ForceUnlockOnceGet(l), UNCHANGED forced PROVE TypeOK'
    BY <2>11 DEF ForceUnlockOnceGet, GetSucceeds
  <2>12. ASSUME NEW l \in Locker, ForceUnlockOnceCommit(l), UNCHANGED forced PROVE TypeOK'
    BY <2>12 DEF ForceUnlockOnceCommit, Apply, RetryOrGiveUp, Return, AfterError
  <2> QED
    BY <2>1, <2>2, <2>3, <2>4, <2>5, <2>6, <2>7, <2>8, <2>9, <2>10, <2>11, <2>12
       DEF Next, Step
<1> QED
  BY <1>1, <1>2, PTL DEF Spec

(* An open transaction that may still commit sees the row as it read it.    *)
LEMMA ReadsStayValid == Spec => []ReadStillValid
<1>1. Init => ReadStillValid
  BY DEF Init, ReadStillValid
<1>2. TypeOK /\ ReadStillValid /\ [Next]_vars => ReadStillValid'
  <2> SUFFICES ASSUME TypeOK, ReadStillValid, [Next]_vars PROVE ReadStillValid'
    OBVIOUS
  <2> USE DEF TypeOK, ReadStillValid, LockOps, UnlockOps
  <2>1. CASE UNCHANGED vars
    BY <2>1 DEF vars
  <2>2. ASSUME NEW l \in Locker, Lock(l), UNCHANGED forced PROVE ReadStillValid'
    BY <2>2 DEF Lock, Call
  <2>3. ASSUME NEW l \in Locker, Unlock(l), UNCHANGED forced PROVE ReadStillValid'
    BY <2>3 DEF Unlock, Call
  <2>4. ASSUME NEW l \in Locker, ForceUnlock(l) PROVE ReadStillValid'
    BY <2>4 DEF ForceUnlock, Call
  <2>5. ASSUME NEW l \in Locker, Exit(l), UNCHANGED forced PROVE ReadStillValid'
    BY <2>5 DEF Exit, Return
  <2>6. ASSUME NEW l \in Locker, GetFails(l), UNCHANGED forced PROVE ReadStillValid'
    BY <2>6 DEF GetFails, RetryOrGiveUp, Return, AfterError
  <2>7. ASSUME NEW l \in Locker, TryLockOnceGet(l), UNCHANGED forced PROVE ReadStillValid'
    BY <2>7 DEF TryLockOnceGet, GetRefuses, GetSucceeds, Return, AfterError
  <2>8. ASSUME NEW l \in Locker, TryLockOnceCommit(l), UNCHANGED forced PROVE ReadStillValid'
    BY <2>8 DEF TryLockOnceCommit, TryLockOnceRow, Apply, RetryOrGiveUp, Return, AfterError
  <2>9. ASSUME NEW l \in Locker, UnlockInternalOnceGet(l), UNCHANGED forced PROVE ReadStillValid'
    BY <2>9 DEF UnlockInternalOnceGet, CheckLock, LockEntry, GetRefuses, GetSucceeds, Return, AfterError
  <2>10. ASSUME NEW l \in Locker, UnlockInternalOnceCommit(l), UNCHANGED forced PROVE ReadStillValid'
    BY <2>10 DEF UnlockInternalOnceCommit, Apply, RetryOrGiveUp, Return, AfterError
  <2>11. ASSUME NEW l \in Locker, ForceUnlockOnceGet(l), UNCHANGED forced PROVE ReadStillValid'
    BY <2>11 DEF ForceUnlockOnceGet, GetSucceeds
  <2>12. ASSUME NEW l \in Locker, ForceUnlockOnceCommit(l), UNCHANGED forced PROVE ReadStillValid'
    BY <2>12 DEF ForceUnlockOnceCommit, Apply, RetryOrGiveUp, Return, AfterError
  <2> QED
    BY <2>1, <2>2, <2>3, <2>4, <2>5, <2>6, <2>7, <2>8, <2>9, <2>10, <2>11, <2>12
       DEF Next, Step
<1> QED
  BY <1>1, <1>2, TypeCorrect, PTL DEF Spec

(* Unless ForceUnlock has been called, no call is one.                      *)
NoForce == forced = {} => \A l \in Locker : op[l] # "ForceUnlock"

(* ForceUnlock, whose call sets forced, is the only way into that call.     *)
LEMMA NoForceCalls == Spec => []NoForce
<1>1. Init => NoForce
  BY DEF Init, NoForce
<1>2. TypeOK /\ NoForce /\ [Next]_vars => NoForce'
  <2> SUFFICES ASSUME TypeOK, NoForce, [Next]_vars PROVE NoForce'
    OBVIOUS
  <2> USE DEF TypeOK, NoForce, LockOps, UnlockOps
  <2>1. CASE UNCHANGED vars
    BY <2>1 DEF vars
  <2>2. ASSUME NEW l \in Locker, Lock(l), UNCHANGED forced PROVE NoForce'
    BY <2>2 DEF Lock, Call
  <2>3. ASSUME NEW l \in Locker, Unlock(l), UNCHANGED forced PROVE NoForce'
    BY <2>3 DEF Unlock, Call
  <2>4. ASSUME NEW l \in Locker, ForceUnlock(l) PROVE NoForce'
    BY <2>4 DEF ForceUnlock, Call
  <2>5. ASSUME NEW l \in Locker, Exit(l), UNCHANGED forced PROVE NoForce'
    BY <2>5 DEF Exit, Return
  <2>6. ASSUME NEW l \in Locker, GetFails(l), UNCHANGED forced PROVE NoForce'
    BY <2>6 DEF GetFails, RetryOrGiveUp, Return, AfterError
  <2>7. ASSUME NEW l \in Locker, TryLockOnceGet(l), UNCHANGED forced PROVE NoForce'
    BY <2>7 DEF TryLockOnceGet, GetRefuses, GetSucceeds, Return, AfterError
  <2>8. ASSUME NEW l \in Locker, TryLockOnceCommit(l), UNCHANGED forced PROVE NoForce'
    BY <2>8 DEF TryLockOnceCommit, TryLockOnceRow, Apply, RetryOrGiveUp, Return, AfterError
  <2>9. ASSUME NEW l \in Locker, UnlockInternalOnceGet(l), UNCHANGED forced PROVE NoForce'
    BY <2>9 DEF UnlockInternalOnceGet, CheckLock, LockEntry, GetRefuses, GetSucceeds, Return, AfterError
  <2>10. ASSUME NEW l \in Locker, UnlockInternalOnceCommit(l), UNCHANGED forced PROVE NoForce'
    BY <2>10 DEF UnlockInternalOnceCommit, Apply, RetryOrGiveUp, Return, AfterError
  <2>11. ASSUME NEW l \in Locker, ForceUnlockOnceGet(l), UNCHANGED forced PROVE NoForce'
    BY <2>11 DEF ForceUnlockOnceGet, GetSucceeds
  <2>12. ASSUME NEW l \in Locker, ForceUnlockOnceCommit(l), UNCHANGED forced PROVE NoForce'
    BY <2>12 DEF ForceUnlockOnceCommit, Apply, RetryOrGiveUp, Return, AfterError
  <2> QED
    BY <2>1, <2>2, <2>3, <2>4, <2>5, <2>6, <2>7, <2>8, <2>9, <2>10, <2>11, <2>12
       DEF Next, Step
<1> QED
  BY <1>1, <1>2, TypeCorrect, PTL DEF Spec

(* Whoever serves the file system for writing owns the row, if names differ *)
(* and until ForceUnlock is called.                                         *)
THEOREM HolderOwns ==
  ASSUME HostNamesDiffer
  PROVE  Spec => []HolderOwnsEntry
<1>1. Init => HolderOwnsEntry
  BY DEF Init, HolderOwnsEntry
<1>2. TypeOK /\ ReadStillValid /\ HolderOwnsEntry /\ NoForce /\ [Next]_vars => HolderOwnsEntry'
  <2> SUFFICES ASSUME TypeOK, ReadStillValid, HolderOwnsEntry, NoForce, [Next]_vars
               PROVE  HolderOwnsEntry'
    OBVIOUS
  <2> USE NoEntryAssumption DEF TypeOK, ReadStillValid, HolderOwnsEntry, LockOps, UnlockOps
  <2>1. CASE UNCHANGED vars
    BY <2>1 DEF vars
  <2>2. ASSUME NEW l \in Locker, Lock(l), UNCHANGED forced PROVE HolderOwnsEntry'
    BY <2>2 DEF Lock, Call
  <2>3. ASSUME NEW l \in Locker, Unlock(l), UNCHANGED forced PROVE HolderOwnsEntry'
    BY <2>3 DEF Unlock, Call
  <2>4. ASSUME NEW l \in Locker, ForceUnlock(l) PROVE HolderOwnsEntry'
    BY <2>4 DEF ForceUnlock, Call
  <2>5. ASSUME NEW l \in Locker, Exit(l), UNCHANGED forced PROVE HolderOwnsEntry'
    BY <2>5 DEF Exit, Return
  <2>6. ASSUME NEW l \in Locker, GetFails(l), UNCHANGED forced PROVE HolderOwnsEntry'
    BY <2>6 DEF GetFails, RetryOrGiveUp, Return, AfterError
  <2>7. ASSUME NEW l \in Locker, TryLockOnceGet(l), UNCHANGED forced PROVE HolderOwnsEntry'
    BY <2>7 DEF TryLockOnceGet, GetRefuses, GetSucceeds, Return, AfterError
  <2>8. ASSUME NEW l \in Locker, TryLockOnceCommit(l), UNCHANGED forced PROVE HolderOwnsEntry'
    BY <2>8 DEF TryLockOnceCommit, TryLockOnceRow, Apply, RetryOrGiveUp, Return, AfterError
  <2>9. ASSUME NEW l \in Locker, UnlockInternalOnceGet(l), UNCHANGED forced PROVE HolderOwnsEntry'
    BY <2>9 DEF UnlockInternalOnceGet, CheckLock, LockEntry, GetRefuses, GetSucceeds, Return, AfterError
  <2>10. ASSUME NEW l \in Locker, UnlockInternalOnceCommit(l), UNCHANGED forced PROVE HolderOwnsEntry'
    BY <2>10 DEF UnlockInternalOnceCommit, HostNamesDiffer, LockEntry, Apply, RetryOrGiveUp, Return, AfterError
  <2>11. ASSUME NEW l \in Locker, ForceUnlockOnceGet(l), UNCHANGED forced PROVE HolderOwnsEntry'
    BY <2>11 DEF ForceUnlockOnceGet, GetSucceeds
  <2>12. ASSUME NEW l \in Locker, ForceUnlockOnceCommit(l), UNCHANGED forced PROVE HolderOwnsEntry'
    BY <2>12 DEF NoForce, ForceUnlockOnceCommit, Apply, RetryOrGiveUp, Return, AfterError
  <2> QED
    BY <2>1, <2>2, <2>3, <2>4, <2>5, <2>6, <2>7, <2>8, <2>9, <2>10, <2>11, <2>12
       DEF Next, Step
<1> QED
  BY <1>1, <1>2, TypeCorrect, ReadsStayValid, NoForceCalls, PTL DEF Spec

(* No two processes serve the file system for writing, until then.          *)
THEOREM Exclusion ==
  ASSUME HostNamesDiffer
  PROVE  Spec => []MutualExclusion
<1>1. HolderOwnsEntry => MutualExclusion
  BY DEF HolderOwnsEntry, MutualExclusion, LockEntry
<1> QED
  BY <1>1, HolderOwns, PTL

(* Unlock removes no other locker's row, whoever calls ForceUnlock.         *)
THEOREM UnlockSpares ==
  ASSUME HostNamesDiffer
  PROVE  Spec => UnlockSparesOthers
<1>1. TypeOK /\ ReadStillValid /\ [Next]_vars =>
        [\A l \in Locker :
           op[l] = "Unlock" /\ UnlockInternalOnceCommit(l) /\ entry' # entry
             => entry.CreatedAt = l]_vars
  BY DEF TypeOK, ReadStillValid, UnlockInternalOnceCommit, Apply, LockEntry, UnlockOps, HostNamesDiffer
<1> QED
  BY <1>1, TypeCorrect, ReadsStayValid, PTL DEF Spec, UnlockSparesOthers
=============================================================================
