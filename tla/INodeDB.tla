------------------------------- MODULE INodeDB -------------------------------
(***************************************************************************)
(* The inode database (inodedb/inodedb.go) behind its service goroutine    *)
(* (inodedb/dbservice.go): every request is one atomic step.  The clients  *)
(* are calls of the filesystem layer (filesystem/filesystem.go), which     *)
(* lock a node, apply transactions to it and unlock it in separate         *)
(* requests.  A transaction that fails is undone by restoring the newest   *)
(* snapshot and replaying the log.  Snapshots are encoded in the service   *)
(* goroutine and become visible later.                                     *)
(*                                                                         *)
(* The log is first in memory and then in Datastore: a rollback reads all  *)
(* of it, a new process what has come to Datastore.  TxLogIO models how it *)
(* is stored and read, and SnapshotIO how snapshots are named, found and   *)
(* collected.                                                              *)
(***************************************************************************)
EXTENDS INodeState, FiniteSetsExt

CONSTANTS
  Client,
  MaxVersion,       \* bound: transactions that commit
  MaxTicket         \* bound: tickets handed out between two rollbacks

ASSUME DBAssumption ==
  /\ MaxVersion \in Nat \ {0}
  /\ MaxTicket \in Nat \ {0, 1}

VARIABLES
  state,        \* db.state
  log,          \* the transactions that were logged
  durable,      \* how many of them a new process finds: they are in the newest snapshot
                \* or in Datastore
  snapshot,     \* the newest snapshot a restore would find
  snapshotVer,  \* the version SaveSnapshot believes is saved
  saving,       \* snapshots encoded and not yet visible, at most one, each with
                \* the version its state object stopped at, or Live
  client,       \* what each client holds and does next
  newest,       \* "detached" if the newest snapshot was encoded before a rollback and
                \* saved after it, else "current" (history)
  stale,        \* clients that held locks at a rollback may still be at work (history)
  failed        \* a restore failed: the process panicked, or does not start

vars == <<state, log, durable, snapshot, snapshotVer, saving, client, newest, stale, failed>>

Live == 0   \* the state object is still db.state

Idle == [pc |-> "idle", id |-> NoID, ticket |-> NoTicket]

NobodyHolds(clients) == \A c \in Client : clients[c].pc = "idle"

InitTx == [TxID |-> 1, ops |-> <<InitializeFileSystemOp>>]

(* NewEmptyDB: the root directory is created and a snapshot of it saved.    *)
Init ==
  /\ state = ApplyTransaction(NewDBState, InitTx).state
  /\ log = <<InitTx>>
  /\ durable = 1
  /\ snapshot = SnapshotOf(state)
  /\ snapshotVer = 1
  /\ saving = {}
  /\ client = [c \in Client |-> Idle]
  /\ newest = "current"
  /\ stale = FALSE
  /\ failed = FALSE

-----------------------------------------------------------------------------
(* Mutants: the snapshot alone is restored; the transaction that made the   *)
(* snapshot is applied once more; what is in memory only is not read.       *)
RestoreWithoutReplay(txs) == ok(FromSnapshot(snapshot))

RestoreFromSnapshotVersion(txs) ==
  Replay(FromSnapshot(snapshot), SubSeq(txs, snapshot.version, Len(txs)))

RestoreStored(txs) ==
  Replay(FromSnapshot(snapshot), SubSeq(txs, snapshot.version + 1, durable))

(* RestoreVersion, if a query of the log answers txs.                       *)
RestoreVersion(txs) ==
  Replay(FromSnapshot(snapshot), SubSeq(txs, snapshot.version + 1, Len(txs)))

(* The state is restored, or the process panics or does not start; a replay *)
(* that fails restores and replays again, without end.                      *)
Restore(txs, clients) ==
  /\ LET r == RestoreVersion(txs)
     IN IF r.ok THEN state' = r.state /\ log' = txs /\ UNCHANGED failed
        ELSE failed' = TRUE /\ UNCHANGED <<state, log>>
  /\ snapshotVer' = snapshot.version
  /\ client' = clients
  /\ stale' = ~NobodyHolds(clients)
  /\ UNCHANGED <<durable, snapshot, newest>>

(* The rollback replaced db.state; a save in flight keeps the old object.   *)
DetachSaves ==
  saving' = {[save EXCEPT !.label = IF @ = Live THEN state.version ELSE @] : save \in saving}

Commit(tx, new, clients) ==
  /\ Len(log) < MaxVersion
  /\ state' = new
  /\ log' = Append(log, tx)
  /\ client' = clients
  /\ UNCHANGED <<durable, snapshot, snapshotVer, saving, newest, stale, failed>>

(* A failing operation.                                                     *)
Rollback(clients) == Restore(log, clients) /\ DetachSaves

(* DB.ApplyTransaction for TxID AnyVersion, as every client calls it, with  *)
(* one of the given lists of operations.  All that fail have one effect.    *)
Request(opslists, clients) ==
  LET tx(ops) == [TxID |-> state.version + 1, ops |-> ops]
      result == [ops \in opslists |-> ApplyTransaction(state, tx(ops))]
  IN \/ \E ops \in opslists : result[ops].ok /\ Commit(tx(ops), result[ops].state, clients)
     \/ ~(\A ops \in opslists : result[ops].ok) /\ Rollback(clients)

-----------------------------------------------------------------------------
(* Locks                                                                    *)

(* Mutant: a node that is locked is locked again.                           *)
LockNodeTwice(c, id, lastID, pc) ==
  /\ state.lastTicket < MaxTicket
  /\ state' = [state EXCEPT !.lastID = lastID, !.lastTicket = @ + 1,
                            !.nodeLocks[id] = state.lastTicket + 1]
  /\ client' = [client EXCEPT ![c] = [Idle EXCEPT !.pc = pc, !.id = id,
                                                  !.ticket = state.lastTicket + 1]]

(* DB.LockNode; ErrLockTaken leaves the client as it was.                   *)
LockNode(c, id, lastID, pc) ==
  IF state.nodeLocks[id] # NoTicket
  THEN state' = [state EXCEPT !.lastID = lastID] /\ UNCHANGED client
  ELSE /\ state.lastTicket < MaxTicket
       /\ state' = [state EXCEPT !.lastID = lastID, !.lastTicket = @ + 1,
                                 !.nodeLocks[id] = state.lastTicket + 1]
       /\ client' = [client EXCEPT ![c] = [Idle EXCEPT !.pc = pc, !.id = id,
                                                       !.ticket = state.lastTicket + 1]]

(* FileSystem.createNode, first request: a new ID is allocated and locked.  *)
LockNewNode(c) ==
  /\ client[c].pc = "idle"
  /\ state.lastID < MaxID
  /\ LockNode(c, state.lastID + 1, state.lastID + 1, "new")
  /\ UNCHANGED <<log, durable, snapshot, snapshotVer, saving, newest, stale, failed>>

(* FileSystem.OpenFile for writing: the node is looked up and locked.       *)
QueryNode(c) ==
  /\ client[c].pc = "idle"
  /\ \E id \in ID : Exists(state, id) /\ LockNode(c, id, state.lastID, "locked")
  /\ UNCHANGED <<log, durable, snapshot, snapshotVer, saving, newest, stale, failed>>

(* Mutant: the lock is not deleted.                                         *)
UnlockNodeKeepsLock(c) ==
  /\ client[c].pc # "idle"
  /\ client' = [client EXCEPT ![c] = Idle]
  /\ stale' = (stale /\ ~NobodyHolds(client'))
  /\ UNCHANGED <<state, log, durable, snapshot, snapshotVer, saving, newest, failed>>

(* DB.UnlockNode; a lock that is another's stays.                           *)
UnlockNode(c) ==
  /\ client[c].pc # "idle"
  /\ state' = IF CheckLock(state, client[c].id, client[c].ticket, TRUE)
              THEN [state EXCEPT !.nodeLocks[client[c].id] = NoTicket]
              ELSE state
  /\ client' = [client EXCEPT ![c] = Idle]
  /\ stale' = (stale /\ ~NobodyHolds(client'))
  /\ UNCHANGED <<log, durable, snapshot, snapshotVer, saving, newest, failed>>

-----------------------------------------------------------------------------
(* Transactions                                                             *)

(* FileSystem.createNode, second request; then the deferred UnlockNode.  A  *)
(* rollback in between may have let another client create the node.         *)
CreateNodeTx(c) ==
  /\ client[c].pc = "new"
  /\ Request({<<CreateNodeOp(client[c].id, client[c].ticket, type, dir),
                HardLinkOp(dir, name, client[c].id)>> :
                 dir \in ID \ {client[c].id}, name \in Name, type \in {"file", "dir"}},
             [client EXCEPT ![c].pc = "unlock"])

(* An open file writes its chunks, or its size.                             *)
UpdateContentTx(c) ==
  /\ client[c].pc = "locked"
  /\ IsFile(state, client[c].id)
  /\ Request({<<UpdateContentOp(kind, client[c].id, client[c].ticket, content)>> :
                 kind \in {"UpdateChunks", "UpdateSize"}, content \in Content}, client)

RenameTx ==
  Request({<<RenameOp(srcdir, srcname, dstdir, dstname)>> :
             srcdir \in ID, dstdir \in ID, srcname \in Name, dstname \in Name}, client)

RemoveTx == Request({<<RemoveOp(dir, name)>> : dir \in ID, name \in Name}, client)

(* FileSystem.SetAttr, when all attributes are given.                       *)
SetAttrTx ==
  Request({<<UpdateAttrOp(id, attr), UpdateModifiedTOp(id)>> : id \in ID, attr \in Attr}, client)

-----------------------------------------------------------------------------
(* Snapshots and the stored log                                             *)

NewSnapshot(ss) == snapshot' = ss /\ durable' = Max({durable, ss.version})

(* DB.Sync: the service goroutine waits until the snapshot is visible.      *)
Sync ==
  /\ saving = {}
  /\ snapshotVer # state.version
  /\ NewSnapshot(SnapshotOf(state))
  /\ snapshotVer' = state.version
  /\ newest' = "current"
  /\ UNCHANGED <<state, log, saving, client, stale, failed>>

(* DB.TriggerSync by the periodic job: encoded now ...                      *)
TriggerSync ==
  /\ saving = {}
  /\ snapshotVer # state.version
  /\ saving' = {[ss |-> SnapshotOf(state), label |-> Live]}
  /\ UNCHANGED <<state, log, durable, snapshot, snapshotVer, client, newest, stale, failed>>

(* ... and written in the background.  The version of the state object at   *)
(* that time is taken for the version saved.                                *)
SnapshotSaved ==
  /\ \E save \in saving :
       /\ NewSnapshot(save.ss)
       /\ snapshotVer' = IF save.label = Live THEN state.version ELSE save.label
       /\ newest' = IF save.label = Live THEN "current" ELSE "detached"
  /\ saving' = {}
  /\ UNCHANGED <<state, log, client, stale, failed>>

(* The log's batch comes to Datastore (TxLogIO's Sync).                     *)
LogSynced ==
  /\ durable < Len(log) /\ durable' = Len(log)
  /\ UNCHANGED <<state, log, snapshot, snapshotVer, saving, client, newest, stale, failed>>

(* The process ends, by a crash or by Close, which does not store the log,  *)
(* and another starts: NewDB.                                               *)
Restart ==
  /\ saving' = {}
  /\ Restore(SubSeq(log, 1, durable), [c \in Client |-> Idle])

-----------------------------------------------------------------------------
Next ==
  /\ ~failed
  /\ \/ \E c \in Client :
          \/ LockNewNode(c)
          \/ QueryNode(c)
          \/ UnlockNode(c)
          \/ CreateNodeTx(c)
          \/ UpdateContentTx(c)
     \/ RenameTx
     \/ RemoveTx
     \/ SetAttrTx
     \/ Sync
     \/ TriggerSync
     \/ SnapshotSaved
     \/ LogSynced
     \/ Restart

Spec == Init /\ [][Next]_vars

-----------------------------------------------------------------------------
(* The nodes but for the ParentID of directories, which a restore forgets.  *)
Nodes(s) == [i \in ID |-> [s.nodes[i] EXCEPT !.ParentID = NoID]]

TypeOK ==
  /\ state.nodes \in [ID -> Node]
  /\ state.lastID \in 0..MaxID
  /\ state.version = Len(log)
  /\ state.lastTicket \in 1..MaxTicket
  /\ state.nodeLocks \in [ID -> 0..MaxTicket]
  /\ durable \in snapshot.version..Len(log)
  /\ snapshot.version \in 1..state.version
  /\ snapshotVer \in 1..state.version

(* No step undoes a transaction that is in the newest snapshot or in        *)
(* Datastore; only the end of the process undoes one that is in neither;    *)
(* and a step that leaves the version alone (a failed transaction and its   *)
(* rollback, a restart, a lock, a snapshot) changes no node, but for what a *)
(* replay changes of every node it touches, a ModifiedT of the clock.       *)
CommitsKept ==
  [][/\ state'.version >= durable
     /\ state'.version < state.version => NobodyHolds(client') /\ saving' = {}
     /\ state'.version = state.version => Nodes(state') = Nodes(state)]_vars

(* However often it was rolled back, restored from snapshots and cut short  *)
(* by a restart, the database is what the transactions in the log make of   *)
(* an empty one.                                                            *)
StateIsLogged ==
  LET r == Replay(NewDBState, log) IN r.ok /\ Nodes(r.state) = Nodes(state)

(* What a client believes to have locked, the database keeps locked for it. *)
LocksHonoured ==
  \A c \in Client : client[c].pc # "idle" => state.nodeLocks[client[c].id] = client[c].ticket

(* Except after a rollback, until the clients that held locks at the time   *)
(* are done, a lock is honoured and no two clients have locked one node.    *)
LockExclusive ==
  ~stale =>
    /\ LocksHonoured
    /\ \A c, d \in Client :
         client[c].pc # "idle" /\ client[d].pc # "idle" /\ client[c].id = client[d].id => c = d

(* A lock the database honours is one some client holds or held before a    *)
(* rollback: no node stays locked with nobody to unlock it.                 *)
NoOrphanLock ==
  \A id \in ID : state.nodeLocks[id] # NoTicket /\ ~failed =>
    \E c \in Client : client[c].pc # "idle" /\ client[c].id = id
                      /\ client[c].ticket = state.nodeLocks[id]

(* At any time the newest snapshot and the log give back the state: every   *)
(* rollback succeeds ("DB rollback failed!!!"), and every restart.          *)
AlwaysRecovers ==
  LET r == RestoreVersion(log) IN ~failed /\ r.ok /\ Nodes(r.state) = Nodes(state)

(* The same, unless the newest snapshot is of a state that was rolled back  *)
(* while the snapshot was written.                                          *)
Recovers == newest = "current" => AlwaysRecovers
=============================================================================
