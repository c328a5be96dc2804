----------------------------- MODULE INodeState ------------------------------
(***************************************************************************)
(* The state of the inode database and the operations a transaction is     *)
(* made of: inodedb/inodedb.go (DBState), inodedb/dboperation.go.          *)
(* A file's size and chunks are one value, Content; owner and mode are one *)
(* value, Attr.  Of a node's ModifiedT only its origin is kept: a client   *)
(* gave it, or the clock was read when the last operation on the node was  *)
(* applied.  A replay applies the operation again and reads the clock      *)
(* again, so two times of the clock that are equal here may differ.        *)
(***************************************************************************)
EXTENDS Naturals, Sequences

CONSTANTS
  MaxID,      \* bound: the last node ID
  Name,       \* names of directory entries
  Content,    \* what is written to files
  EmptyFile,  \* the content of a new file
  Attr,       \* owners and modes that are set
  DefaultAttr \* those of a new node

ASSUME StateAssumption == MaxID \in Nat \ {0}

ID == 1..MaxID
RootDirID == 1
NoID == 0
NoTicket == 0

NoEntries == [n \in Name |-> NoID]

(* A node that does not exist; the fields a node's type lacks are empty.    *)
NoNode == [type |-> "none", entries |-> NoEntries, ParentID |-> NoID,
           content |-> EmptyFile, attr |-> DefaultAttr, ModifiedT |-> "clock"]
NewFile == [NoNode EXCEPT !.type = "file"]
NewDir(parent) == [NoNode EXCEPT !.type = "dir", !.ParentID = parent]

Node == [type : {"none", "file", "dir"}, entries : [Name -> ID \cup {NoID}],
         ParentID : ID \cup {NoID}, content : Content \cup {EmptyFile}, attr : Attr \cup {DefaultAttr},
         ModifiedT : {"clock", "given"}]

NoLocks == [i \in ID |-> NoTicket]

NewDBState == [nodes |-> [i \in ID |-> NoNode], lastID |-> 0, version |-> 0,
               lastTicket |-> 1, nodeLocks |-> NoLocks]

Exists(s, id) == id \in ID /\ s.nodes[id].type # "none"
IsDir(s, id) == id \in ID /\ s.nodes[id].type = "dir"
IsFile(s, id) == id \in ID /\ s.nodes[id].type = "file"

-----------------------------------------------------------------------------
(* checkLock                                                                *)
CheckLock(s, id, ticket, requireTicket) ==
  /\ requireTicket => ticket # NoTicket
  /\ s.nodeLocks[id] \in {NoTicket, ticket}

(* addNewNode accepts the node.                                             *)
AddNewNodeOk(s, id) == ~Exists(s, id) /\ id >= s.lastID

AddNewNode(s, id, node) == [s EXCEPT !.nodes[id] = node, !.lastID = id]

-----------------------------------------------------------------------------
(* The operations.  XOk is the condition under which Apply returns nil, X   *)
(* what it then does.                                                       *)

InitializeFileSystemOp == [kind |-> "InitializeFileSystem"]

InitializeFileSystemOk(s) == (\A id \in ID : ~Exists(s, id)) /\ s.lastID = 0

InitializeFileSystem(s) ==
  [AddNewNode(s, RootDirID, NewDir(RootDirID)) EXCEPT !.lastID = 1]

CreateNodeOp(id, ticket, type, parent) ==
  [kind |-> "CreateNode", id |-> id, ticket |-> ticket, type |-> type, ParentID |-> parent]

CreateNodeOk(s, op) == CheckLock(s, op.id, op.ticket, TRUE) /\ AddNewNodeOk(s, op.id)

CreateNode(s, op) ==
  AddNewNode(s, op.id, IF op.type = "dir" THEN NewDir(op.ParentID) ELSE NewFile)

HardLinkOp(dir, name, target) ==
  [kind |-> "HardLink", id |-> dir, ticket |-> NoTicket, name |-> name, TargetID |-> target]

HardLinkOk(s, op) ==
  /\ CheckLock(s, op.id, op.ticket, FALSE)
  /\ IsDir(s, op.id)
  /\ Exists(s, op.TargetID)
  /\ s.nodes[op.id].entries[op.name] = NoID

HardLink(s, op) == [s EXCEPT !.nodes[op.id].entries[op.name] = op.TargetID]

(* UpdateChunksOp and UpdateSizeOp                                          *)
UpdateContentOp(kind, id, ticket, content) ==
  [kind |-> kind, id |-> id, ticket |-> ticket, content |-> content]

UpdateContentOk(s, op) == CheckLock(s, op.id, op.ticket, TRUE) /\ IsFile(s, op.id)

UpdateContent(s, op) == [s EXCEPT !.nodes[op.id].content = op.content]

(* UpdateUidOp, UpdateGidOp and UpdatePermModeOp                            *)
UpdateAttrOp(id, attr) == [kind |-> "UpdateAttr", id |-> id, attr |-> attr]

UpdateAttrOk(s, op) == Exists(s, op.id)

UpdateAttr(s, op) == [s EXCEPT !.nodes[op.id].attr = op.attr]

UpdateModifiedTOp(id) == [kind |-> "UpdateModifiedT", id |-> id]

UpdateModifiedTOk(s, op) == Exists(s, op.id)

UpdateModifiedT(s, op) == [s EXCEPT !.nodes[op.id].ModifiedT = "given"]

RenameOp(srcdir, srcname, dstdir, dstname) ==
  [kind |-> "Rename", SrcDirID |-> srcdir, SrcName |-> srcname,
   DstDirID |-> dstdir, DstName |-> dstname]

RenameOk(s, op) ==
  /\ CheckLock(s, op.SrcDirID, NoTicket, FALSE) /\ CheckLock(s, op.DstDirID, NoTicket, FALSE)
  /\ IsDir(s, op.SrcDirID) /\ IsDir(s, op.DstDirID)
  /\ LET id == s.nodes[op.SrcDirID].entries[op.SrcName]
     IN /\ id # NoID
        /\ \/ op.SrcDirID = op.DstDirID /\ op.SrcName = op.DstName
           \/ Exists(s, id)

(* The destination's entry is replaced, whatever it was.                    *)
Rename(s, op) ==
  LET id == s.nodes[op.SrcDirID].entries[op.SrcName]
      moved == IF IsDir(s, id) THEN [s EXCEPT !.nodes[id].ParentID = op.DstDirID] ELSE s
  IN IF op.SrcDirID = op.DstDirID /\ op.SrcName = op.DstName THEN s
     ELSE [moved EXCEPT !.nodes[op.SrcDirID].entries[op.SrcName] = NoID,
                        !.nodes[op.DstDirID].entries[op.DstName] = id]

RemoveOp(dir, name) == [kind |-> "Remove", id |-> dir, ticket |-> NoTicket, name |-> name]

RemoveOk(s, op) ==
  /\ CheckLock(s, op.id, op.ticket, FALSE)
  /\ IsDir(s, op.id)
  /\ LET target == s.nodes[op.id].entries[op.name]
     IN target # NoID /\ (IsDir(s, target) => s.nodes[target].entries = NoEntries)

RemoveEntry(s, op) == [s EXCEPT !.nodes[op.id].entries[op.name] = NoID]

-----------------------------------------------------------------------------
ApplyOk(s, op) ==
  CASE op.kind = "InitializeFileSystem" -> InitializeFileSystemOk(s)
    [] op.kind = "CreateNode" -> CreateNodeOk(s, op)
    [] op.kind = "HardLink" -> HardLinkOk(s, op)
    [] op.kind \in {"UpdateChunks", "UpdateSize"} -> UpdateContentOk(s, op)
    [] op.kind = "UpdateAttr" -> UpdateAttrOk(s, op)
    [] op.kind = "UpdateModifiedT" -> UpdateModifiedTOk(s, op)
    [] op.kind = "Rename" -> RenameOk(s, op)
    [] op.kind = "Remove" -> RemoveOk(s, op)

(* The nodes whose ModifiedT the operation sets to the time it is applied.  *)
Modified(op) ==
  CASE op.kind = "InitializeFileSystem" -> {RootDirID}
    [] op.kind \in {"CreateNode", "HardLink", "UpdateSize", "Remove"} -> {op.id}
    [] op.kind \in {"UpdateChunks", "UpdateAttr", "UpdateModifiedT"} -> {}
    [] op.kind = "Rename" ->
         IF op.SrcDirID = op.DstDirID /\ op.SrcName = op.DstName THEN {} ELSE {op.SrcDirID, op.DstDirID}

SetModifiedT(s, ids) ==
  [s EXCEPT !.nodes = [i \in ID |-> IF i \in ids THEN [s.nodes[i] EXCEPT !.ModifiedT = "clock"]
                                    ELSE s.nodes[i]]]

Effect(s, op) ==
  CASE op.kind = "InitializeFileSystem" -> InitializeFileSystem(s)
    [] op.kind = "CreateNode" -> CreateNode(s, op)
    [] op.kind = "HardLink" -> HardLink(s, op)
    [] op.kind \in {"UpdateChunks", "UpdateSize"} -> UpdateContent(s, op)
    [] op.kind = "UpdateAttr" -> UpdateAttr(s, op)
    [] op.kind = "UpdateModifiedT" -> UpdateModifiedT(s, op)
    [] op.kind = "Rename" -> Rename(s, op)
    [] op.kind = "Remove" -> RemoveEntry(s, op)

Apply(s, op) == SetModifiedT(Effect(s, op), Modified(op))

ok(s) == [ok |-> TRUE, state |-> s]

(* The operations of a transaction in order, up to the first that fails.    *)
ApplyOps(s, ops) ==
  LET step(r, op) == IF r.ok /\ ApplyOk(r.state, op) THEN ok(Apply(r.state, op))
                     ELSE [r EXCEPT !.ok = FALSE]
      after[n \in 0..Len(ops)] == IF n = 0 THEN ok(s) ELSE step(after[n - 1], ops[n])
  IN after[Len(ops)]

(* applyTransactionInternal up to the point where the log is written.       *)
ApplyTransaction(s, tx) ==
  IF tx.TxID # s.version + 1 THEN [ok |-> FALSE, state |-> s]
  ELSE LET r == ApplyOps(s, tx.ops)
       IN IF r.ok THEN ok([r.state EXCEPT !.version = tx.TxID]) ELSE r

(* The replay loop of RestoreVersion.                                       *)
Replay(s, txs) ==
  LET step(r, tx) == IF r.ok THEN ApplyTransaction(r.state, tx) ELSE r
      after[n \in 0..Len(txs)] == IF n = 0 THEN ok(s) ELSE step(after[n - 1], txs[n])
  IN after[Len(txs)]

-----------------------------------------------------------------------------
(* Mutant: the snapshot leaves out the files' content.                      *)
SnapshotOfNoContent(s) ==
  [nodes |-> [i \in ID |-> [s.nodes[i] EXCEPT !.ParentID = NoID, !.content = EmptyFile]],
   lastID |-> s.lastID, version |-> s.version]

(* EncodeToGob: locks, tickets and the ParentID of a directory are not      *)
(* written.                                                                 *)
SnapshotOf(s) ==
  [nodes |-> [i \in ID |-> [s.nodes[i] EXCEPT !.ParentID = NoID]],
   lastID |-> s.lastID, version |-> s.version]

(* DecodeDBStateFromGob                                                     *)
FromSnapshot(ss) ==
  [NewDBState EXCEPT !.nodes = ss.nodes, !.lastID = ss.lastID, !.version = ss.version]
=============================================================================
