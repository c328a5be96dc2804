------------------------------- MODULE TxLogIO -------------------------------
(***************************************************************************)
(* The transaction log of the inode database:                              *)
(*   gcloud/datastore/dbtransactionlogio.go   batches in Cloud Datastore,  *)
(*   inodedb/cacheddbtransactionlogio.go      the ring buffer above it.    *)
(* A transaction is its TxID: the log neither reads nor changes the rest.  *)
(*                                                                         *)
(* Three threads meet here.  The database's service goroutine appends and  *)
(* queries, the sync job moves the pending batch to Datastore, and the log *)
(* GC deletes what no snapshot needs.  The mutex mu makes each access to   *)
(* the pending transactions atomic; the calls to Datastore happen outside  *)
(* it.  Datastore is external: a call may fail, and a commit that is       *)
(* reported as failed may have been applied.                               *)
(***************************************************************************)
EXTENDS Naturals, Sequences, SequencesExt, FiniteSetsExt

CONSTANTS
  MaxTxID,               \* bound: the last TxID the database assigns
  ringbufLen,            \* slots of the ring buffer
  maxWriteEntriesPerTx   \* batches one Datastore transaction may delete

ASSUME TxLogAssumption ==
  /\ MaxTxID \in Nat \ {0}
  /\ ringbufLen \in Nat \ {0}
  /\ maxWriteEntriesPerTx \in Nat \ {0}

TxID == 1..MaxTxID
LatestVersion == MaxTxID + 2    \* larger than every TxID and every minID

VARIABLES
  last,         \* TxID of the last transaction appended
  nextbatch,    \* appended since the last Sync began
  committing,   \* the batch the running Sync writes
  sync,         \* "idle", or where the running Sync is: "commit", "done", "failed"
  stored,       \* stored[k]: the transactions of the batch with key k in Datastore
  ringbuf, next, oldestTxID,   \* the ring buffer
  query,        \* the query the service goroutine is in
  gc,           \* the threshold of the running DeleteTransactions, 0 if none
  unneeded      \* highest threshold passed to DeleteTransactions (history)

memvars == <<nextbatch, committing, sync>>
ringvars == <<ringbuf, next, oldestTxID>>
logvars == <<last, nextbatch, committing, sync, stored, ringbuf, next, oldestTxID,
             query, gc, unneeded>>

Idle == [pc |-> "idle", minID |-> 0, txs |-> <<>>]

EmptyRing == [i \in 1..ringbufLen |-> 0]

Init ==
  /\ last = 0
  /\ nextbatch = <<>> /\ committing = <<>> /\ sync = "idle"
  /\ stored = [k \in TxID |-> {}]
  /\ ringbuf = EmptyRing /\ next = 1 /\ oldestTxID = LatestVersion
  /\ query = Idle
  /\ gc = 0 /\ unneeded = 0

-----------------------------------------------------------------------------
(* Service goroutine: append                                                *)

(* Mutant: the slot that is overwritten is not taken into account.          *)
RingAppendKeepOldest(tx) ==
  /\ ringbuf' = [ringbuf EXCEPT ![next] = tx]
  /\ oldestTxID' = IF oldestTxID = LatestVersion THEN tx ELSE oldestTxID
  /\ next' = (next % ringbufLen) + 1

(* CachedDBTransactionLogIO.AppendTransaction after the backend accepted tx *)
RingAppend(tx) ==
  LET oldest == IF ringbuf[next] = oldestTxID THEN oldestTxID + 1 ELSE oldestTxID
  IN /\ ringbuf' = [ringbuf EXCEPT ![next] = tx]
     /\ oldestTxID' = IF oldest = LatestVersion THEN tx ELSE oldest
     /\ next' = (next % ringbufLen) + 1

AppendTransaction ==
  /\ query.pc = "idle"
  /\ last < MaxTxID
  /\ last' = last + 1
  /\ nextbatch' = Append(nextbatch, last + 1)
  /\ RingAppend(last + 1)
  /\ UNCHANGED <<committing, sync, stored, query, gc, unneeded>>

-----------------------------------------------------------------------------
(* Service goroutine: query                                                 *)

From(txs, minID) == SelectSeq(txs, LAMBDA t : t >= minID)

(* Mutant: slots that were never filled are answered too.                   *)
QueryCachedTransactionsAll(minID) ==
  SubSeq(ringbuf, next, ringbufLen) \o SubSeq(ringbuf, 1, next - 1)

(* The slots from next on are the older ones.                               *)
QueryCachedTransactions(minID) ==
  From(SubSeq(ringbuf, next, ringbufLen) \o SubSeq(ringbuf, 1, next - 1), minID)

(* Mutant: the batch being committed is forgotten.                          *)
InMemoryNextOnly(minID) == From(nextbatch, minID)

InMemory(minID) == From(committing, minID) \o From(nextbatch, minID)

(* The batches whose key is not below minID, filtered by TxID.              *)
InDatastore(minID) ==
  {t \in UNION {stored[k] : k \in {k \in TxID : k >= minID}} : t >= minID}

SortUniq(txs) == SetToSortSeq(txs, <)

(* QueryTransactions answers from the ring buffer when it reaches back far  *)
(* enough, else it collects what is in memory, under mu, ...                *)
QueryTransactions ==
  /\ query.pc = "idle"
  /\ \E minID \in 0..last+1 :
       query' = IF minID < oldestTxID
                THEN [pc |-> "datastore", minID |-> minID, txs |-> InMemory(minID)]
                ELSE [pc |-> "done", minID |-> minID, txs |-> QueryCachedTransactions(minID)]
  /\ UNCHANGED <<last, memvars, stored, ringvars, gc, unneeded>>

(* ... and then what is in Datastore, sorts the two and drops repeated      *)
(* TxIDs.  A failed call is retried from the beginning or returned.         *)
QueryTransactionsOnce ==
  /\ query.pc = "datastore"
  /\ \/ query' = [query EXCEPT !.pc = "done",
                   !.txs = SortUniq(Range(query.txs) \cup InDatastore(query.minID))]
     \/ query' = [query EXCEPT !.txs = InMemory(query.minID)]
     \/ query' = Idle
  /\ UNCHANGED <<last, memvars, stored, ringvars, gc, unneeded>>

(* The caller has used the answer.                                          *)
QueryReturns ==
  /\ query.pc = "done"
  /\ query' = Idle
  /\ UNCHANGED <<last, memvars, stored, ringvars, gc, unneeded>>

-----------------------------------------------------------------------------
(* Sync job                                                                 *)

(* The first critical section.  An empty batch is not written.              *)
SyncBegin ==
  /\ sync = "idle"
  /\ nextbatch # <<>>
  /\ committing' = nextbatch
  /\ nextbatch' = <<>>
  /\ sync' = "commit"
  /\ UNCHANGED <<last, stored, ringvars, query, gc, unneeded>>

(* encodeBatch: the key of a batch is the TxID of its last transaction.     *)
BatchKey(txs) == Last(txs)

Put == stored' = [stored EXCEPT ![BatchKey(committing)] = Range(committing)]

(* The calls to Datastore, outside the critical sections: the commit is     *)
(* applied, or an error is reported and it is applied or not.               *)
SyncCommit ==
  /\ sync = "commit"
  /\ \/ Put /\ sync' = "done"
     \/ Put /\ sync' = "failed"
     \/ UNCHANGED stored /\ sync' = "failed"
  /\ UNCHANGED <<last, nextbatch, committing, ringvars, query, gc, unneeded>>

(* Mutant: a batch that failed to commit is dropped.                        *)
RollbackDrops == UNCHANGED nextbatch

(* Mutant: a batch that failed to commit goes behind the later one.         *)
RollbackBehind == nextbatch' = nextbatch \o committing

Rollback == nextbatch' = committing \o nextbatch

(* The last critical section.                                               *)
SyncEnd ==
  /\ \/ sync = "done" /\ UNCHANGED nextbatch
     \/ sync = "failed" /\ Rollback
  /\ committing' = <<>>
  /\ sync' = "idle"
  /\ UNCHANGED <<last, stored, ringvars, query, gc, unneeded>>

-----------------------------------------------------------------------------
(* Log GC                                                                   *)

DeleteTransactions(smallerThanID) ==
  /\ gc = 0
  /\ nextbatch' = From(nextbatch, smallerThanID)
  /\ gc' = smallerThanID
  /\ unneeded' = Max({unneeded, smallerThanID})
  /\ UNCHANGED <<last, committing, sync, stored, ringvars, query>>

(* Mutant: the batch whose key is the threshold goes too.                   *)
DeletableThrough(smallerThanID) == {k \in TxID : stored[k] # {} /\ k <= smallerThanID}

Deletable(smallerThanID) == {k \in TxID : stored[k] # {} /\ k < smallerThanID}

(* One Datastore transaction: the batches with the smallest keys, and       *)
(* another transaction if the limit was reached.  It may fail.              *)
DeleteBatches ==
  /\ gc # 0
  /\ \/ LET keys == {k \in Deletable(gc) :
                       Quantify(Deletable(gc), LAMBDA j : j < k) < maxWriteEntriesPerTx}
        IN /\ stored' = [k \in TxID |-> IF k \in keys THEN {} ELSE stored[k]]
           /\ \/ gc' = IF Cardinality(keys) = maxWriteEntriesPerTx THEN gc ELSE 0
              \/ gc' = 0
     \/ gc' = 0 /\ UNCHANGED stored
  /\ UNCHANGED <<last, memvars, ringvars, query, unneeded>>

-----------------------------------------------------------------------------
Next ==
  \/ AppendTransaction
  \/ QueryTransactions
  \/ QueryTransactionsOnce
  \/ QueryReturns
  \/ SyncBegin
  \/ SyncCommit
  \/ SyncEnd
  \/ \E id \in TxID : id <= last /\ DeleteTransactions(id)
  \/ DeleteBatches

Spec == Init /\ [][Next]_logvars

(* The sync job runs every 300ms, and Datastore does not fail forever.      *)
FairSpec ==
  /\ Spec
  /\ WF_logvars(SyncBegin)
  /\ WF_logvars(SyncCommit)
  /\ WF_logvars(SyncEnd)
  /\ SF_logvars(SyncCommit /\ sync' = "done")

-----------------------------------------------------------------------------
Durable == UNION {stored[k] : k \in TxID}
Pending == Range(nextbatch) \cup Range(committing)
InLog == Pending \cup Durable

TypeOK ==
  /\ last \in 0..MaxTxID
  /\ nextbatch \in Seq(TxID) /\ committing \in Seq(TxID) /\ sync \in {"idle", "commit", "done", "failed"}
  /\ stored \in [TxID -> SUBSET TxID]
  /\ ringbuf \in [1..ringbufLen -> 0..MaxTxID] /\ next \in 1..ringbufLen
  /\ oldestTxID \in 1..LatestVersion
  /\ query \in [pc : {"idle", "datastore", "done"}, minID : 0..MaxTxID+1, txs : Seq(TxID)]
  /\ gc \in 0..MaxTxID /\ unneeded \in 0..MaxTxID

(* Whatever Sync, a failed or half-failed commit and the GC do, a           *)
(* transaction at or above every threshold is in memory or in Datastore.    *)
NothingLost == \A t \in TxID : t <= last /\ t >= unneeded => t \in InLog

(* A batch's key is its largest TxID, so that a scan from minID's key finds *)
(* every batch that matters, and a batch below the threshold holds nothing  *)
(* that is needed; also when a failed batch is merged with a later one.     *)
KeyIsLargest ==
  \A k \in TxID : stored[k] # {} => k \in stored[k] /\ \A t \in stored[k] : t <= k

(* A query answers exactly the transactions from minID on, in order and     *)
(* each once, as far as they are needed: what moves from memory to          *)
(* Datastore between its two reads, or fails to, is neither missed nor      *)
(* repeated, and the ring buffer answers the same as the backend.           *)
QueryComplete ==
  LET from == Max({query.minID, unneeded, 1})
  IN query.pc = "done" =>
       From(query.txs, unneeded) = [i \in 1..(last + 1 - Min({from, last + 1})) |-> from + i - 1]

NoAnswer == [minID |-> 0, txs |-> <<0>>]

Abstract == INSTANCE TxLog WITH
  synced <- Max({0} \cup Durable \cup {t \in TxID : t < unneeded}),
  floor <- unneeded,
  answer <- IF query.pc = "done" THEN [minID |-> query.minID, txs |-> query.txs] ELSE NoAnswer

(* The batches, the ring buffer, the two-step query and the commits that    *)
(* fail after they were applied implement the log of module TxLog: a        *)
(* durable prefix that only grows, and complete answers.                    *)
ImplementsTxLog == Abstract!Spec

(* The durable transactions that are still needed form a prefix, whatever   *)
(* commits fail: a crash loses the end of the history and nothing between.  *)
DurablePrefix ==
  \A t \in Durable : \A u \in TxID : u < t /\ u >= unneeded => u \in Durable

(* Every transaction reaches Datastore, unless no snapshot needs it.        *)
EventuallyStored ==
  \A t \in TxID : last >= t ~> (unneeded > t \/ t \in Durable)
=============================================================================
