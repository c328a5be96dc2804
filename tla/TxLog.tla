-------------------------------- MODULE TxLog --------------------------------
(***************************************************************************)
(* What the transaction log promises the inode database                    *)
(* (inodedb.DBTransactionLogIO): one sequence 1, 2, ... , last of which a   *)
(* prefix is durable, and from which only transactions below a threshold    *)
(* are dropped.  There are no batches, no ring buffer and no partial        *)
(* failures here; TxLogIO is shown to implement this module.                *)
(***************************************************************************)
EXTENDS Naturals, Sequences, FiniteSetsExt

CONSTANT NoAnswer

VARIABLES
  last,      \* TxID of the last transaction appended
  synced,    \* the transactions up to here survive a crash
  floor,     \* transactions below this one may be dropped
  answer     \* what the query in progress answers, or NoAnswer

vars == <<last, synced, floor, answer>>

Interval(a, b) == [i \in 1..(IF a > b THEN 0 ELSE b - a + 1) |-> a + i - 1]

Init == last = 0 /\ synced = 0 /\ floor = 0 /\ answer = NoAnswer

AppendTransaction ==
  /\ answer = NoAnswer
  /\ last' = last + 1
  /\ UNCHANGED <<synced, floor, answer>>

(* A prefix becomes durable; what is durable stays so.                      *)
Sync ==
  /\ synced' > synced /\ synced' <= last
  /\ UNCHANGED <<last, floor, answer>>

(* What is below the threshold needs no durability any more.                *)
DeleteTransactions ==
  /\ floor' > floor /\ floor' <= last
  /\ synced' = Max({synced, floor' - 1})
  /\ UNCHANGED <<last, answer>>

(* The answer holds every transaction from minID to last, in order, except  *)
(* that some below the floor may be missing.                                *)
QueryTransactions ==
  /\ answer = NoAnswer
  /\ answer'.minID \in 0..last+1
  /\ LET from == Max({answer'.minID, floor})
     IN SelectSeq(answer'.txs, LAMBDA t : t >= floor) = Interval(Max({from, 1}), last)
  /\ UNCHANGED <<last, synced, floor>>

QueryReturns ==
  /\ answer # NoAnswer
  /\ answer' = NoAnswer
  /\ UNCHANGED <<last, synced, floor>>

Next ==
  \/ AppendTransaction \/ Sync \/ DeleteTransactions
  \/ QueryTransactions \/ QueryReturns

Spec == Init /\ [][Next]_vars
=============================================================================
