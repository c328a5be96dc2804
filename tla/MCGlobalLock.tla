---------------------------- MODULE MCGlobalLock ----------------------------
EXTENDS GlobalLock, TLC

CONSTANTS l1, l2, l3, h1, h2, h3

DistinctHosts == {h1, h2, h3}

(* Processes whose names differ, as GenHostName makes them.                 *)
DistinctLockers == {l1, l2, l3}
DistinctNames == l1 :> h1 @@ l2 :> h2 @@ l3 :> h3
=============================================================================
