---------------------------- MODULE MCGraphLease ----------------------------
(* GraphLease with two owners: both on the daemon's path, or one on each   *)
(* of the asynchronous paths.                                              *)
EXTENDS GraphLease, TLC

CONSTANTS o1, o2

SyncPorts == [o \in Owner |-> "sync"]
AsyncPorts == o1 :> "cas" @@ o2 :> "transact"
=============================================================================
