----------------------------- MODULE MCFileLock -----------------------------
(* Instances of FileLock for TLC.                                          *)
EXTENDS FileLock

(* Agent 1 calls twice, so it can come back to a lease it abandoned.       *)
OneComesBack == [a \in Agent |-> IF a = 1 THEN 2 ELSE 1]

=============================================================================
