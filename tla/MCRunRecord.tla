---------------------------- MODULE MCRunRecord ----------------------------
(***************************************************************************)
(* Three processes that share one run record, its lock directory (two      *)
(* identities, so that one is used again at once) and two conversations.   *)
(* Processes die at any step and do not come back.                         *)
(***************************************************************************)
EXTENDS RunRecord, TLC

CONSTANTS p1, p2, p3, i1, i2, r1, o1, o2

MCProc == {p1, p2, p3}
MCInode == {i1, i2}
MCReason == {r1}
MCOrigin == {o1, o2}
MCSymmetry == Permutations(MCProc) \cup Permutations(MCInode) \cup Permutations(MCOrigin)
=============================================================================
