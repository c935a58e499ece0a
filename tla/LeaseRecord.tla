---------------------------- MODULE LeaseRecord ----------------------------
(***************************************************************************)
(* The durable lease row and the writes a lease manager may make to it     *)
(* (graph-lease.ts, admitted-construct-run.ts).  Pure operators: the       *)
(* modules that own a lease row decide when each write happens.            *)
(***************************************************************************)
EXTENDS Naturals

CONSTANTS Owner,    \* activation owners, one lease manager each
          NoOwner   \* the owner of a row nobody ever acquired

ASSUME NoOwnerAssumption == NoOwner \notin Owner

Lease == [owner     : Owner \cup {NoOwner},
          fence     : Nat,
          revision  : Nat,
          expiresAt : Nat,
          released  : BOOLEAN]

(* An absent row.  `cas(key, undefined, ...)` succeeds exactly on it and   *)
(* writes fence 1, revision 1: a reclaim of fence 0, revision 0.           *)
AbsentLease == [owner |-> NoOwner, fence |-> 0, revision |-> 0,
                expiresAt |-> 0, released |-> TRUE]

(* Unreleased and unexpired at time t.                                     *)
Live(l, t) == ~l.released /\ l.expiresAt > t

(* Mutant: the fence alone is compared.                                    *)
SameFenceOnly(l, seen) == l.fence = seen.fence

(* What the compare of `cas` compares: fence and revision.                 *)
SameRevision(l, seen) == l.fence = seen.fence /\ l.revision = seen.revision

(* Mutant: a reclaim keeps the fence it found, once there is one.          *)
ReclaimedSameFence(seen, o, expiry) ==
  [owner |-> o, fence |-> IF seen.fence = 0 THEN 1 ELSE seen.fence,
   revision |-> seen.revision + 1, expiresAt |-> expiry, released |-> FALSE]

(* The row written by a first acquisition or a reclaim of `seen`: a        *)
(* strictly higher fence.                                                  *)
Reclaimed(seen, o, expiry) ==
  [owner |-> o, fence |-> seen.fence + 1, revision |-> seen.revision + 1,
   expiresAt |-> expiry, released |-> FALSE]

(* Every write bumps the revision.                                         *)
Bumped(seen) == [seen EXCEPT !.revision = @ + 1]

(* The row written by a renewal, or by opening a commit window.            *)
Extended(seen, expiry) == [Bumped(seen) EXCEPT !.expiresAt = expiry]

(* The row written by a release.                                           *)
ReleasedRow(seen) == [Bumped(seen) EXCEPT !.released = TRUE]

(* Mutant: any live row will do, whoever holds it.                         *)
LiveHeldByAnybody(l, o, f, t) == Live(l, t)

(* Owner o may open a commit window on l at fence f.                       *)
LiveHeldBy(l, o, f, t) == l.owner = o /\ l.fence = f /\ Live(l, t)
=============================================================================
