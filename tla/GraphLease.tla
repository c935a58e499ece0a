----------------------------- MODULE GraphLease -----------------------------
(***************************************************************************)
(* Node leases: several activations of one durable run contend for one     *)
(* graph node.  Every activation has a lease manager (graph-lease.ts) over *)
(* one lease row, and a journal adapter (withNodeLeases) that acquires the *)
(* lease before the node's claim is journaled and journals the settlement  *)
(* only while the lease is held.  Rows of different nodes share nothing,   *)
(* so one row is modelled.                                                 *)
(*                                                                         *)
(* An asynchronous manager call is two steps, the awaited read and the     *)
(* compare-and-swap that follows it; every other activation, and the       *)
(* clock, may run in between.  A synchronous call is one step.             *)
(***************************************************************************)
EXTENDS LeaseRecord, Sequences

CONSTANTS
  Port,         \* Port[o]: what o's adapter and store port offer.
                \* "sync":     transactSync and appendSync (the daemon's path)
                \* "transact": the daemon's store under an asynchronous adapter
                \* "cas":      a port that offers only read and cas
  ManagerTTL,   \* the manager's ttlMs
  SyncTTL,      \* the expiry the SQLite transaction writes
  Probeable,    \* a dead owner's process can be proved gone
  Heartbeats,   \* somebody calls renew while the node runs
  MaxClock,     \* bound on the clock
  MaxFence,     \* bound on the number of acquisitions
  MaxRevision   \* bound on the revision at which a renewal still starts

ASSUME LeaseAssumption ==
  /\ Port \in [Owner -> {"sync", "transact", "cas"}]
  /\ ManagerTTL \in Nat \ {0}
  /\ SyncTTL \in Nat \ {0}
  /\ Probeable \in BOOLEAN
  /\ Heartbeats \in BOOLEAN
  /\ MaxClock \in Nat /\ MaxFence \in Nat /\ MaxRevision \in Nat

VARIABLES
  lease,    \* the durable row
  now,      \* the injected monotonic clock
  pc,       \* where each activation is in its adapter calls
  snap,     \* the row its pending acquire, commit or release has read
  beat,     \* the row its pending renewal has read, AbsentLease when none
  held,     \* the fence in the adapter's `held` map, 0 when none
  journal,  \* the node's durable claims and settlements
  grants    \* history: grants[f] is the owner that was granted fence f

vars == <<lease, now, pc, snap, beat, held, journal, grants>>

Fenced == INSTANCE FencedLog WITH log <- journal

Location == {"idle", "acquiring", "claiming", "running", "committing",
             "window", "unwinding", "releasing", "dead"}

JournalEntry == [type : {"node_started", "node_settled"}, owner : Owner, fence : Nat]

TypeOK ==
  /\ lease \in Lease
  /\ now \in Nat
  /\ pc \in [Owner -> Location]
  /\ snap \in [Owner -> Lease]
  /\ beat \in [Owner -> Lease]
  /\ held \in [Owner -> Nat]
  /\ grants \in Seq(Owner)
  /\ journal \in Seq(JournalEntry)

Init ==
  /\ lease = AbsentLease
  /\ now = 0
  /\ pc = [o \in Owner |-> "idle"]
  /\ snap = [o \in Owner |-> AbsentLease]
  /\ beat = [o \in Owner |-> AbsentLease]
  /\ held = [o \in Owner |-> 0]
  /\ journal = <<>>
  /\ grants = <<>>

-----------------------------------------------------------------------------
(* Building blocks.                                                        *)

Async(o) == Port[o] # "sync"

Move(o, from, to) == pc[o] = from /\ pc' = [pc EXCEPT ![o] = to]

(* `const current = await store.read(key)`                                 *)
ReadRow(o) == snap' = [snap EXCEPT ![o] = lease]

(* The call returns: what it read is gone with its frame.                  *)
Forget(o) == snap' = [snap EXCEPT ![o] = AbsentLease]

(* Mutant: the fence is remembered off by one.                             *)
HoldOffByOne(o, f) == held' = [held EXCEPT ![o] = f - 1]

Hold(o, f) == held' = [held EXCEPT ![o] = f]

Record(o, type, f) == journal' = Append(journal, Fenced!Entry(type, o, f))

(* Mutant: every uncertainty, and every death, answers `alive`.            *)
NeverGone(o) == FALSE

(* The process of o is provably gone (activationOwnerIsGone).              *)
Gone(o) == Probeable /\ o \in Owner /\ pc[o] = "dead"

-----------------------------------------------------------------------------
(* node_started, asynchronous adapter: acquire, then append the claim.     *)

AcquireRead(o) ==
  /\ Async(o)
  /\ Move(o, "idle", "acquiring")
  /\ ReadRow(o)
  /\ UNCHANGED <<lease, now, beat, held, journal, grants>>

(* Somebody else holds it, or the swap lost: the append is rejected.       *)
AcquireRefused(o) ==
  /\ Move(o, "acquiring", "idle")
  /\ \/ Live(snap[o], now) /\ snap[o].owner # o
     \/ ~Live(snap[o], now) /\ ~SameRevision(lease, snap[o])
  /\ Forget(o)
  /\ UNCHANGED <<lease, now, beat, held, journal, grants>>

(* Re-entry under the fence already held: nothing is written.              *)
AcquireReenter(o) ==
  /\ Move(o, "acquiring", "claiming")
  /\ Live(snap[o], now) /\ snap[o].owner = o
  /\ Hold(o, snap[o].fence)
  /\ Forget(o)
  /\ UNCHANGED <<lease, now, beat, journal, grants>>

AcquireWrite(o) ==
  /\ Move(o, "acquiring", "claiming")
  /\ ~Live(snap[o], now)
  /\ SameRevision(lease, snap[o])
  /\ lease.fence < MaxFence
  /\ lease' = Reclaimed(snap[o], o, now + ManagerTTL)
  /\ Hold(o, snap[o].fence + 1)
  /\ grants' = Append(grants, o)
  /\ Forget(o)
  /\ UNCHANGED <<now, beat, journal>>

(* The claim becomes durable, and the executor dispatches the node.        *)
ClaimAppend(o) ==
  /\ Move(o, "claiming", "running")
  /\ Record(o, "node_started", held[o])
  /\ UNCHANGED <<lease, now, snap, beat, held, grants>>

(* The claim's append fails: the executor halts, releaseAll follows.       *)
ClaimAppendFails(o) ==
  /\ Move(o, "claiming", "unwinding")
  /\ UNCHANGED <<lease, now, snap, beat, held, journal, grants>>

-----------------------------------------------------------------------------
(* node_settled, asynchronous adapter: commitWith, then the append.        *)

(* beginCommit reads the row (no storage transaction).                     *)
CommitRead(o) ==
  /\ Port[o] = "cas"
  /\ Move(o, "running", "committing")
  /\ ReadRow(o)
  /\ UNCHANGED <<lease, now, beat, held, journal, grants>>

CommitOpen(o) ==
  /\ Move(o, "committing", "window")
  /\ LiveHeldBy(snap[o], o, held[o], now)
  /\ SameRevision(lease, snap[o])
  /\ lease' = Extended(snap[o], now + ManagerTTL)
  /\ Forget(o)
  /\ UNCHANGED <<now, beat, held, journal, grants>>

(* The window is refused: a stale fence, the executor halts.               *)
CommitRefused(o) ==
  /\ Move(o, "committing", "unwinding")
  /\ ~(LiveHeldBy(snap[o], o, held[o], now) /\ SameRevision(lease, snap[o]))
  /\ Forget(o)
  /\ UNCHANGED <<lease, now, beat, held, journal, grants>>

(* The SQLite `transact`: the check commits, the work is awaited after it. *)
TransactOpen(o) ==
  /\ Port[o] = "transact"
  /\ Move(o, "running", "window")
  /\ LiveHeldBy(lease, o, held[o], now)
  /\ lease' = Extended(lease, now + SyncTTL)
  /\ UNCHANGED <<now, snap, beat, held, journal, grants>>

TransactRefused(o) ==
  /\ Port[o] = "transact"
  /\ Move(o, "running", "unwinding")
  /\ ~LiveHeldBy(lease, o, held[o], now)
  /\ UNCHANGED <<lease, now, snap, beat, held, journal, grants>>

(* The settlement's append fails inside the window: releaseAll follows.    *)
SettleAppendFails(o) ==
  /\ Move(o, "window", "unwinding")
  /\ UNCHANGED <<lease, now, snap, beat, held, journal, grants>>

(* The settlement lands; the release follows.                              *)
SettleAppend(o) ==
  /\ Move(o, "window", "unwinding")
  /\ Record(o, "node_settled", held[o])
  /\ UNCHANGED <<lease, now, snap, beat, held, grants>>

-----------------------------------------------------------------------------
(* The synchronous path: lease row and journal in one SQL transaction.     *)

SyncReenter(o) ==
  /\ Port[o] = "sync"
  /\ Move(o, "idle", "running")
  /\ Live(lease, now) /\ lease.owner = o
  /\ Hold(o, lease.fence)
  /\ Record(o, "node_started", lease.fence)
  /\ UNCHANGED <<lease, now, snap, beat, grants>>

(* Absent, released, expired, or held by a process that is provably gone.  *)
SyncAcquire(o) ==
  /\ Port[o] = "sync"
  /\ Move(o, "idle", "running")
  /\ ~Live(lease, now) \/ (lease.owner # o /\ Gone(lease.owner))
  /\ lease.fence < MaxFence
  /\ lease' = Reclaimed(lease, o, now + SyncTTL)
  /\ Hold(o, lease.fence + 1)
  /\ grants' = Append(grants, o)
  /\ Record(o, "node_started", lease.fence + 1)
  /\ UNCHANGED <<now, snap, beat>>

(* Mutant: the settlement does not look at the lease.                      *)
SyncSettleAnyway(o) ==
  /\ Port[o] = "sync"
  /\ Move(o, "running", "unwinding")
  /\ lease' = Extended(lease, now + SyncTTL)
  /\ Record(o, "node_settled", held[o])
  /\ UNCHANGED <<now, snap, beat, held, grants>>

SyncSettle(o) ==
  /\ Port[o] = "sync"
  /\ Move(o, "running", "unwinding")
  /\ LiveHeldBy(lease, o, held[o], now)
  /\ lease' = Extended(lease, now + SyncTTL)
  /\ Record(o, "node_settled", held[o])
  /\ UNCHANGED <<now, snap, beat, held, grants>>

SyncSettleRefused(o) ==
  /\ Port[o] = "sync"
  /\ Move(o, "running", "unwinding")
  /\ ~LiveHeldBy(lease, o, held[o], now)
  /\ UNCHANGED <<lease, now, snap, beat, held, journal, grants>>

-----------------------------------------------------------------------------
(* Both paths.                                                             *)

(* The run stops with the node claimed and unsettled: releaseAll.          *)
Park(o) ==
  /\ Move(o, "running", "unwinding")
  /\ UNCHANGED <<lease, now, snap, beat, held, journal, grants>>

ReleaseRead(o) ==
  /\ Move(o, "unwinding", "releasing")
  /\ ReadRow(o)
  /\ UNCHANGED <<lease, now, beat, held, journal, grants>>

(* The row read is ours: swap in the released row, or lose the race.  The  *)
(* adapter ignores the result either way.                                  *)
ReleaseWrite(o) ==
  /\ Move(o, "releasing", "idle")
  /\ lease' = IF /\ snap[o].owner = o /\ snap[o].fence = held[o]
                 /\ SameRevision(lease, snap[o])
              THEN ReleasedRow(snap[o]) ELSE lease
  /\ Hold(o, 0)
  /\ Forget(o)
  /\ UNCHANGED <<now, beat, journal, grants>>

(* renew: a held, unreleased row, expired or not.                          *)
RenewRead(o) ==
  /\ Heartbeats
  /\ held[o] # 0 /\ beat[o] = AbsentLease
  /\ lease.owner = o /\ lease.fence = held[o] /\ ~lease.released
  /\ lease.revision < MaxRevision
  /\ beat' = [beat EXCEPT ![o] = lease]
  /\ UNCHANGED <<lease, now, pc, snap, held, journal, grants>>

RenewWrite(o) ==
  /\ beat[o] # AbsentLease
  /\ lease' = IF SameRevision(lease, beat[o])
              THEN Extended(beat[o], now + ManagerTTL) ELSE lease
  /\ beat' = [beat EXCEPT ![o] = AbsentLease]
  /\ UNCHANGED <<now, pc, snap, held, journal, grants>>

(* The process dies: its memory is gone, the row and the journal stay.     *)
Crash(o) ==
  /\ pc[o] # "dead"
  /\ pc' = [pc EXCEPT ![o] = "dead"]
  /\ Hold(o, 0)
  /\ beat' = [beat EXCEPT ![o] = AbsentLease]
  /\ Forget(o)
  /\ UNCHANGED <<lease, now, journal, grants>>

Tick ==
  /\ now < MaxClock
  /\ now' = now + 1
  /\ UNCHANGED <<lease, pc, snap, beat, held, journal, grants>>

-----------------------------------------------------------------------------
Claiming(o) == \/ AcquireRead(o) \/ AcquireRefused(o) \/ AcquireReenter(o)
               \/ AcquireWrite(o) \/ ClaimAppend(o) \/ ClaimAppendFails(o)

Settling(o) == \/ CommitRead(o) \/ CommitOpen(o) \/ CommitRefused(o)
               \/ TransactOpen(o) \/ TransactRefused(o)
               \/ SettleAppend(o) \/ SettleAppendFails(o)

Synchronous(o) == \/ SyncReenter(o) \/ SyncAcquire(o)
                  \/ SyncSettle(o) \/ SyncSettleRefused(o)

Releasing(o) == \/ Park(o) \/ ReleaseRead(o) \/ ReleaseWrite(o)

Renewing(o) == RenewRead(o) \/ RenewWrite(o)

Next == \/ \E o \in Owner : \/ Claiming(o) \/ Settling(o) \/ Synchronous(o)
                            \/ Releasing(o) \/ Renewing(o) \/ Crash(o)
        \/ Tick

Spec == Init /\ [][Next]_vars

(* The daemon retries a recoverable turn, and a live process runs its      *)
(* promises: an acquisition that stays possible is made.                   *)
FairSpec == Spec /\ \A o \in Owner : WF_vars(SyncAcquire(o))

-----------------------------------------------------------------------------
(* Properties.                                                             *)

(* A fence belongs to the one owner it was granted to: two activations     *)
(* never act under the same fence, whatever they had read when they raced  *)
(* for it (the compare of cas, and the +1 of a reclaim).                   *)
OneOwnerPerFence ==
  \A o \in Owner : held[o] # 0 =>
    held[o] \in DOMAIN grants /\ grants[held[o]] = o

(* A live lease never transfers: the row changes owner only when it is     *)
(* released or expired now, not merely when it was read, or when its owner *)
(* is provably gone.                                                       *)
NoLiveSteal ==
  [][lease'.owner # lease.owner => ~Live(lease, now) \/ Gone(lease.owner)]_vars

(* A release is final: a renewal or a commit window that read the row      *)
(* before the release cannot revive it; only a new fence can.              *)
ReleaseFinal ==
  [][lease.released /\ ~lease'.released => lease'.fence > lease.fence]_vars

(* A superseded owner never writes: no claim or settlement of an older     *)
(* fence follows one of a newer fence in the journal.                      *)
JournalInFenceOrder ==
  \A i, j \in DOMAIN journal : i < j => journal[i].fence <= journal[j].fence

(* Owners on the synchronous path implement the fenced log.                *)
ImplementsFencedLog == Fenced!Spec

(* A dead holder does not block recovery until its lease expires: a        *)
(* waiting activation of the same host takes the node over.                *)
DeadHolderReplaced ==
  \A o, p \in Owner :
    (lease.owner = o /\ pc[o] = "dead" /\ pc[p] = "idle" /\ lease.fence < MaxFence)
      ~> (lease.owner # o \/ pc[p] = "dead")
=============================================================================
