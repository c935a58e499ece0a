-------------------------- MODULE GraphLeaseProofs --------------------------
(***************************************************************************)
(* Theorems about GraphLease, for any number of owners, any TTLs and any   *)
(* bounds.  The inductive invariant says that a revision identifies the    *)
(* row it was read from (so a swap that compares equal acts on the row it  *)
(* judged), and that a fence identifies the owner it was granted to.       *)
(***************************************************************************)
EXTENDS GraphLease, TLAPS

(* The row is the newest grant.                                            *)
RowIsNewestGrant ==
  /\ lease.fence = Len(grants)
  /\ lease.fence > 0 => grants[lease.fence] = lease.owner
  /\ lease.revision = 0 => lease = AbsentLease
  /\ lease.fence = 0 => lease = AbsentLease

(* A row somebody has read: not newer than the durable one, equal to it    *)
(* when the revisions are, and owned by whom its fence was granted to.     *)
Seen(r) ==
  /\ r.revision <= lease.revision
  /\ r.revision = lease.revision => r = lease
  /\ r.fence <= lease.fence
  /\ r.fence > 0 => grants[r.fence] = r.owner
  /\ r.fence = 0 => r = AbsentLease

ReadsAreOfThePast ==
  \A o \in Owner : /\ Seen(snap[o]) /\ Seen(beat[o])
                   /\ beat[o] # AbsentLease => ~beat[o].released

HeldWasGranted ==
  \A o \in Owner : held[o] # 0 => held[o] <= lease.fence /\ grants[held[o]] = o

IInv == /\ TypeOK
        /\ RowIsNewestGrant
        /\ ReadsAreOfThePast
        /\ HeldWasGranted

-----------------------------------------------------------------------------
LEMMA AbsentIsLease == AbsentLease \in Lease
BY DEF AbsentLease, Lease

LEMMA WritesAreLeases ==
  ASSUME NEW r \in Lease, NEW o \in Owner, NEW e \in Nat
  PROVE  /\ Reclaimed(r, o, e) \in Lease
         /\ Extended(r, e) \in Lease
         /\ ReleasedRow(r) \in Lease
<1>1. Reclaimed(r, o, e) \in Lease  BY DEF Reclaimed, Lease
<1>2. Bumped(r) \in Lease           BY DEF Bumped, Lease
<1>3. Extended(r, e) \in Lease      BY <1>2 DEF Extended, Lease
<1>4. ReleasedRow(r) \in Lease      BY <1>2 DEF ReleasedRow, Lease
<1>5. QED BY <1>1, <1>3, <1>4

LEMMA TypeOKInit == Init => TypeOK
BY AbsentIsLease DEF Init, TypeOK, Location

LEMMA TypeOKStep == TypeOK /\ [Next]_vars => TypeOK'
<1> SUFFICES ASSUME TypeOK, [Next]_vars PROVE TypeOK'
  OBVIOUS
<1> USE AbsentIsLease DEF TypeOK, Location, Move, Forget, Hold, ReadRow
<1>a. now + ManagerTTL \in Nat /\ now + SyncTTL \in Nat
  BY LeaseAssumption
<1>b. ASSUME NEW t \in {"node_started", "node_settled"}, NEW o \in Owner,
             NEW f \in Nat, Record(o, t, f)
      PROVE  journal' \in Seq(JournalEntry)
  BY <1>b DEF Record, Fenced!Entry, JournalEntry
<1>c. ASSUME NEW o \in Owner PROVE snap[o] \in Lease /\ beat[o] \in Lease /\ held[o] \in Nat
  OBVIOUS
<1>d. ASSUME NEW r \in Lease PROVE r.fence \in Nat /\ r.fence + 1 \in Nat
  BY DEF Lease
<1>1. ASSUME NEW o \in Owner, Claiming(o) PROVE TypeOK'
  <2>1. CASE AcquireRead(o)      BY <2>1 DEF AcquireRead
  <2>2. CASE AcquireRefused(o)   BY <2>2 DEF AcquireRefused
  <2>3. CASE AcquireReenter(o)   BY <2>3, <1>c, <1>d DEF AcquireReenter
  <2>4. CASE AcquireWrite(o)
    <3>1. lease' \in Lease BY <2>4, <1>a, <1>c, WritesAreLeases DEF AcquireWrite
    <3>2. QED BY <2>4, <3>1, <1>c, <1>d DEF AcquireWrite
  <2>5. CASE ClaimAppend(o)      BY <2>5, <1>b, <1>c DEF ClaimAppend
  <2>6. CASE ClaimAppendFails(o) BY <2>6 DEF ClaimAppendFails
  <2>7. QED BY <1>1, <2>1, <2>2, <2>3, <2>4, <2>5, <2>6 DEF Claiming
<1>2. ASSUME NEW o \in Owner, Settling(o) PROVE TypeOK'
  <2>1. CASE CommitRead(o)      BY <2>1 DEF CommitRead
  <2>2. CASE CommitOpen(o)
    <3>1. lease' \in Lease BY <2>2, <1>a, <1>c, WritesAreLeases DEF CommitOpen
    <3>2. QED BY <2>2, <3>1 DEF CommitOpen
  <2>3. CASE CommitRefused(o)   BY <2>3 DEF CommitRefused
  <2>4. CASE TransactOpen(o)
    <3>1. lease' \in Lease BY <2>4, <1>a, <1>c, WritesAreLeases DEF TransactOpen
    <3>2. QED BY <2>4, <3>1 DEF TransactOpen
  <2>5. CASE TransactRefused(o) BY <2>5 DEF TransactRefused
  <2>6. CASE SettleAppend(o)    BY <2>6, <1>b, <1>c DEF SettleAppend
  <2>7. CASE SettleAppendFails(o) BY <2>7 DEF SettleAppendFails
  <2>8. QED BY <1>2, <2>1, <2>2, <2>3, <2>4, <2>5, <2>6, <2>7 DEF Settling
<1>3. ASSUME NEW o \in Owner, Synchronous(o) PROVE TypeOK'
  <2>1. CASE SyncReenter(o)       BY <2>1, <1>b, <1>d DEF SyncReenter
  <2>2. CASE SyncAcquire(o)
    <3>1. lease' \in Lease BY <2>2, <1>a, WritesAreLeases DEF SyncAcquire
    <3>2. QED BY <2>2, <3>1, <1>b, <1>d DEF SyncAcquire
  <2>3. CASE SyncSettle(o)
    <3>1. lease' \in Lease BY <2>3, <1>a, WritesAreLeases DEF SyncSettle
    <3>2. QED BY <2>3, <3>1, <1>b, <1>c DEF SyncSettle
  <2>4. CASE SyncSettleRefused(o) BY <2>4 DEF SyncSettleRefused
  <2>5. QED BY <1>3, <2>1, <2>2, <2>3, <2>4 DEF Synchronous
<1>4. ASSUME NEW o \in Owner, Releasing(o) PROVE TypeOK'
  <2>1. CASE Park(o)         BY <2>1 DEF Park
  <2>2. CASE ReleaseRead(o)  BY <2>2 DEF ReleaseRead
  <2>3. CASE ReleaseWrite(o)
    <3>1. lease' \in Lease BY <2>3, <1>a, <1>c, WritesAreLeases DEF ReleaseWrite
    <3>2. QED BY <2>3, <3>1 DEF ReleaseWrite
  <2>4. QED BY <1>4, <2>1, <2>2, <2>3 DEF Releasing
<1>5. ASSUME NEW o \in Owner, Renewing(o) PROVE TypeOK'
  <2>1. CASE RenewRead(o)  BY <2>1 DEF RenewRead
  <2>2. CASE RenewWrite(o)
    <3>1. lease' \in Lease BY <2>2, <1>a, <1>c, WritesAreLeases DEF RenewWrite
    <3>2. QED BY <2>2, <3>1 DEF RenewWrite
  <2>3. QED BY <1>5, <2>1, <2>2 DEF Renewing
<1>6. ASSUME NEW o \in Owner, Crash(o) PROVE TypeOK'
  BY <1>6 DEF Crash
<1>7. CASE Tick BY <1>7 DEF Tick
<1>8. CASE UNCHANGED vars BY <1>8 DEF vars
<1>9. QED BY <1>1, <1>2, <1>3, <1>4, <1>5, <1>6, <1>7, <1>8 DEF Next

-----------------------------------------------------------------------------
(* What any step does to the row and to the history of grants: nothing, or *)
(* one write made on the row as it is now.                                 *)
RowWrite(o) ==
  \/ lease' = lease /\ grants' = grants
  \/ /\ ~Live(lease, now) \/ Gone(lease.owner)
     /\ \E e \in Nat : lease' = Reclaimed(lease, o, e)
     /\ grants' = Append(grants, o)
  \/ /\ lease.fence > 0
     /\ \/ \E e \in Nat : lease' = Extended(lease, e)
        \/ lease' = ReleasedRow(lease)
     /\ grants' = grants

(* A row read with the revision the durable row has now is that row.       *)
LEMMA SameRevisionIsSameRow ==
  ASSUME TypeOK, NEW r \in Lease, Seen(r), SameRevision(lease, r)
  PROVE  r = lease
BY DEF Seen, SameRevision

LEMMA FieldsOfWrites ==
  ASSUME NEW r \in Lease, NEW o \in Owner, NEW e \in Nat
  PROVE  /\ Reclaimed(r, o, e).fence = r.fence + 1
         /\ Reclaimed(r, o, e).owner = o
         /\ Reclaimed(r, o, e).revision = r.revision + 1
         /\ Extended(r, e).fence = r.fence
         /\ Extended(r, e).owner = r.owner
         /\ Extended(r, e).released = r.released
         /\ Extended(r, e).revision = r.revision + 1
         /\ ReleasedRow(r).fence = r.fence
         /\ ReleasedRow(r).owner = r.owner
         /\ ReleasedRow(r).released
         /\ ReleasedRow(r).revision = r.revision + 1
<1>1. /\ Bumped(r) \in Lease
      /\ Bumped(r).fence = r.fence /\ Bumped(r).owner = r.owner
      /\ Bumped(r).released = r.released /\ Bumped(r).revision = r.revision + 1
  BY DEF Bumped, Lease
<1>2. QED BY <1>1 DEF Reclaimed, Extended, ReleasedRow, Lease

(* A write keeps the row the newest grant, keeps what was read before it   *)
(* in the past, and keeps every grant.                                     *)
LEMMA RowWriteStep ==
  ASSUME TypeOK, TypeOK', RowIsNewestGrant, NEW o \in Owner, RowWrite(o)
  PROVE  /\ RowIsNewestGrant'
         /\ Seen(lease)'
         /\ \A r \in Lease : Seen(r) => Seen(r)'
         /\ \A f \in Nat, p \in Owner :
              f # 0 /\ f <= lease.fence /\ grants[f] = p
                => f <= lease'.fence /\ grants'[f] = p
<1> USE DEF RowIsNewestGrant, Seen
<1>0. /\ lease \in Lease /\ lease.fence \in Nat /\ lease.revision \in Nat
      /\ grants \in Seq(Owner) /\ Len(grants) \in Nat
      /\ AbsentLease.fence = 0 /\ AbsentLease.revision = 0
  BY DEF TypeOK, Lease, AbsentLease
<1>1. CASE lease' = lease /\ grants' = grants
  BY <1>0, <1>1
<1>2. CASE /\ \E e \in Nat : lease' = Reclaimed(lease, o, e)
           /\ grants' = Append(grants, o)
  <2>1. /\ lease'.fence = lease.fence + 1 /\ lease'.owner = o
        /\ lease'.revision = lease.revision + 1
    BY <1>0, <1>2, FieldsOfWrites
  <2>2. /\ Len(grants') = Len(grants) + 1 /\ grants'[Len(grants) + 1] = o
        /\ \A f \in 1 .. Len(grants) : grants'[f] = grants[f]
    BY <1>0, <1>2
  <2>3. RowIsNewestGrant' /\ Seen(lease)'
    BY <1>0, <2>1, <2>2
  <2>4. ASSUME NEW r \in Lease, Seen(r) PROVE Seen(r)'
    <3>1. r.fence \in Nat /\ r.revision \in Nat BY DEF Lease
    <3>2. QED BY <1>0, <2>1, <2>2, <2>4, <3>1
  <2>5. QED BY <1>0, <2>1, <2>2, <2>3, <2>4
<1>3. CASE /\ lease.fence > 0
           /\ \/ \E e \in Nat : lease' = Extended(lease, e)
              \/ lease' = ReleasedRow(lease)
           /\ grants' = grants
  <2>1. /\ lease'.fence = lease.fence /\ lease'.owner = lease.owner
        /\ lease'.revision = lease.revision + 1
    BY <1>0, <1>3, FieldsOfWrites
  <2>2. RowIsNewestGrant' /\ Seen(lease)'
    BY <1>0, <1>3, <2>1
  <2>3. ASSUME NEW r \in Lease, Seen(r) PROVE Seen(r)'
    <3>1. r.fence \in Nat /\ r.revision \in Nat BY DEF Lease
    <3>2. QED BY <1>0, <1>3, <2>1, <2>3, <3>1
  <2>4. QED BY <1>3, <2>1, <2>2, <2>3
<1>4. QED BY <1>1, <1>2, <1>3 DEF RowWrite

-----------------------------------------------------------------------------
(* What a step of activation o does to everything the invariant mentions.  *)
StepShape(o) ==
  /\ RowWrite(o)
  /\ \A p \in Owner :
       /\ snap'[p] \in {snap[p], lease, AbsentLease}
       /\ \/ beat'[p] \in {beat[p], AbsentLease}
          \/ beat'[p] = lease /\ ~lease.released
       /\ \/ held'[p] \in {held[p], 0}
          \/ /\ p = o /\ held'[o] <= lease'.fence
             /\ grants'[held'[o]] = o

LEMMA StepsHaveShape ==
  ASSUME IInv, NEW o \in Owner,
         \/ Claiming(o) \/ Settling(o) \/ Synchronous(o)
         \/ Releasing(o) \/ Renewing(o) \/ Crash(o)
  PROVE  StepShape(o)
<1> USE DEF StepShape, RowWrite, Move, Forget, Hold, ReadRow
<1>1. /\ TypeOK /\ RowIsNewestGrant /\ lease \in Lease /\ lease.fence \in Nat
      /\ snap \in [Owner -> Lease] /\ beat \in [Owner -> Lease]
      /\ held \in [Owner -> Nat] /\ grants \in Seq(Owner)
  BY DEF IInv, TypeOK, Lease
<1>2. Seen(snap[o]) /\ Seen(beat[o]) /\ snap[o] \in Lease /\ beat[o] \in Lease
  BY <1>1 DEF IInv, ReadsAreOfThePast
<1>3. now + ManagerTTL \in Nat /\ now + SyncTTL \in Nat
  BY <1>1, LeaseAssumption DEF TypeOK
<1>4. NoOwner # o
  BY NoOwnerAssumption
<1>5. ASSUME Claiming(o) PROVE StepShape(o)
  <2>1. CASE AcquireRead(o) BY <2>1, <1>1 DEF AcquireRead
  <2>2. CASE AcquireRefused(o) BY <2>2, <1>1 DEF AcquireRefused
  <2>3. CASE AcquireReenter(o)
    <3>1. Seen(snap[o]) /\ snap[o].owner = o /\ snap[o].fence \in Nat
      BY <2>3, <1>1, <1>2 DEF AcquireReenter, Lease
    <3>2. snap[o].fence > 0
      BY <3>1, <1>4 DEF Seen, AbsentLease
    <3>3. QED BY <2>3, <3>1, <3>2, <1>1, <1>3 DEF AcquireReenter, Seen
  <2>4. CASE AcquireWrite(o)
    <3>1. snap[o] = lease
      BY <2>4, <1>1, <1>2, SameRevisionIsSameRow DEF AcquireWrite
    <3>2. /\ lease'.fence = lease.fence + 1 /\ grants'[lease.fence + 1] = o
      BY <2>4, <3>1, <1>1, <1>3, FieldsOfWrites DEF AcquireWrite, RowIsNewestGrant
    <3>3. RowWrite(o)
      BY <2>4, <3>1, <1>3 DEF AcquireWrite
    <3>4. held'[o] = lease.fence + 1 /\ lease.fence + 1 <= lease'.fence
      BY <2>4, <3>1, <3>2, <1>1 DEF AcquireWrite
    <3>5. \A p \in Owner : p # o => held'[p] = held[p]
      BY <2>4, <1>1 DEF AcquireWrite
    <3>6. \A p \in Owner : snap'[p] \in {snap[p], AbsentLease} /\ beat'[p] = beat[p]
      BY <2>4, <1>1 DEF AcquireWrite
    <3>7. QED BY <3>2, <3>3, <3>4, <3>5, <3>6 DEF StepShape
  <2>5. CASE ClaimAppend(o) BY <2>5, <1>1 DEF ClaimAppend
  <2>6. CASE ClaimAppendFails(o) BY <2>6, <1>1 DEF ClaimAppendFails
  <2>7. QED BY <1>5, <2>1, <2>2, <2>3, <2>4, <2>5, <2>6 DEF Claiming
<1>6. ASSUME Settling(o) PROVE StepShape(o)
  <2>1. CASE CommitRead(o) BY <2>1, <1>1 DEF CommitRead
  <2>2. CASE CommitOpen(o)
    <3>1. snap[o] = lease
      BY <2>2, <1>1, <1>2, SameRevisionIsSameRow DEF CommitOpen
    <3>2. lease.owner = o /\ lease.fence > 0
      BY <2>2, <3>1, <1>1, <1>4 DEF CommitOpen, LiveHeldBy, RowIsNewestGrant, AbsentLease
    <3>3. QED BY <2>2, <3>1, <3>2, <1>1, <1>3 DEF CommitOpen
  <2>3. CASE CommitRefused(o) BY <2>3, <1>1 DEF CommitRefused
  <2>4. CASE TransactOpen(o)
    <3>1. lease.fence > 0
      BY <2>4, <1>1, <1>4 DEF TransactOpen, LiveHeldBy, RowIsNewestGrant, AbsentLease
    <3>2. QED BY <2>4, <3>1, <1>1, <1>3 DEF TransactOpen
  <2>5. CASE TransactRefused(o) BY <2>5, <1>1 DEF TransactRefused
  <2>6. CASE SettleAppend(o) BY <2>6, <1>1 DEF SettleAppend
  <2>7. CASE SettleAppendFails(o) BY <2>7, <1>1 DEF SettleAppendFails
  <2>8. QED BY <1>6, <2>1, <2>2, <2>3, <2>4, <2>5, <2>6, <2>7 DEF Settling
<1>7. ASSUME Synchronous(o) PROVE StepShape(o)
  <2>1. CASE SyncReenter(o)
    <3>1. lease.fence > 0
      BY <2>1, <1>1, <1>4 DEF SyncReenter, RowIsNewestGrant, AbsentLease
    <3>2. QED BY <2>1, <3>1, <1>1, <1>3 DEF SyncReenter, RowIsNewestGrant
  <2>2. CASE SyncAcquire(o)
    <3>1. /\ lease'.fence = lease.fence + 1 /\ grants'[lease.fence + 1] = o
      BY <2>2, <1>1, <1>3, FieldsOfWrites DEF SyncAcquire, RowIsNewestGrant
    <3>2. RowWrite(o)
      BY <2>2, <1>3 DEF SyncAcquire
    <3>3. held'[o] = lease.fence + 1 /\ lease.fence + 1 <= lease'.fence
      BY <2>2, <3>1, <1>1 DEF SyncAcquire
    <3>4. \A p \in Owner : p # o => held'[p] = held[p]
      BY <2>2, <1>1 DEF SyncAcquire
    <3>5. snap' = snap /\ beat' = beat
      BY <2>2 DEF SyncAcquire
    <3>6. QED BY <3>1, <3>2, <3>3, <3>4, <3>5 DEF StepShape
  <2>3. CASE SyncSettle(o)
    <3>1. lease.fence > 0
      BY <2>3, <1>1, <1>4 DEF SyncSettle, LiveHeldBy, RowIsNewestGrant, AbsentLease
    <3>2. QED BY <2>3, <3>1, <1>1, <1>3 DEF SyncSettle
  <2>4. CASE SyncSettleRefused(o) BY <2>4, <1>1 DEF SyncSettleRefused
  <2>5. QED BY <1>7, <2>1, <2>2, <2>3, <2>4 DEF Synchronous
<1>8. ASSUME Releasing(o) PROVE StepShape(o)
  <2>1. CASE Park(o) BY <2>1, <1>1 DEF Park
  <2>2. CASE ReleaseRead(o) BY <2>2, <1>1 DEF ReleaseRead
  <2>3. CASE ReleaseWrite(o)
    <3>1. CASE lease' = lease
      BY <2>3, <3>1, <1>1 DEF ReleaseWrite
    <3>2. CASE /\ snap[o].owner = o /\ SameRevision(lease, snap[o])
               /\ lease' = ReleasedRow(snap[o])
      <4>1. snap[o] = lease
        BY <3>2, <1>1, <1>2, SameRevisionIsSameRow
      <4>2. lease.fence > 0
        BY <3>2, <4>1, <1>1, <1>4 DEF RowIsNewestGrant, AbsentLease
      <4>3. QED BY <2>3, <3>2, <4>1, <4>2, <1>1 DEF ReleaseWrite
    <3>3. QED BY <2>3, <3>1, <3>2 DEF ReleaseWrite
  <2>4. QED BY <1>8, <2>1, <2>2, <2>3 DEF Releasing
<1>9. ASSUME Renewing(o) PROVE StepShape(o)
  <2>1. CASE RenewRead(o) BY <2>1, <1>1 DEF RenewRead
  <2>2. CASE RenewWrite(o)
    <3>1. CASE lease' = lease
      BY <2>2, <3>1, <1>1 DEF RenewWrite
    <3>2. CASE SameRevision(lease, beat[o]) /\ lease' = Extended(beat[o], now + ManagerTTL)
      <4>1. beat[o] = lease
        BY <3>2, <1>1, <1>2, SameRevisionIsSameRow
      <4>2. lease.fence > 0
        BY <2>2, <4>1, <1>1 DEF RenewWrite, RowIsNewestGrant
      <4>3. QED BY <2>2, <3>2, <4>1, <4>2, <1>1, <1>3 DEF RenewWrite
    <3>3. QED BY <2>2, <3>1, <3>2 DEF RenewWrite
  <2>3. QED BY <1>9, <2>1, <2>2 DEF Renewing
<1>10. ASSUME Crash(o) PROVE StepShape(o)
  BY <1>10, <1>1 DEF Crash
<1>11. QED BY <1>5, <1>6, <1>7, <1>8, <1>9, <1>10

(* The inductive invariant, before TLC's properties are drawn from it.     *)
LEMMA IInvInit == Init => IInv
BY TypeOKInit, AbsentIsLease
   DEF Init, IInv, RowIsNewestGrant, ReadsAreOfThePast, HeldWasGranted, Seen,
       AbsentLease

LEMMA IInvStep == IInv /\ [Next]_vars => IInv'
<1> SUFFICES ASSUME IInv, [Next]_vars PROVE IInv'
  OBVIOUS
<1>1. TypeOK /\ TypeOK' /\ RowIsNewestGrant
  BY TypeOKStep DEF IInv
<1>2. ASSUME NEW o \in Owner, StepShape(o) PROVE IInv'
  <2>1. /\ RowIsNewestGrant' /\ Seen(lease)'
        /\ \A r \in Lease : Seen(r) => Seen(r)'
        /\ \A f \in Nat, p \in Owner :
             f # 0 /\ f <= lease.fence /\ grants[f] = p
               => f <= lease'.fence /\ grants'[f] = p
    BY <1>1, <1>2, RowWriteStep DEF StepShape
  <2>2. Seen(AbsentLease)'
    BY <2>1, <1>1 DEF RowIsNewestGrant, Seen, AbsentLease, TypeOK, Lease
  <2>3. ReadsAreOfThePast'
    <3>1. ASSUME NEW p \in Owner PROVE Seen(snap[p])' /\ Seen(beat[p])'
      <4>1. Seen(snap[p]) /\ Seen(beat[p]) /\ snap[p] \in Lease /\ beat[p] \in Lease
        BY <1>1 DEF IInv, ReadsAreOfThePast, TypeOK
      <4>2. Seen(lease) /\ lease \in Lease
        BY <1>1 DEF RowIsNewestGrant, Seen, TypeOK, Lease
      <4>3. Seen(snap[p])'
        BY <1>2, <2>1, <2>2, <4>1, <4>2 DEF StepShape, Seen
      <4>4. Seen(beat[p])'
        BY <1>2, <2>1, <2>2, <4>1, <4>2 DEF StepShape, Seen
      <4>5. QED BY <4>3, <4>4
    <3>2. ASSUME NEW p \in Owner, beat'[p] # AbsentLease PROVE ~beat'[p].released
      BY <1>2, <3>2 DEF IInv, ReadsAreOfThePast, StepShape
    <3>3. QED BY <3>1, <3>2 DEF ReadsAreOfThePast
  <2>4. HeldWasGranted'
    <3> SUFFICES ASSUME NEW p \in Owner, held'[p] # 0
                 PROVE  held'[p] <= lease'.fence /\ grants'[held'[p]] = p
      BY DEF HeldWasGranted
    <3>1. CASE held'[p] = held[p]
      <4>1. held[p] \in Nat /\ held[p] # 0 /\ held[p] <= lease.fence /\ grants[held[p]] = p
        BY <1>1, <3>1 DEF IInv, HeldWasGranted, TypeOK
      <4>2. QED BY <2>1, <3>1, <4>1
    <3>2. CASE held'[p] # held[p]
      BY <1>2, <3>2 DEF StepShape
    <3>3. QED BY <3>1, <3>2
  <2>5. QED BY <1>1, <2>1, <2>3, <2>4 DEF IInv
<1>3. CASE Tick \/ UNCHANGED vars
  BY <1>1, <1>3 DEF Tick, vars, IInv, RowIsNewestGrant, ReadsAreOfThePast,
                    HeldWasGranted, Seen
<1>4. QED BY <1>2, <1>3, StepsHaveShape DEF Next

THEOREM InvariantHolds == Spec => []IInv
BY IInvInit, IInvStep, PTL DEF Spec

(* Two activations never act under the same fence.                         *)
THEOREM FencesAreExclusive == Spec => []OneOwnerPerFence
<1>1. IInv => OneOwnerPerFence
  BY DEF IInv, TypeOK, RowIsNewestGrant, HeldWasGranted, OneOwnerPerFence
<1>2. QED BY <1>1, InvariantHolds, PTL

(* What the two action properties say of every step, from its shape.       *)
LEMMA WritesRespectTheRow ==
  ASSUME TypeOK, NEW o \in Owner, RowWrite(o)
  PROVE  /\ lease'.owner # lease.owner => ~Live(lease, now) \/ Gone(lease.owner)
         /\ lease.released /\ ~lease'.released => lease'.fence > lease.fence
<1>0. lease \in Lease /\ lease.fence \in Nat
  BY DEF TypeOK, Lease
<1>1. CASE lease' = lease
  BY <1>1
<1>2. CASE /\ ~Live(lease, now) \/ Gone(lease.owner)
           /\ \E e \in Nat : lease' = Reclaimed(lease, o, e)
  <2>1. lease'.fence = lease.fence + 1
    BY <1>0, <1>2, FieldsOfWrites
  <2>2. QED BY <1>0, <1>2, <2>1
<1>3. CASE \/ \E e \in Nat : lease' = Extended(lease, e)
           \/ lease' = ReleasedRow(lease)
  <2>1. /\ lease'.owner = lease.owner
        /\ lease'.released = lease.released \/ lease'.released
    BY <1>0, <1>3, FieldsOfWrites
  <2>2. QED BY <2>1
<1>4. QED BY <1>1, <1>2, <1>3 DEF RowWrite

LEMMA StepsWriteTheRow ==
  ASSUME IInv, [Next]_vars
  PROVE  (\E o \in Owner : RowWrite(o)) \/ (lease' = lease /\ grants' = grants)
<1>1. CASE Tick \/ UNCHANGED vars BY <1>1 DEF Tick, vars
<1>2. QED BY <1>1, StepsHaveShape DEF Next, StepShape

(* A live lease never transfers, whatever its reclaimer had read before    *)
(* (acquire's compare-and-swap, and the in-transaction acquisition).       *)
THEOREM LiveLeaseNeverTransfers == Spec => NoLiveSteal
<1>1. ASSUME IInv, [Next]_vars
      PROVE  [lease'.owner # lease.owner => ~Live(lease, now) \/ Gone(lease.owner)]_vars
  <2>1. TypeOK BY <1>1 DEF IInv
  <2>2. QED BY <1>1, <2>1, StepsWriteTheRow, WritesRespectTheRow
<1>2. QED BY <1>1, InvariantHolds, PTL DEF Spec, NoLiveSteal

(* A released row is revived only under a new fence, whatever a renewal or *)
(* a commit window had read before the release.                            *)
THEOREM ReleaseIsFinal == Spec => ReleaseFinal
<1>1. ASSUME IInv, [Next]_vars
      PROVE  [lease.released /\ ~lease'.released => lease'.fence > lease.fence]_vars
  <2>1. TypeOK BY <1>1 DEF IInv
  <2>2. QED BY <1>1, <2>1, StepsWriteTheRow, WritesRespectTheRow
<1>2. QED BY <1>1, InvariantHolds, PTL DEF Spec, ReleaseFinal

-----------------------------------------------------------------------------
(* The synchronous path.                                                   *)

(* The steps of a synchronous store, seen from the journal: a claim under  *)
(* a new fence, a write under the row's fence by the row's owner, or no    *)
(* write at all.                                                           *)
JournalStep(o) ==
  \/ /\ grants' = Append(grants, o) /\ lease'.fence = lease.fence + 1
     /\ journal' = Append(journal, Fenced!Entry("node_started", o, lease.fence + 1))
  \/ /\ lease.owner = o
     /\ grants' = grants /\ lease'.fence = lease.fence
     /\ \E t \in {"node_started", "node_settled"} :
          journal' = Append(journal, Fenced!Entry(t, o, lease.fence))
  \/ journal' = journal /\ grants' = grants /\ lease'.fence = lease.fence

AllSync == \A o \in Owner : Port[o] = "sync"

SyncLocations == {"idle", "running", "unwinding", "releasing", "dead"}

LEMMA SyncStep ==
  ASSUME AllSync, IInv, NEW o \in Owner,
         \A p \in Owner : pc[p] \in SyncLocations,
         \/ Claiming(o) \/ Settling(o) \/ Synchronous(o)
         \/ Releasing(o) \/ Renewing(o) \/ Crash(o)
  PROVE  JournalStep(o) /\ \A p \in Owner : pc'[p] \in SyncLocations
<1> USE DEF JournalStep, SyncLocations, Move, AllSync
<1>1. /\ lease \in Lease /\ pc \in [Owner -> Location] /\ snap[o] \in Lease
      /\ beat[o] \in Lease /\ Seen(snap[o]) /\ Seen(beat[o]) /\ TypeOK
  BY DEF IInv, TypeOK, ReadsAreOfThePast
<1>2. now + ManagerTTL \in Nat /\ now + SyncTTL \in Nat
  BY <1>1, LeaseAssumption DEF TypeOK
<1>3. ~Claiming(o)
  BY DEF Claiming, AcquireRead, Async, AcquireRefused, AcquireReenter,
         AcquireWrite, ClaimAppend, ClaimAppendFails
<1>4. ~Settling(o)
  BY DEF Settling, CommitRead, CommitOpen, CommitRefused, TransactOpen,
         TransactRefused, SettleAppend, SettleAppendFails
<1>5. CASE Synchronous(o)
  <2>1. CASE SyncReenter(o)
    BY <2>1, <1>1 DEF SyncReenter, Record
  <2>2. CASE SyncAcquire(o)
    <3>1. lease'.fence = lease.fence + 1
      BY <2>2, <1>1, <1>2, FieldsOfWrites DEF SyncAcquire
    <3>2. QED BY <2>2, <3>1, <1>1 DEF SyncAcquire, Record
  <2>3. CASE SyncSettle(o)
    <3>1. lease'.fence = lease.fence
      BY <2>3, <1>1, <1>2, FieldsOfWrites DEF SyncSettle
    <3>2. QED BY <2>3, <3>1, <1>1 DEF SyncSettle, Record, LiveHeldBy
  <2>4. CASE SyncSettleRefused(o)
    BY <2>4, <1>1 DEF SyncSettleRefused
  <2>5. QED BY <1>5, <2>1, <2>2, <2>3, <2>4 DEF Synchronous
<1>6. CASE Releasing(o)
  <2>1. CASE Park(o) BY <2>1, <1>1 DEF Park
  <2>2. CASE ReleaseRead(o) BY <2>2, <1>1 DEF ReleaseRead
  <2>3. CASE ReleaseWrite(o)
    <3>1. lease'.fence = lease.fence
      BY <2>3, <1>1, FieldsOfWrites, SameRevisionIsSameRow DEF ReleaseWrite
    <3>2. QED BY <2>3, <3>1, <1>1 DEF ReleaseWrite
  <2>4. QED BY <1>6, <2>1, <2>2, <2>3 DEF Releasing
<1>7. CASE Renewing(o)
  <2>1. CASE RenewRead(o) BY <2>1, <1>1 DEF RenewRead
  <2>2. CASE RenewWrite(o)
    <3>1. lease'.fence = lease.fence
      BY <2>2, <1>1, <1>2, FieldsOfWrites, SameRevisionIsSameRow DEF RenewWrite
    <3>2. QED BY <2>2, <3>1, <1>1 DEF RenewWrite
  <2>3. QED BY <1>7, <2>1, <2>2 DEF Renewing
<1>8. CASE Crash(o) BY <1>8, <1>1 DEF Crash
<1>9. QED BY <1>3, <1>4, <1>5, <1>6, <1>7, <1>8

(* Every journaled fence is at most the row's, so the next write, made     *)
(* under the row's fence or a higher one, keeps the order.                 *)
JournalBelowRow == \A i \in DOMAIN journal : journal[i].fence <= lease.fence

SyncInv ==
  /\ \A o \in Owner : pc[o] \in SyncLocations
  /\ JournalBelowRow
  /\ JournalInFenceOrder

LEMMA SyncInvInit == Init => SyncInv
BY DEF Init, SyncInv, SyncLocations, JournalBelowRow, JournalInFenceOrder

LEMMA SyncInvStep ==
  ASSUME AllSync, IInv, SyncInv, [Next]_vars
  PROVE  SyncInv'
<1>0. /\ TypeOK /\ TypeOK' /\ lease.fence \in Nat /\ lease'.fence \in Nat
  BY TypeOKStep DEF IInv, TypeOK, Lease
<1>1. ASSUME NEW o \in Owner, JournalStep(o) PROVE JournalBelowRow' /\ JournalInFenceOrder'
  <2>1. ASSUME NEW e, journal' = Append(journal, e), e.fence = lease'.fence,
               lease.fence <= lease'.fence
        PROVE  JournalBelowRow' /\ JournalInFenceOrder'
    <3>1. /\ DOMAIN journal = 1 .. Len(journal) /\ Len(journal) \in Nat
          /\ \A i \in DOMAIN journal : journal[i].fence \in Nat
      <4>1. journal \in Seq(JournalEntry)
        BY <1>0 DEF TypeOK
      <4>2. ASSUME NEW i \in DOMAIN journal PROVE journal[i].fence \in Nat
        <5>1. journal[i] \in JournalEntry
          BY <4>1
        <5>2. QED BY <5>1 DEF JournalEntry
      <4>3. DOMAIN journal = 1 .. Len(journal) /\ Len(journal) \in Nat
        BY <4>1
      <4>4. QED BY <4>2, <4>3
    <3>2. /\ DOMAIN journal' = 1 .. Len(journal) + 1
          /\ journal'[Len(journal) + 1].fence = lease'.fence
          /\ \A i \in 1 .. Len(journal) : journal'[i] = journal[i]
      BY <1>0, <2>1 DEF TypeOK
    <3>3. JournalBelowRow'
      BY <1>0, <2>1, <3>1, <3>2 DEF SyncInv, JournalBelowRow
    <3>4. JournalInFenceOrder'
      BY <1>0, <2>1, <3>1, <3>2, <3>3 DEF SyncInv, JournalBelowRow, JournalInFenceOrder
    <3>5. QED BY <3>3, <3>4
  <2>2. CASE journal' = journal /\ lease'.fence = lease.fence
    BY <2>2 DEF SyncInv, JournalBelowRow, JournalInFenceOrder
  <2>3. QED BY <1>0, <1>1, <2>1, <2>2 DEF JournalStep, Fenced!Entry
<1>2. CASE Tick \/ UNCHANGED vars
  BY <1>2 DEF Tick, vars, SyncInv, JournalBelowRow, JournalInFenceOrder
<1>3. QED BY <1>1, <1>2, SyncStep DEF Next, SyncInv

(* A superseded owner never writes to the journal, when the settlement and *)
(* the check of the lease share one transaction.                           *)
THEOREM SupersededOwnersNeverWrite ==
  ASSUME AllSync
  PROVE  Spec => []JournalInFenceOrder
<1>1. IInv /\ SyncInv /\ [Next]_vars => SyncInv'
  BY SyncInvStep
<1>2. SyncInv => JournalInFenceOrder
  BY DEF SyncInv
<1>3. QED BY <1>1, <1>2, SyncInvInit, InvariantHolds, PTL DEF Spec

(* The synchronous path implements the fenced log: every step grants the   *)
(* next term with its owner's claim, writes under the newest term for its  *)
(* owner, or changes nothing the log can see.                              *)
THEOREM SyncPathImplementsFencedLog ==
  ASSUME AllSync
  PROVE  Spec => ImplementsFencedLog
<1>1. Init => Fenced!Init
  BY DEF Init, Fenced!Init
<1>2. IInv /\ SyncInv /\ [Next]_vars => SyncInv'
  BY SyncInvStep
<1>3. IInv /\ SyncInv /\ [Next]_vars => [Fenced!Next]_(Fenced!fvars)
  <2> SUFFICES ASSUME IInv, SyncInv, [Next]_vars
               PROVE  [Fenced!Next]_(Fenced!fvars)
    OBVIOUS
  <2> USE DEF Fenced!Next, Fenced!fvars
  <2>1. /\ lease.fence \in Nat /\ lease.fence = Len(grants)
        /\ lease.fence > 0 => grants[lease.fence] = lease.owner
        /\ lease.fence = 0 => lease.owner \notin Owner
        /\ grants \in Seq(Owner)
    BY NoOwnerAssumption DEF IInv, TypeOK, Lease, RowIsNewestGrant, AbsentLease
  <2>2. ASSUME NEW o \in Owner, JournalStep(o)
        PROVE  [Fenced!Next]_(Fenced!fvars)
    <3>1. CASE /\ grants' = Append(grants, o)
               /\ journal' = Append(journal, Fenced!Entry("node_started", o, lease.fence + 1))
      BY <2>1, <3>1 DEF Fenced!GrantAndClaim
    <3>2. ASSUME lease.owner = o, grants' = grants,
                 NEW t \in {"node_started", "node_settled"},
                 journal' = Append(journal, Fenced!Entry(t, o, lease.fence))
          PROVE  [Fenced!Next]_(Fenced!fvars)
      <4>1. grants # <<>> /\ grants[Len(grants)] = o
        BY <2>1, <3>2
      <4>2. Fenced!WriteUnder(o, t)
        BY <2>1, <3>2, <4>1 DEF Fenced!WriteUnder
      <4>3. QED BY <3>2, <4>2
    <3>3. CASE journal' = journal /\ grants' = grants
      BY <3>3
    <3>4. QED BY <2>2, <3>1, <3>2, <3>3 DEF JournalStep
  <2>3. CASE Tick \/ UNCHANGED vars
    BY <2>3 DEF Tick, vars
  <2>4. QED BY <2>2, <2>3, SyncStep DEF Next, SyncInv
<1>4. QED BY <1>1, <1>2, <1>3, SyncInvInit, InvariantHolds, PTL
          DEF Spec, ImplementsFencedLog, Fenced!Spec

(* Every variable keeps its type: in particular fences and revisions stay  *)
(* numbers and the row stays a well-formed lease under every interleaving. *)
THEOREM TypeCorrect == Spec => []TypeOK
BY TypeOKInit, TypeOKStep, PTL DEF Spec
=============================================================================
