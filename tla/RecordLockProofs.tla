-------------------------- MODULE RecordLockProofs --------------------------
(***************************************************************************)
(* RecordLock's types and its two properties, for any number of processes  *)
(* and directory identities.  A process that has shown its file and has    *)
(* not begun to take it out finds it in the directory, whoever reclaims:   *)
(* a reclaimer takes only files of the dead, and rmdir only an empty       *)
(* directory.  So of two processes the later to list sees the other's.     *)
(***************************************************************************)
EXTENDS RecordLock, TLAPS

Showing(p) == me[p].at \in {"shown", "back", "work", "leave", "unlink"}

ShownIsThere == \A p \in Proc : Showing(p) => There /\ p \in dir.files

ReapersSawDead ==
    \A p \in Proc : me[p].at \in {"check", "reap"} => \A q \in me[p].files : At(q, "dead")

LockInv == LockTypeOK /\ ShownIsThere /\ ReapersSawDead /\ MutualExclusion

(* Every variable keeps its type, whatever call of whatever process runs.  *)
LEMMA LockTypes == ASSUME LockTypeOK, [LockNext]_lockVars PROVE LockTypeOK'
<1> USE LockAssumption DEF LockTypeOK, Directory, Place, Creating, Meeting
<1> SUFFICES ASSUME LockNext PROVE LockTypeOK'
  BY DEF lockVars
<1>0. ASSUME NEW s \in SUBSET Proc, There, Touched(s) PROVE dir' \in Directory
  BY <1>0 DEF There, Touched
<1> USE DEF At, Alive, There, Goto, Restart, Knowing, Emptied
<1>1. ASSUME NEW p \in Proc, Acquire(p) PROVE LockTypeOK'
  <2>1. CASE Enter(p)  BY <2>1 DEF Enter
  <2>2. CASE MakeDirectory(p)  BY <2>2 DEF MakeDirectory
  <2>3. CASE Identify(p)  BY <2>3 DEF Identify
  <2>4. CASE ShowOwner(p)  BY <1>0, <2>4 DEF ShowOwner
  <2>5. CASE StagingFails(p)  BY <2>5 DEF StagingFails
  <2>6. CASE FlushFails(p)  BY <2>6 DEF FlushFails
  <2>7. CASE List(p)  BY <2>7 DEF List
  <2>8. CASE BackOff(p)  BY <1>0, <2>8 DEF BackOff
  <2> QED  BY <1>1, <2>1, <2>2, <2>3, <2>4, <2>5, <2>6, <2>7, <2>8 DEF Acquire
<1>2. ASSUME NEW p \in Proc, Reclaim(p) PROVE LockTypeOK'
  <2>1. CASE Meet(p)  BY <2>1 DEF Meet
  <2>2. CASE Stat(p)  BY <2>2 DEF Stat
  <2>3. CASE Observe(p)  BY <2>3 DEF Observe
  <2>4. CASE Judge(p)  BY <2>4 DEF Judge
  <2>5. CASE Retry(p)  BY <2>5 DEF Retry
  <2>6. CASE TimeOut(p)  BY <2>6 DEF TimeOut
  <2>7. CASE Check(p)  BY <2>7 DEF Check
  <2>8. CASE ReapOwner(p)  BY <1>0, <2>8 DEF ReapOwner
  <2>9. CASE Recheck(p)  BY <2>9 DEF Recheck
  <2>10. CASE RemoveDirectory(p)  BY <2>10 DEF RemoveDirectory
  <2> QED  BY <1>2, <2>1, <2>2, <2>3, <2>4, <2>5, <2>6, <2>7, <2>8, <2>9, <2>10 DEF Reclaim
<1>3. ASSUME NEW p \in Proc, Release(p) PROVE LockTypeOK'
  <2>1. CASE CheckOwn(p)  BY <2>1 DEF CheckOwn
  <2>2. CASE Unlink(p)  BY <1>0, <2>2 DEF Unlink
  <2>3. CASE CheckLeft(p)  BY <2>3 DEF CheckLeft
  <2>4. CASE Close(p)  BY <2>4 DEF Close
  <2> QED  BY <1>3, <2>1, <2>2, <2>3, <2>4 DEF Release
<1>4. ASSUME NEW p \in Proc, Crash(p) \/ Leave(p) PROVE LockTypeOK'
  BY <1>4 DEF Crash, Leave
<1>5. CASE Age  BY <1>5 DEF Age
<1> QED  BY <1>1, <1>2, <1>3, <1>4, <1>5 DEF LockNext, LockStep

(* What a step may do to the other processes: nothing, and nobody rises    *)
(* from the dead.                                                          *)
LEMMA OnlyItself ==
    ASSUME LockTypeOK, NEW p \in Proc, Acquire(p) \/ Reclaim(p) \/ Release(p) \/ Crash(p) \/ Leave(p)
    PROVE  /\ \A q \in Proc \ {p} : me'[q] = me[q]
           /\ ~At(p, "dead")
<1> USE DEF LockTypeOK, At, Alive, Goto, Restart
<1>1. CASE Acquire(p)
  BY <1>1 DEF Acquire, Enter, MakeDirectory, Identify, ShowOwner, StagingFails, FlushFails, List, BackOff
<1>2. CASE Reclaim(p)
  BY <1>2 DEF Reclaim, Meet, Stat, Observe, Judge, Retry, TimeOut, Check, ReapOwner, Recheck,
              RemoveDirectory
<1>3. CASE Release(p)
  BY <1>3 DEF Release, CheckOwn, Unlink, CheckLeft, Close
<1>4. CASE Crash(p) \/ Leave(p)
  BY <1>4 DEF Crash, Leave
<1> QED  BY <1>1, <1>2, <1>3, <1>4

(* The file of a live process is taken out by that process alone, when it  *)
(* backs off or releases, and it then counts on it no longer.              *)
LEMMA FilesOfTheLive ==
    ASSUME LockInv, [LockNext]_lockVars, NEW q \in Proc, There, q \in dir.files, ~At(q, "dead")
    PROVE  \/ There' /\ q \in dir'.files
           \/ me[q].at \in {"back", "unlink"} /\ ~Showing(q)'
<1> DEFINE Stays == There' /\ q \in dir'.files
           Leaves == me[q].at \in {"back", "unlink"} /\ ~Showing(q)'
<1> USE LockAssumption DEF LockInv, LockTypeOK
<1>1. dir \in Directory /\ dir # NoDir  BY DEF There
<1>2. ASSUME NEW s \in SUBSET Proc, Touched(s), q \in s PROVE Stays
  BY <1>1, <1>2 DEF Touched, Directory, There
<1>3. ASSUME Emptied PROVE Stays
  BY <1>3 DEF Emptied, There
<1>4. ASSUME NEW p \in Proc, Acquire(p) PROVE Stays \/ Leaves
  <2>1. CASE BackOff(p) /\ p # q  BY <1>1, <1>2, <2>1 DEF BackOff, Directory, There
  <2>2. CASE BackOff(p) /\ p = q
    BY <2>2 DEF BackOff, At, Restart, Knowing, Showing
  <2>3. CASE ShowOwner(p)  BY <1>1, <1>2, <2>3 DEF ShowOwner, Directory
  <2>4. CASE MakeDirectory(p)  BY <2>4 DEF MakeDirectory
  <2> QED
    BY <1>4, <2>1, <2>2, <2>3, <2>4
    DEF Acquire, Enter, Identify, StagingFails, FlushFails, List, There
<1>5. ASSUME NEW p \in Proc, Reclaim(p) PROVE Stays
  <2>1. CASE ReapOwner(p)
    <3>1. q \notin me[p].files  BY <2>1 DEF ReapOwner, ReapersSawDead, At
    <3> QED  BY <1>1, <1>2, <2>1, <3>1 DEF ReapOwner, Directory, There
  <2>2. CASE RemoveDirectory(p)  BY <1>3, <2>2 DEF RemoveDirectory
  <2> QED
    BY <1>5, <2>1, <2>2
    DEF Reclaim, Meet, Stat, Observe, Judge, Retry, TimeOut, Check, Recheck, There
<1>6. ASSUME NEW p \in Proc, Release(p) PROVE Stays \/ Leaves
  <2>1. CASE Unlink(p) /\ p # q  BY <1>1, <1>2, <2>1 DEF Unlink, Directory, There
  <2>2. CASE Unlink(p) /\ p = q
    BY <2>2 DEF Unlink, At, Goto, Restart, Knowing, Showing
  <2>3. CASE Close(p)  BY <1>3, <2>3 DEF Close
  <2> QED  BY <1>6, <2>1, <2>2, <2>3 DEF Release, CheckOwn, CheckLeft, There
<1>7. ASSUME NEW p \in Proc, Crash(p) \/ Leave(p) PROVE Stays
  BY <1>7 DEF Crash, Leave, There
<1>8. CASE Age
  BY <1>1, <1>8 DEF Age, Directory, There
<1>9. CASE UNCHANGED lockVars
  BY <1>9 DEF lockVars, There
<1> QED  BY <1>4, <1>5, <1>6, <1>7, <1>8, <1>9 DEF LockNext, LockStep

(* Who has shown its file has it in the directory: it was put there, and   *)
(* nobody else takes it out.                                               *)
LEMMA ShownStaysThere == ASSUME LockInv, [LockNext]_lockVars PROVE ShownIsThere'
<1> SUFFICES ASSUME NEW q \in Proc, Showing(q)' PROVE There' /\ q \in dir'.files
  BY DEF ShownIsThere, There, Showing
<1>1. CASE Showing(q)
  BY <1>1, FilesOfTheLive DEF LockInv, ShownIsThere, Showing, At
<1>2. CASE ~Showing(q)
  <2>1. me'[q] # me[q]  BY <1>2 DEF Showing
  <2>2. Acquire(q) \/ Reclaim(q) \/ Release(q) \/ Crash(q) \/ Leave(q)
    BY <2>1, OnlyItself DEF LockInv, LockNext, LockStep, lockVars, Age
  <2> USE LockAssumption DEF LockInv, LockTypeOK, Showing, At, Goto, Restart, Knowing
  <2>3. CASE ShowOwner(q)
    <3>1. There /\ Touched(dir.files \cup {q})  BY <1>2, <2>3 DEF ShowOwner
    <3>2. dir \in Directory  BY <3>1 DEF There
    <3>3. dir' \in Directory /\ q \in dir'.files  BY <3>1, <3>2 DEF Touched, Directory
    <3> QED  BY <3>3 DEF There, Directory
  <2>4. ~Reclaim(q)
    BY <1>2 DEF Reclaim, Meet, Stat, Observe, Judge, Retry, TimeOut, Check, ReapOwner, Recheck,
                RemoveDirectory
  <2>5. ~Release(q) /\ ~Crash(q) /\ ~Leave(q)
    BY <1>2 DEF Release, CheckOwn, Unlink, CheckLeft, Close, Crash, Leave
  <2>6. Acquire(q) => ShowOwner(q)
    BY <1>2 DEF Acquire, Enter, MakeDirectory, Identify, StagingFails, FlushFails, List, BackOff
  <2> QED  BY <2>2, <2>3, <2>4, <2>5, <2>6
<1> QED  BY <1>1, <1>2

(* A reclaimer goes on only with an owner it found dead, and the dead stay *)
(* dead.                                                                   *)
LEMMA ReapersKeepToTheDead == ASSUME LockInv, [LockNext]_lockVars PROVE ReapersSawDead'
<1> USE DEF LockInv, LockTypeOK
<1> SUFFICES ASSUME NEW p \in Proc, me'[p].at \in {"check", "reap"}, NEW q \in me'[p].files
             PROVE  me'[q].at = "dead"
  BY DEF ReapersSawDead, At
<1>1. q \in Proc
  BY LockTypes
<1>2. ASSUME At(q, "dead") PROVE me'[q].at = "dead"
  BY <1>1, <1>2, OnlyItself DEF LockNext, LockStep, lockVars, Age, At
<1>3. CASE me'[p] = me[p]
  BY <1>1, <1>2, <1>3 DEF ReapersSawDead
<1>4. CASE me'[p] # me[p]
  <2>1. Acquire(p) \/ Reclaim(p) \/ Release(p) \/ Crash(p) \/ Leave(p)
    BY <1>4, OnlyItself DEF LockNext, LockStep, lockVars, Age
  <2> USE DEF At, Goto, Restart, Knowing
  <2>2. ~Acquire(p)
    BY DEF Acquire, Enter, MakeDirectory, Identify, ShowOwner, StagingFails, FlushFails, List, BackOff
  <2>3. ~Release(p) /\ ~Crash(p) /\ ~Leave(p)
    BY DEF Release, CheckOwn, Unlink, CheckLeft, Close, Crash, Leave
  <2>4. CASE Judge(p)
    BY <1>1, <1>2, <2>4 DEF Judge, Abandoned, Alive
  <2>5. CASE Check(p)
    BY <1>1, <1>2, <2>5 DEF Check, ReapersSawDead
  <2>6. Reclaim(p) => Judge(p) \/ Check(p)
    BY DEF Reclaim, Meet, Stat, Observe, Retry, TimeOut, ReapOwner, Recheck, RemoveDirectory
  <2> QED  BY <2>1, <2>2, <2>3, <2>4, <2>5, <2>6
<1> QED  BY <1>3, <1>4

(* The later of two to list the directory finds the file of the other.     *)
LEMMA WorkersExclude == ASSUME LockInv, [LockNext]_lockVars PROVE MutualExclusion'
<1> USE DEF LockInv, LockTypeOK
<1>1. ASSUME NEW p \in Proc, me'[p].at = "work", ~At(p, "work") PROVE List(p) /\ Alone(p)
  <2>1. Acquire(p) \/ Reclaim(p) \/ Release(p) \/ Crash(p) \/ Leave(p)
    BY <1>1, OnlyItself DEF LockNext, LockStep, lockVars, Age, At
  <2> USE <1>1 DEF At, Goto, Restart, Knowing
  <2>2. ~Reclaim(p)
    BY DEF Reclaim, Meet, Stat, Observe, Judge, Retry, TimeOut, Check, ReapOwner, Recheck,
           RemoveDirectory
  <2>3. ~Release(p) /\ ~Crash(p) /\ ~Leave(p)
    BY DEF Release, CheckOwn, Unlink, CheckLeft, Close, Crash, Leave
  <2>4. Acquire(p) => List(p) /\ Alone(p)
    BY DEF Acquire, Enter, MakeDirectory, Identify, ShowOwner, StagingFails, FlushFails, List, BackOff
  <2> QED  BY <2>1, <2>2, <2>3, <2>4
<1>2. ASSUME NEW p \in Proc, NEW q \in Proc, me'[p].at = "work", me'[q].at = "work", p # q
      PROVE  FALSE
  <2>1. At(p, "work") \/ At(q, "work")
    BY <1>1, <1>2, OnlyItself DEF List, Acquire, At
  <2>2. CASE At(p, "work") /\ At(q, "work")
    BY <1>2, <2>2 DEF MutualExclusion
  <2>3. ASSUME NEW r \in Proc, NEW s \in Proc, r # s, At(r, "work"), ~At(s, "work"),
               me'[s].at = "work"
        PROVE  FALSE
    <3>1. Alone(s)  BY <1>1, <2>3
    <3>2. r \in dir.files  BY <2>3 DEF ShownIsThere, Showing, At
    <3> QED  BY <2>3, <3>1, <3>2 DEF Alone
  <2> QED  BY <1>2, <2>1, <2>2, <2>3
<1> QED  BY <1>2 DEF MutualExclusion, At

(* The lock's invariant holds at first and is kept by every step.          *)
THEOREM LockInductive ==
    /\ LockInit => LockInv
    /\ LockInv /\ [LockNext]_lockVars => LockInv'
<1>1. LockInit => LockInv
  BY DEF LockInit, LockInv, LockTypeOK, ShownIsThere, ReapersSawDead, MutualExclusion, Showing, At,
         Knowing, Place, Creating, Meeting
<1>2. LockInv /\ [LockNext]_lockVars => LockInv'
  BY LockTypes, ShownStaysThere, ReapersKeepToTheDead, WorkersExclude DEF LockInv
<1> QED  BY <1>1, <1>2

(* The inductive invariant of the lock: types, the file of a caller that   *)
(* has shown it is in the directory, reclaimers hold evidence of death,    *)
(* one worker.                                                             *)
THEOREM LockInvariant == LockSpec => []LockInv
  BY LockInductive, PTL DEF LockSpec

(* The lock's own theorem: never two processes in the critical section of  *)
(* one run record.                                                         *)
THEOREM LockExcludes == LockSpec => []MutualExclusion
<1>1. LockInv => MutualExclusion  BY DEF LockInv
<1> QED  BY <1>1, LockInvariant, PTL

(* The file of a live process leaves the directory only when that process  *)
(* backs off or releases.                                                  *)
THEOREM LiveOwnerStaysHolds == LockSpec => LiveOwnerStays
<1>1. ASSUME LockInv, [LockNext]_lockVars
      PROVE  [\A p \in Proc : Alive(p) /\ There /\ p \in dir.files
                /\ ~(dir' # NoDir /\ p \in dir'.files)
                => me[p].at \in {"back", "unlink"}]_lockVars
  BY <1>1, FilesOfTheLive DEF Alive, There
<1> QED  BY <1>1, LockInvariant, PTL DEF LockSpec, LiveOwnerStays
=============================================================================
