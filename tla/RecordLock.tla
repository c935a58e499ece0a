----------------------------- MODULE RecordLock -----------------------------
(***************************************************************************)
(* The lock of one workflow run record, shared by every process that       *)
(* writes it: a directory beside the record, which its owner marks with a  *)
(* file of its own.  mkdir decides who may try, but a directory left empty *)
(* by a crash is removed after a while, under a slow creator too; so the   *)
(* creator shows its file and then lists the directory, and owns the lock  *)
(* only if it sees itself alone.  The file of a dead process is removed by *)
(* whoever meets it.  A step is one file-system call that others can see.  *)
(***************************************************************************)
EXTENDS Naturals, FiniteSets

CONSTANTS
    Proc,       \* processes; a restarted one has another pid
    Inode,      \* identities a directory may get, old ones included
    NoDir,
    NoInode

ASSUME LockAssumption ==
    /\ NoDir \notin [ino : Inode, files : SUBSET Proc, old : BOOLEAN]
    /\ NoInode \notin Inode

VARIABLES
    dir,        \* the lock directory; old: unchanged for EMPTY_LOCK_RECLAIM_MS
    me          \* where each call is, and the directory it created or met

lockVars == <<dir, me>>

Directory == [ino : Inode, files : SUBSET Proc, old : BOOLEAN]
Creating == {"made", "stage", "shown", "back", "work", "leave", "unlink", "left", "close"}
Meeting == {"stat", "list", "judge", "check", "reap", "recheck", "rmdir"}
Place == {"out", "try", "wait", "dead"} \cup Creating \cup Meeting

Knowing(place) == [at |-> place, ino |-> NoInode, files |-> {}]

LockInit ==
    /\ dir = NoDir
    /\ me = [p \in Proc |-> Knowing("out")]

At(p, place) == me[p].at = place
Alive(p) == ~At(p, "dead")
There == dir # NoDir
SameDirectory(i) == There /\ dir.ino = i

(* An attempt that ends forgets what it saw.                               *)
Goto(p, place) == me' = [me EXCEPT ![p].at = place]
Restart(p, place) == me' = [me EXCEPT ![p] = Knowing(place)]

(* A change of the entries renews the directory's mtime.                   *)
Touched(files) == dir' = [dir EXCEPT !.files = files, !.old = FALSE]

-----------------------------------------------------------------------------
Enter(p) ==
    /\ At(p, "out")
    /\ Restart(p, "try") /\ UNCHANGED dir

MakeDirectory(p) ==
    /\ At(p, "try") /\ ~There
    /\ \E i \in Inode : dir' = [ino |-> i, files |-> {}, old |-> FALSE]
    /\ Goto(p, "made")

(* The identity is read after the fact, and may be a successor's.          *)
Identify(p) ==
    /\ At(p, "made")
    /\ IF There THEN me' = [me EXCEPT ![p].at = "stage", ![p].ino = dir.ino]
                ELSE Restart(p, "try")
    /\ UNCHANGED dir

(* The owner record is complete and flushed before it is moved in.         *)
ShowOwner(p) ==
    /\ At(p, "stage")
    /\ IF There THEN Touched(dir.files \cup {p}) /\ Goto(p, "shown")
                ELSE Restart(p, "try") /\ UNCHANGED dir

StagingFails(p) ==
    /\ At(p, "stage")
    /\ Restart(p, "out") /\ UNCHANGED dir

(* The directory cannot be flushed: the call throws and takes its file out.*)
FlushFails(p) ==
    /\ At(p, "shown")
    /\ Goto(p, "leave") /\ UNCHANGED dir

\* Mutant of Alone: the listing is not compared with the caller's own file.
SameGeneration(p) == SameDirectory(me[p].ino)

Alone(p) == SameDirectory(me[p].ino) /\ dir.files = {p}

List(p) ==
    /\ At(p, "shown")
    /\ Goto(p, IF Alone(p) THEN "work" ELSE "back") /\ UNCHANGED dir

BackOff(p) ==
    /\ At(p, "back")
    /\ IF There /\ p \in dir.files THEN Touched(dir.files \ {p}) ELSE UNCHANGED dir
    /\ Restart(p, "try")

(* mkdir met a directory: its identity, its entries and what they say are  *)
(* read one after the other.                                               *)
Meet(p) ==
    /\ At(p, "try") /\ There
    /\ Goto(p, "stat") /\ UNCHANGED dir

Stat(p) ==
    /\ At(p, "stat")
    /\ IF There THEN me' = [me EXCEPT ![p].at = "list", ![p].ino = dir.ino]
                ELSE Restart(p, "try")
    /\ UNCHANGED dir

Observe(p) ==
    /\ At(p, "list")
    /\ IF There THEN me' = [me EXCEPT ![p].at = "judge", ![p].files = dir.files]
                ELSE Restart(p, "try")
    /\ UNCHANGED dir

(* One dead owner, or nobody for a while; more than one owner is corrupt   *)
(* evidence and stays.                                                     *)
Abandoned(files) ==
    \/ \E q \in Proc : files = {q} /\ ~Alive(q)
    \/ files = {} /\ dir.old

Judge(p) ==
    /\ At(p, "judge")
    /\ IF ~There \/ (Cardinality(me[p].files) = 1 /\ ~(me[p].files \subseteq dir.files))
       THEN Restart(p, "try")
       ELSE IF Abandoned(me[p].files) THEN Goto(p, "check") ELSE Restart(p, "wait")
    /\ UNCHANGED dir

Retry(p) ==
    /\ At(p, "wait")
    /\ Restart(p, "try") /\ UNCHANGED dir

(* The deadline or the last attempt: the work is never done without the    *)
(* lock.                                                                   *)
TimeOut(p) ==
    /\ me[p].at \in {"try", "wait"}
    /\ Restart(p, "out") /\ UNCHANGED dir

Check(p) ==
    /\ At(p, "check")
    /\ IF ~SameDirectory(me[p].ino) THEN Restart(p, "try")
       ELSE Goto(p, IF me[p].files = {} THEN "recheck" ELSE "reap")
    /\ UNCHANGED dir

(* The pathname holds the token of the owner that was observed.            *)
ReapOwner(p) ==
    /\ At(p, "reap")
    /\ IF There /\ me[p].files \subseteq dir.files
       THEN Touched(dir.files \ me[p].files) /\ Goto(p, "recheck")
       ELSE Restart(p, "try") /\ UNCHANGED dir

Recheck(p) ==
    /\ At(p, "recheck")
    /\ IF SameDirectory(me[p].ino) THEN Goto(p, "rmdir") ELSE Restart(p, "try")
    /\ UNCHANGED dir

(* rmdir takes only an empty directory.                                    *)
Emptied == IF There /\ dir.files = {} THEN dir' = NoDir ELSE UNCHANGED dir

RemoveDirectory(p) ==
    /\ At(p, "rmdir")
    /\ Emptied /\ Restart(p, "try")

Leave(p) ==
    /\ At(p, "work")
    /\ Goto(p, "leave") /\ UNCHANGED dir

(* A release acts only on the directory and the file it knows.             *)
CheckOwn(p) ==
    /\ At(p, "leave")
    /\ IF SameDirectory(me[p].ino) /\ p \in dir.files
       THEN Goto(p, "unlink") ELSE Restart(p, "out")
    /\ UNCHANGED dir

Unlink(p) ==
    /\ At(p, "unlink")
    /\ IF There /\ p \in dir.files
       THEN Touched(dir.files \ {p}) /\ Goto(p, "left")
       ELSE Restart(p, "out") /\ UNCHANGED dir

CheckLeft(p) ==
    /\ At(p, "left")
    /\ IF SameDirectory(me[p].ino) THEN Goto(p, "close") ELSE Restart(p, "out")
    /\ UNCHANGED dir

Close(p) ==
    /\ At(p, "close")
    /\ Emptied /\ Restart(p, "out")

(* Five seconds without a change.                                          *)
Age ==
    /\ There /\ ~dir.old
    /\ dir' = [dir EXCEPT !.old = TRUE]
    /\ UNCHANGED me

Crash(p) ==
    /\ Alive(p)
    /\ Restart(p, "dead") /\ UNCHANGED dir

Acquire(p) ==
    \/ Enter(p) \/ MakeDirectory(p) \/ Identify(p) \/ ShowOwner(p)
    \/ StagingFails(p) \/ FlushFails(p) \/ List(p) \/ BackOff(p)

Reclaim(p) ==
    \/ Meet(p) \/ Stat(p) \/ Observe(p) \/ Judge(p) \/ Retry(p) \/ TimeOut(p)
    \/ Check(p) \/ ReapOwner(p) \/ Recheck(p) \/ RemoveDirectory(p)

Release(p) == CheckOwn(p) \/ Unlink(p) \/ CheckLeft(p) \/ Close(p)

(* Everything but the end of the work.                                     *)
LockStep ==
    \/ \E p \in Proc : Acquire(p) \/ Reclaim(p) \/ Release(p) \/ Crash(p)
    \/ Age

LockNext == LockStep \/ \E p \in Proc : Leave(p)
LockSpec == LockInit /\ [][LockNext]_lockVars

-----------------------------------------------------------------------------
LockTypeOK ==
    /\ dir \in Directory \cup {NoDir}
    /\ me \in [Proc -> [at : Place, ino : Inode \cup {NoInode}, files : SUBSET Proc]]

(* Two processes are never in the critical section of one record at once,  *)
(* whatever directory identities are used again, however long any of them  *)
(* stalls between two calls, and whoever dies.                             *)
MutualExclusion ==
    \A p, q \in Proc : At(p, "work") /\ At(q, "work") => p = q

(* Nobody removes the file of a live process but that process itself.      *)
LiveOwnerStays ==
    [][\A p \in Proc : Alive(p) /\ There /\ p \in dir.files
          /\ ~(dir' # NoDir /\ p \in dir'.files)
          => me[p].at \in {"back", "unlink"}]_lockVars
=============================================================================
