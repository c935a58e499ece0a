------------------------------ MODULE FileLock ------------------------------
(***************************************************************************)
(* The cross-process lock every JSON store is written under                *)
(* (runtime/atomic-json.ts): a `<path>.lock` file created exclusively and  *)
(* then filled with its owner's token; the reaping of a lock whose owner   *)
(* is gone; and the deletion guard, a bakery of marker files that every    *)
(* deletion of the lock goes through.                                      *)
(*                                                                         *)
(* An agent is a thread of a process of its own.  One step per file-system *)
(* call that others can see; a crash may fall between any two of them.     *)
(* What a dead process leaves of the guard (choose and ticket markers) is  *)
(* ignored by whoever lists it, so a crash removes it here.                *)
(***************************************************************************)
EXTENDS Naturals, FiniteSets

CONSTANTS
  Agent,         \* positive numbers, in the order of their owner tokens
  BestEffort,    \* agents that call withFileLockSync
  Faults,        \* what may go wrong (see FaultKind)
  PromptCreate,  \* no live creator takes STALE_LOCK_MS to write its token
  InodeReuse,    \* the file system may give a new lock a freed inode
  MaxCalls,      \* MaxCalls[a]: bound on the calls of a
  MaxFaults,     \* bound on the faults
  MaxTicket      \* bound on the bakery's tickets

FaultKind == {"crash", "timeout", "io"}

ASSUME LockAssumption ==
  /\ Agent \subseteq Nat \ {0} /\ BestEffort \subseteq Agent
  /\ Faults \subseteq FaultKind
  /\ PromptCreate \in BOOLEAN /\ InodeReuse \in BOOLEAN
  /\ MaxCalls \in [Agent -> Nat] /\ MaxFaults \in Nat /\ MaxTicket \in Nat

VARIABLES
  lock,       \* the lock file on its path
  alive,      \* agents whose process runs
  calls,      \* calls[a]: calls begun, part of a's owner token
  pc,         \* pc[a]: where a's call is
  lease,      \* lease[a]: the generation a holds
  observed,   \* observed[a]: the stale lock a set out to reap
  abandoned,  \* abandoned[a]: the lease a could not take down
  guard,      \* guard[a]: where a is in the deletion guard
  num,        \* num[a]: its ticket
  file,       \* the store: a counter every mutation increments
  seen,       \* seen[a]: the value a's mutation started from
  commits,    \* how many mutations were written
  unlocked,   \* a best-effort call has gone ahead without the lock
  torn,       \* tokens whose write reached the lock file and failed
  faults

guardVars == <<guard, num>>
dataVars  == <<file, seen, commits>>
marks     == <<unlocked, torn>>
vars == <<lock, alive, calls, pc, lease, observed, abandoned, guardVars, dataVars,
          marks, faults>>

-----------------------------------------------------------------------------
(* Lock files: a generation (dev and ino), a token, and whether its ctime  *)
(* is more than STALE_LOCK_MS ago.                                         *)

None == <<0, 0>>
Recycled == <<0, 1>>
Token(a) == <<a, calls[a]>>

File(gen, tok) == [gen |-> gen, tok |-> tok, old |-> FALSE]
NoFile == File(None, None)

Same(f, g) == f.gen # None /\ f.gen = g.gen /\ f.tok = g.tok

(* A generation in use: on the path, or open in a creator's hands.         *)
InUse == {lock.gen} \cup {lease[b].gen : b \in {c \in alive : pc[c] = "create"}}

FreshGen(a) == {Token(a)} \cup IF InodeReuse THEN {Recycled} \ InUse ELSE {}

(* Mutant of Stale: nothing is remembered of an abandoned lease.           *)
StaleIfDead(a, f) ==
  \/ f.tok # None /\ f.tok[1] \notin alive
  \/ f.tok = None /\ f.old

Stale(a, f) ==
  \/ Same(abandoned[a], f)
  \/ f.tok # None /\ f.tok[1] \notin alive
  \/ f.tok = None /\ f.old

Holding == {"work", "mutate", "done", "release"}

(* Live agents inside a critical section they entered with the lock.       *)
Holders == {a \in alive : pc[a] \in Holding /\ lease[a] # NoFile}

Init ==
  /\ lock = NoFile /\ alive = Agent
  /\ calls = [a \in Agent |-> 0] /\ pc = [a \in Agent |-> "idle"]
  /\ lease = [a \in Agent |-> NoFile] /\ observed = [a \in Agent |-> NoFile]
  /\ abandoned = [a \in Agent |-> NoFile]
  /\ guard = [a \in Agent |-> "no"] /\ num = [a \in Agent |-> 0]
  /\ file = 0 /\ seen = [a \in Agent |-> 0] /\ commits = 0
  /\ unlocked = FALSE /\ torn = {} /\ faults = 0

At(a, label) == a \in alive /\ pc[a] = label
Goto(a, label) == pc' = [pc EXCEPT ![a] = label]
Guard(a, label) == guard' = [guard EXCEPT ![a] = label]

Fault(kind) == kind \in Faults /\ faults < MaxFaults /\ faults' = faults + 1

-----------------------------------------------------------------------------
(* Acquisition.                                                            *)

Call(a) ==
  /\ At(a, "idle") /\ guard[a] = "no" /\ calls[a] < MaxCalls[a]
  /\ calls' = [calls EXCEPT ![a] = calls[a] + 1]
  /\ Goto(a, "wait")
  /\ UNCHANGED <<lock, alive, lease, observed, abandoned, guardVars, dataVars, marks,
                 faults>>

(* Mutant of Open: the lease does not know its token.                      *)
OpenUntold(a) ==
  /\ At(a, "wait") /\ guard[a] = "no" /\ lock = NoFile
  /\ \E g \in FreshGen(a) :
       /\ lock' = File(g, None)
       /\ lease' = [lease EXCEPT ![a] = File(g, None)]
  /\ abandoned' = [abandoned EXCEPT ![a] = NoFile]
  /\ Goto(a, "create")
  /\ UNCHANGED <<alive, calls, observed, guardVars, dataVars, marks, faults>>

(* The path is free: the lock file is created, still empty.                *)
Open(a) ==
  /\ At(a, "wait") /\ guard[a] = "no" /\ lock = NoFile
  /\ \E g \in FreshGen(a) :
       /\ lock' = File(g, None)
       /\ lease' = [lease EXCEPT ![a] = File(g, Token(a))]
  /\ abandoned' = [abandoned EXCEPT ![a] = NoFile]
  /\ Goto(a, "create")
  /\ UNCHANGED <<alive, calls, observed, guardVars, dataVars, marks, faults>>

(* The token is written to the inode that was opened, wherever it is now.  *)
WriteToken(a) ==
  /\ At(a, "create")
  /\ lock' = IF lock.gen = lease[a].gen THEN lease[a] ELSE lock
  /\ Goto(a, "work")
  /\ UNCHANGED <<alive, calls, lease, observed, abandoned, guardVars, dataVars, marks,
                 faults>>

(* Writing it fails, before the token is in the file or after, as the file *)
(* is synced, examined or closed: the call throws, and nothing remembers   *)
(* the lock it leaves.                                                     *)
WriteTokenFails(a) ==
  /\ At(a, "create") /\ Fault("io")
  /\ \/ UNCHANGED <<lock, torn>>
     \/ /\ lock' = IF lock.gen = lease[a].gen THEN lease[a] ELSE lock
        /\ torn' = torn \cup {Token(a)}
  /\ lease' = [lease EXCEPT ![a] = NoFile]
  /\ Goto(a, "idle")
  /\ UNCHANGED <<alive, calls, observed, abandoned, guardVars, dataVars, unlocked>>

(* The path is taken by a lock that looks stale: a sets out to reap it.    *)
Observe(a) ==
  /\ At(a, "wait") /\ guard[a] = "no" /\ lock # NoFile /\ Stale(a, lock)
  /\ observed' = [observed EXCEPT ![a] = lock]
  /\ Goto(a, "reap")
  /\ UNCHANGED <<lock, alive, calls, lease, abandoned, guardVars, dataVars, marks,
                 faults>>

(* The bounded wait is over.  A best-effort call goes on without the lock. *)
GiveUp(a) ==
  /\ At(a, "wait") /\ guard[a] = "no" /\ lock # NoFile /\ Fault("timeout")
  /\ IF a \in BestEffort THEN Goto(a, "work") /\ unlocked' = TRUE
     ELSE Goto(a, "idle") /\ UNCHANGED unlocked
  /\ UNCHANGED <<lock, alive, calls, lease, observed, abandoned, guardVars, dataVars, torn>>

-----------------------------------------------------------------------------
(* The deletion guard, taken by an agent about to reap or to release.      *)

Choosing == {"choosing", "picked", "ticketed"}
Ticketed == {"ticketed", "numbered", "held", "checked", "leaving"}
InGuard  == {"held", "checked"}

Choose(a) ==
  /\ a \in alive /\ pc[a] \in {"reap", "release"} /\ guard[a] = "no"
  /\ Guard(a, "choosing")
  /\ UNCHANGED <<lock, alive, calls, pc, lease, observed, abandoned, num, dataVars,
                 marks, faults>>

(* Mutant of Follows: every ticket is the first.                           *)
AlwaysFirst(n) == n = 1

(* n is one more than the highest ticket of a live agent.                  *)
Follows(n) ==
  LET live == {b \in alive : guard[b] \in Ticketed}
  IN  /\ \A b \in live : num[b] < n
      /\ n = 1 \/ \E b \in live : num[b] = n - 1

Pick(a) ==
  /\ a \in alive /\ guard[a] = "choosing"
  /\ \E n \in 1 .. MaxTicket : Follows(n) /\ num' = [num EXCEPT ![a] = n]
  /\ Guard(a, "picked")
  /\ UNCHANGED <<lock, alive, calls, pc, lease, observed, abandoned, dataVars, marks,
                 faults>>

TakeTicket(a) ==
  /\ a \in alive /\ guard[a] = "picked"
  /\ Guard(a, "ticketed")
  /\ UNCHANGED <<lock, alive, calls, pc, lease, observed, abandoned, num, dataVars,
                 marks, faults>>

Unchoose(a) ==
  /\ a \in alive /\ guard[a] = "ticketed"
  /\ Guard(a, "numbered")
  /\ UNCHANGED <<lock, alive, calls, pc, lease, observed, abandoned, num, dataVars,
                 marks, faults>>

Before(b, a) == num[b] < num[a] \/ (num[b] = num[a] /\ b < a)

(* Mutant of Blocked: choosers are not waited for.                         *)
BlockedByTickets(a) ==
  \E b \in alive \ {a} : guard[b] \in Ticketed /\ Before(b, a)

(* A live chooser, or a live ticket before a's.                            *)
Blocked(a) ==
  \E b \in alive \ {a} : \/ guard[b] \in Choosing
                         \/ guard[b] \in Ticketed /\ Before(b, a)

Enter(a) ==
  /\ a \in alive /\ guard[a] = "numbered" /\ ~Blocked(a)
  /\ Guard(a, "held")
  /\ UNCHANGED <<lock, alive, calls, pc, lease, observed, abandoned, num, dataVars,
                 marks, faults>>

(* Blocked: the ticket is given back, the lock is tried again.             *)
Yield(a) ==
  /\ a \in alive /\ guard[a] = "numbered" /\ Blocked(a)
  /\ Guard(a, "leaving")
  /\ Goto(a, IF pc[a] = "reap" THEN "wait" ELSE "done")
  /\ observed' = [observed EXCEPT ![a] = NoFile]
  /\ UNCHANGED <<lock, alive, calls, lease, abandoned, num, dataVars, marks,
                 faults>>

(* A marker cannot be created: a reaper's call throws, a release is given  *)
(* up and the lease left where it is.                                      *)
MarkerFails(a) ==
  /\ a \in alive /\ pc[a] \in {"reap", "release"} /\ guard[a] \in {"no", "picked"}
  /\ Fault("io")
  /\ abandoned' = IF pc[a] = "release" THEN [abandoned EXCEPT ![a] = lease[a]] ELSE abandoned
  /\ lease' = [lease EXCEPT ![a] = NoFile]
  /\ Goto(a, "idle") /\ Guard(a, "no")
  /\ num' = [num EXCEPT ![a] = 0]
  /\ observed' = [observed EXCEPT ![a] = NoFile]
  /\ UNCHANGED <<lock, alive, calls, dataVars, marks>>

(* The ticket is removed.                                                  *)
Leave(a) ==
  /\ a \in alive /\ guard[a] = "leaving"
  /\ Guard(a, "no") /\ num' = [num EXCEPT ![a] = 0]
  /\ UNCHANGED <<lock, alive, calls, pc, lease, observed, abandoned, dataVars, marks,
                 faults>>

-----------------------------------------------------------------------------
(* Reaping, under the guard.                                               *)

(* Mutant of Revalidate: the observation is trusted.                       *)
TrustObserved(a) ==
  /\ At(a, "reap") /\ guard[a] = "held"
  /\ Guard(a, "checked")
  /\ UNCHANGED <<lock, alive, calls, pc, lease, observed, abandoned, num, dataVars,
                 marks, faults>>

(* Mutant of StillStale: some lock is still there.                         *)
StillThere(a) == lock # NoFile

(* What a observed is still there and still stale.  The age of a malformed *)
(* lock is that of the observation.                                        *)
StillStale(a) ==
  /\ Same(observed[a], lock)
  /\ \/ Same(abandoned[a], lock)
     \/ lock.tok # None /\ lock.tok[1] \notin alive
     \/ lock.tok = None /\ observed[a].old

Revalidate(a) ==
  /\ At(a, "reap") /\ guard[a] = "held" /\ StillStale(a)
  /\ Guard(a, "checked")
  /\ UNCHANGED <<lock, alive, calls, pc, lease, observed, abandoned, num, dataVars,
                 marks, faults>>

RevalidateFails(a) ==
  /\ At(a, "reap") /\ guard[a] = "held" /\ ~StillStale(a)
  /\ Guard(a, "leaving") /\ Goto(a, "wait")
  /\ observed' = [observed EXCEPT ![a] = NoFile]
  /\ UNCHANGED <<lock, alive, calls, lease, abandoned, num, dataVars, marks,
                 faults>>

(* A written lock is renamed over the stale one: a holds it.               *)
Replace(a) ==
  /\ At(a, "reap") /\ guard[a] = "checked"
  /\ \E g \in FreshGen(a) :
       /\ lock' = File(g, Token(a))
       /\ lease' = [lease EXCEPT ![a] = File(g, Token(a))]
  /\ abandoned' = [abandoned EXCEPT ![a] = NoFile]
  /\ Guard(a, "leaving") /\ Goto(a, "work")
  /\ observed' = [observed EXCEPT ![a] = NoFile]
  /\ UNCHANGED <<alive, calls, num, dataVars, marks, faults>>

(* The rename fails: the stale lock is removed; that may fail as well, and *)
(* then an abandoned generation is still remembered as abandoned.          *)
ReplaceFails(a) ==
  /\ At(a, "reap") /\ guard[a] = "checked" /\ Fault("io")
  /\ lock' \in {lock, NoFile}
  /\ abandoned' = IF lock' # NoFile /\ Same(abandoned[a], lock) THEN abandoned
                  ELSE [abandoned EXCEPT ![a] = NoFile]
  /\ Guard(a, "leaving") /\ Goto(a, "wait")
  /\ observed' = [observed EXCEPT ![a] = NoFile]
  /\ UNCHANGED <<alive, calls, lease, num, dataVars, marks>>

-----------------------------------------------------------------------------
(* The critical section: read, mutate, write.                              *)

Read(a) ==
  /\ At(a, "work") /\ guard[a] = "no"
  /\ seen' = [seen EXCEPT ![a] = file]
  /\ Goto(a, "mutate")
  /\ UNCHANGED <<lock, alive, calls, lease, observed, abandoned, guardVars, file, commits,
                 marks, faults>>

(* The mutated value is renamed into place, or the mutator declines.       *)
Write(a) ==
  /\ At(a, "mutate")
  /\ \/ file' = seen[a] + 1 /\ commits' = commits + 1
     \/ UNCHANGED <<file, commits>>
  /\ seen' = [seen EXCEPT ![a] = 0]
  /\ Goto(a, "done")
  /\ UNCHANGED <<lock, alive, calls, lease, observed, abandoned, guardVars, marks,
                 faults>>

-----------------------------------------------------------------------------
(* Release.                                                                *)

Released(a) == ~Same(lease[a], lock)

(* There is nothing of a's on the path: the call is over.                  *)
Return(a) ==
  /\ At(a, "done") /\ guard[a] = "no" /\ Released(a)
  /\ lease' = [lease EXCEPT ![a] = NoFile]
  /\ Goto(a, "idle")
  /\ UNCHANGED <<lock, alive, calls, observed, abandoned, guardVars, dataVars, marks,
                 faults>>

Release(a) ==
  /\ At(a, "done") /\ guard[a] = "no" /\ ~Released(a)
  /\ Goto(a, "release")
  /\ UNCHANGED <<lock, alive, calls, lease, observed, abandoned, guardVars, dataVars,
                 marks, faults>>

(* Blocked past the deadline: the lease stays and is remembered.           *)
ReleaseGivenUp(a) ==
  /\ At(a, "release") /\ guard[a] = "numbered" /\ Blocked(a) /\ Fault("timeout")
  /\ abandoned' = [abandoned EXCEPT ![a] = lease[a]]
  /\ lease' = [lease EXCEPT ![a] = NoFile]
  /\ Guard(a, "leaving") /\ Goto(a, "idle")
  /\ UNCHANGED <<lock, alive, calls, observed, num, dataVars, marks>>

CheckOwn(a) ==
  /\ At(a, "release") /\ guard[a] = "held"
  /\ IF Released(a) THEN Guard(a, "leaving") /\ Goto(a, "done")
     ELSE Guard(a, "checked") /\ UNCHANGED pc
  /\ UNCHANGED <<lock, alive, calls, lease, observed, abandoned, num, dataVars, marks,
                 faults>>

Unlink(a) ==
  /\ At(a, "release") /\ guard[a] = "checked"
  /\ lock' = NoFile
  /\ lease' = [lease EXCEPT ![a] = NoFile]
  /\ Guard(a, "leaving") /\ Goto(a, "idle")
  /\ UNCHANGED <<alive, calls, observed, abandoned, num, dataVars, marks, faults>>

UnlinkFails(a) ==
  /\ At(a, "release") /\ guard[a] = "checked" /\ Fault("io")
  /\ abandoned' = [abandoned EXCEPT ![a] = lease[a]]
  /\ lease' = [lease EXCEPT ![a] = NoFile]
  /\ Guard(a, "leaving") /\ Goto(a, "idle")
  /\ UNCHANGED <<lock, alive, calls, observed, num, dataVars, marks>>

-----------------------------------------------------------------------------
(* The environment.                                                        *)

Crash(a) ==
  /\ a \in alive /\ Fault("crash")
  /\ alive' = alive \ {a}
  /\ Goto(a, "idle") /\ Guard(a, "no")
  /\ num' = [num EXCEPT ![a] = 0]
  /\ lease' = [lease EXCEPT ![a] = NoFile]
  /\ observed' = [observed EXCEPT ![a] = NoFile]
  /\ abandoned' = [abandoned EXCEPT ![a] = NoFile]
  /\ seen' = [seen EXCEPT ![a] = 0]
  /\ UNCHANGED <<lock, calls, file, commits, marks>>

(* An empty lock file outlives STALE_LOCK_MS.                              *)
Age ==
  /\ lock # NoFile /\ lock.tok = None /\ ~lock.old
  /\ PromptCreate => \A a \in alive : pc[a] = "create" => lease[a].gen # lock.gen
  /\ lock' = [lock EXCEPT !.old = TRUE]
  /\ UNCHANGED <<alive, calls, pc, lease, observed, abandoned, guardVars, dataVars,
                 marks, faults>>

Run(a) ==
  \/ Open(a) \/ WriteToken(a) \/ Observe(a)
  \/ Choose(a) \/ Pick(a) \/ TakeTicket(a) \/ Unchoose(a) \/ Enter(a) \/ Yield(a) \/ Leave(a)
  \/ Revalidate(a) \/ RevalidateFails(a) \/ Replace(a)
  \/ Read(a) \/ Write(a)
  \/ Return(a) \/ Release(a) \/ CheckOwn(a) \/ Unlink(a)

Trouble(a) ==
  \/ WriteTokenFails(a) \/ GiveUp(a) \/ MarkerFails(a) \/ ReplaceFails(a)
  \/ ReleaseGivenUp(a) \/ UnlinkFails(a) \/ Crash(a)

Next == (\E a \in Agent : Call(a) \/ Run(a) \/ Trouble(a)) \/ Age

Spec == Init /\ [][Next]_vars

(* A live thread goes on with its call, and time passes.                   *)
FairSpec == Spec /\ (\A a \in Agent : WF_vars(Run(a))) /\ WF_vars(Age)

-----------------------------------------------------------------------------
(* Properties.                                                             *)

LeaseFile == [gen : Nat \X Nat, tok : Nat \X Nat, old : BOOLEAN]

(* The variables keep their types, and what an agent holds or has          *)
(* abandoned carries its own token.                                        *)
TypeOK ==
  /\ lock \in LeaseFile /\ alive \subseteq Agent
  /\ calls \in [Agent -> Nat]
  /\ pc \in [Agent -> {"idle", "wait", "create", "reap"} \cup Holding]
  /\ lease \in [Agent -> LeaseFile] /\ observed \in [Agent -> LeaseFile]
  /\ abandoned \in [Agent -> LeaseFile]
  /\ guard \in [Agent -> {"no"} \cup Choosing \cup Ticketed]
  /\ num \in [Agent -> Nat]
  /\ file \in Nat /\ seen \in [Agent -> Nat] /\ commits \in Nat
  /\ unlocked \in BOOLEAN /\ torn \subseteq Nat \X Nat /\ faults \in Nat
  /\ \A a \in Agent : /\ lease[a] # NoFile => lease[a].tok[1] = a
                      /\ abandoned[a] # NoFile => abandoned[a].tok[1] = a

(* The lock excludes: two live agents are never both inside a critical     *)
(* section they entered with it, whatever crashed, was reaped, abandoned   *)
(* or timed out before (withFileLock and withFileLockSyncStrict).          *)
MutualExclusion == \A a, b \in Holders : a = b

(* The bakery excludes: between its last check of the lock file and the    *)
(* rename or unlink that follows it, an agent is alone in the deletion     *)
(* guard (tryAcquireDeletionGuard).                                        *)
OneDeleter == \A a, b \in alive : guard[a] \in InGuard /\ guard[b] \in InGuard => a = b

(* No mutation is lost unless a best-effort call went ahead without the    *)
(* lock: the store counts every write (atomicJsonMutate).                  *)
NoUpdateIsLost == ~unlocked => file = commits

(* A lock that carries the token of a live process, held or abandoned,     *)
(* leaves its path only by a step of that process under the guard          *)
(* (lockSnapshotIsStale, tryReapStaleFileLock, releaseFileLockOwned).      *)
LiveLockStays ==
  [][\A a \in alive : lock.tok # None /\ lock.tok[1] = a /\ ~Same(lock, lock')
                        => guard[a] = "checked"]_vars

(* No other live process is in a call, will make one, or has left a lease. *)
Alone(a) ==
  \A b \in alive \ {a} : /\ pc[b] = "idle" /\ guard[b] = "no"
                         /\ calls[b] = MaxCalls[b] /\ abandoned[b] = NoFile

(* The lock of a live process that failed between writing its token and    *)
(* returning the lease: nobody holds it, and nobody may take it down.      *)
Forgotten == lock.tok \in torn /\ lock.tok[1] \in alive

(* A caller that is left alone gets the lock: no lock, token or marker a   *)
(* dead process left, and no lease of its own it could not take down,      *)
(* stands in its way for ever (abandonedLeases, lockSnapshotIsStale); only *)
(* a forgotten lock does, until its process ends.                          *)
LoneCallerEnters ==
  \A a \in Agent :
    (Alone(a) /\ pc[a] = "wait" /\ faults = MaxFaults /\ ~Forgotten) ~> pc[a] = "work"

=============================================================================
