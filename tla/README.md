# Clementine, verified

TLA+ modules, TLC runs and TLAPS proofs about Clementine, the local operator
daemon under `src/`. The modules live beside the code they describe; a path such
as `graph-executor.ts` is short for `src/src/runtime/graph/graph-executor.ts`.

## The system

Clementine takes a request over a channel, compiles it into an executable graph,
admits the graph (identity and budget become fixed), and drives it to an end with
a durable journal, so that a daemon that is killed goes on where it stopped.
Around this core stand stores of work (run queue, background tasks, schedules,
triggers), stores of decisions (approvals, pending actions), and stores of
answers (notifications, delivery), each a set of rows under SQLite or a locked
JSON file, each written by several processes or callbacks.

| Component | State it keeps | Operations | Interacts with |
| --- | --- | --- | --- |
| node leases (`graph-lease.ts`, `admitted-construct-run.ts`, `activation-liveness.ts`) | one row per node: owner, fence, expiry, revision, released | acquire, renew, release, holds, commit, transact, sweep of dead owners | the executor's journal adapter takes and checks a lease around every claim and settlement |
| graph topology (`graph-executor.ts`, `graph-activation.ts`, `graph-admission.ts`) | none (pure) | readiness, edge verdicts, patch validation | executor and replay both use it |
| journal and replay (`graph-journal.ts`, `graph-resume.ts`) | an append-only list of headers, claims, patches, settlements | append, replay, trust a settlement | written by the executor, read by the next activation |
| graph executor (`graph-executor.ts`, `graph-artifacts.ts`, `graph-node-identity.ts`) | the activation's memory: topology, fired edges, settled nodes, wave | activate, plan a wave, reuse, claim, dispatch, admit a patch, settle, stop | runners (effects), journal, artifact store, abort signal, clock |
| publication (`admitted-construct-run.ts`) | terminal record of a run | commit a terminal, or hold it for a peer | executor result, leases |
| write admission and dispatch (`brackets.ts`, `external-write-admission.ts`, `dispatch-lease.ts`, `grounding-gate.ts`, `execution-tools.ts`) | the row of the admission lock, leases of attempts, the ledger of write events, consents | admit, refuse, reserve, dispatch, settle, read back, reconcile, authorize a retry | tool servers, approvals, the run's loop |
| effect lifecycle | one record per effect | plan, attempt, observe | runners |
| run record, cancellation, report (`workflow-run-record.ts`, `workflow-runner.ts`, `workflow-report.ts`) | one JSON file per run under a lock directory, a cancellation receipt, what conversations were told | start, park, ask, hold, answer, end, cancel, report, acknowledge | runner, dashboard, boot, conversations |
| call receipts, run queue | rows per workflow call and queued run | claim, settle, admit | workflow runner |
| triggers, schedulers, timers | next occurrence, last firing | fire, catch up, disable | run queue |
| background tasks, durable fan-out | task rows, item rows | claim, heartbeat, retry, reduce | run queue |
| approvals and pending actions (`approval-registry.ts`, `pending-actions.ts`, `pending-action-executor.ts`) | approval cards in SQLite, a JSON file per prepared action with two locks | link, edit, decide, retire, reconcile, claim, dispatch, record the result | channels, console, executor |
| notifications and delivery | outbox rows | enqueue, claim, deliver, acknowledge | channels |
| restart recovery, daemon process | pid file, recovery marks | start, recover, shut down | every store above |
| JSON store locks (`atomic-json.ts`) | lock files | lock, steal a stale lock, rename | every JSON store |

`PROJECT.json` lists all of them, with the ones left out and the reason.

### What is hard here

* **Crashes at every await.** A claim, a patch, a settlement are separate
  appends; replay has to accept every prefix the executor can leave, and nothing
  else.
* **Two views of one history.** The executor schedules from memory that lags
  behind the journal until the wave ends; replay judges the journal entry by
  entry. Wherever the two disagree a run can never be resumed.
* **Evidence that changes.** Work is reused when its inputs are unchanged;
  artifacts get lost and are produced anew, and what rested on them has to run
  again, topology it emitted included.
* **Owners that are replaced.** A lease expires under a slow owner, which then
  tries to write.
* **Cancellation racing results.** A runner finishes after the abort.
* **An effect that cannot be taken back.** A mail is sent by a process that may
  die before it says so; what the ledger does not show may have happened.
* **Two stores, one decision.** A verdict is committed in SQLite and carried over
  to a file afterwards; a cancellation's receipt is a file written before the
  record. A crash in between leaves the one without the other.
* **Files as locks.** A lock file outlives its process, its deletion is a check
  followed by an unlink, and whoever observed it stale acts on it later.

## Modules

| Module | Models | Role |
| --- | --- | --- |
| `LeaseRecord` | the lease row and the changes made to it | operators shared by the model and its abstract specification |
| `FencedLog` | what a lease promises: a log in fence order | abstract specification |
| `GraphLease` | the lease manager and the journal adapter over it, on three kinds of store port (`sync`, `cas`, `transact`) | detailed specification; refines `FencedLog` on the synchronous path |
| `GraphLeaseProofs` | | theorems about `GraphLease` |
| `GraphTopology` | readiness, edge verdicts, patch validation | pure operators |
| `GraphHistory` | the journal, replay's judgement of it, what a resume trusts | abstract specification: a journal that grows by admissible entries |
| `GraphRun` | the executor from activation to ending, with crashes, aborts, late clocks, rejected appends, lost artifacts | detailed specification; refines `GraphHistory` |
| `GraphRunProofs` | | theorems about `GraphRun` |
| `GraphReplayProofs` | | theorems about what `GraphRun` leaves to replay; uses `GraphRunProofs` |
| `FileLock` | the lock file of a JSON store, stale takeover, deletion guard, read-mutate-write | component |
| `FileLockProofs` | | theorems about `FileLock` |
| `WriteAdmission` | one session's external writes, from the request through admission, dispatch, terminals and read-back to the retry, against stalls, replays and crashes | component |
| `WriteAdmissionProofs` | | theorems about `WriteAdmission` |
| `PendingAction` | one prepared action: its file with two locks, its approval cards, the reconciliation between them, the executor | component |
| `PendingActionProofs` | | theorems about `PendingAction` |
| `RecordLock` | the lock directory of a run record, call by call | component |
| `RunRecord` | what is done under that lock: the runner's writes, answers, cancellation and its receipt, the report | composes with `RecordLock`, which it extends |
| `RecordLockProofs`, `RunRecordProofs` | | theorems about both; the second uses the first through a refinement |
| `MCGraphLease`, `MCGraphRun`, `MCFileLock`, `MCWriteAdmission`, `MCPendingAction`, `MCRunRecord` | owners, graphs, calls and cards for TLC | model-checking modules |

### GraphLease

One node's row; rows are independent. `lease` is the SQLite row, `held[o]` what
activation `o` remembers of it (the manager's `held` map), `snap[o]` the record it
read last and `beat[o]` the one its renewal read, `pc[o]` the await it stands at,
`journal` the journal as far as ownership goes, `grants` the fences handed out. A
step is what happens between two awaits: the asynchronous manager reads and swaps
in separate steps (`AcquireRead`, `AcquireWrite`), the SQLite path does both, and
the journal append, in one (`SyncAcquire`, `SyncSettle`). `Tick` moves the clock;
`Crash` kills an owner, which `Gone` lets others see as `activationOwnerIsGone`
does.

### GraphTopology, GraphHistory, GraphRun

An entry of `journal` is a record as in `graph-journal.ts`. Digests are replaced
by what they digest: the input digest of a node is the set of (predecessor,
artifact) pairs, a patch digest is the patch's name, an artifact reference is a
number. The admission is fixed, so its digest, node digests, schema version and
the shape of ids are left out.

`Replayable` is `reconstructAdmittedResume`: every entry admissible after its
prefix (`HeaderOK`, `StartOK`, `SettlementOK`, `PatchOK`), orphan patches not
relied upon (`OrphansOK`), trusted settlements causally closed (`ClosureOK`).

A topology is a set of nodes and edges. Where the code's order shows, in the list
of applied patches and in the reuse loop, the order is that of `Listings` by
`AdmittedBefore`, `AppliedBefore` or `DeclaredBefore`.

`GraphRun` follows `runGraph`. `phase` says where the activation waits:

    down/ended -> open -> plan -> reuse -> slice -> claim -> run -> settle -> verdict -> ...

`Activate` replays; `OpenHeader` writes the header; `PlanWave` computes the ready
nodes; `RunFresh`, `RefuseReuse`, `Reuse`, `ArtifactMissing` and
`ArtifactForeign` decide the ready nodes one by one; `ReuseDecided` closes the
loop (restart after a retirement, node budget); `TakeSlice`, `Claim` and
`RunnerReturns` dispatch; `PatchRefused`, `AdmitPatch` and `Settle` make results
durable; `EndWave` lets dependents observe them; `Stop` ends the activation.
The environment crashes (`Crash`), aborts (`Abort`), passes the elapsed ceiling
(`Elapse`), and rejects an append (`AppendFails`); `Faults` chooses which.

### FileLock

`lock` is the file at `<path>.lock`: its generation (dev and ino), the token in
it, and whether its ctime is more than `STALE_LOCK_MS` ago. An agent is a thread
of a process of its own; a step is one file-system call others can see, so a
crash may fall between any two.

    idle -> wait -> create -> work -> mutate -> done -> release -> idle
               \-> reap -> (guard) -> work or wait

`Open` and `WriteToken` are the two halves of `tryAcquireFileLock`; `Observe`
sets out to reap. `pc` says where the call is and `guard` where it is in the
deletion guard, which both `reap` and `release` go through: `Choose` (the
choosing marker), `Pick` (the first listing), `TakeTicket`, `Unchoose`, then
`Enter` or `Yield` (the second listing). `Revalidate` and `Replace` are
`tryReapStaleFileLock`; `CheckOwn` and `Unlink` are `releaseFileLockOwned`, and
what a release could not take down becomes `abandoned[a]`. `Read` and `Write`
are `atomicJsonMutate` over a store that is a counter, so that a lost update
shows. A best-effort agent (`withFileLockSync`) may go on without the lock after
its wait; then `unlocked` is set. Any file-system call that creates or removes
something under the lock's name, and any wait, may fail (`Faults`).

Two constants are assumptions rather than bounds. `PromptCreate`: a live process
does not take 60 s between creating the lock file and writing its token. Without
it TLC finds two holders: the empty file is reaped from under its creator, which
then writes its token to an unlinked inode and goes on. `InodeReuse`: a new lock
may get the inode of one that was unlinked. With it TLC finds two holders as
well: an observer of an old empty lock pauses, the lock is replaced, and a new
one is being created in the recycled inode; the re-validation under the guard
compares the token (both empty), the inode (the same) and, at
`atomic-json.ts:506`, the age of what was observed rather than of what is there.
Reading the current ctime would close this one. It needs an old empty lock file,
which only a crash or a failed write between two adjacent calls leaves.

A creation that fails leaves the file as it is (`WriteTokenFails`): empty, which
grows stale, or, when `fsync` or `fstat` fails after the token was written
(`atomic-json.ts:575-577`), with the token of a live process. Nobody remembers the
second one: `abandonedLeases` is set where a release fails (line 647), and the
comment at lines 248-257 promises to take up again only what a release gave up.
So it blocks every caller, those of its own process too, until that process ends.
`Forgotten` names it and `LoneCallerEnters` is claimed without it; with it TLC
finds a lone caller that waits for ever. Exclusion is not touched.

A process's own guard marker is taken to be removable. One that is not would stand
as a live ticket, so no stale lock is cleared and none released until the process
ends, and a reaper that fails there after `Replace` loses the lease it took.

### WriteAdmission

A session's calls share everything through SQLite: `lock` is the row of the
admission lock, `lease` the newest physical attempt's generation, `writes` and
`outcome` the ledger's `external_write` events and, per call, their terminals in
the order of the log. A call goes

    idle -> asked -> locked -> admitted -> reserved -> sent -> unclear -> over

and may be `refused` before its dispatch, or `dead` with its process. `Acquire`
takes the lock's row when it is free or its owner is dead; `Admit` is what happens
under it: the lease is checked, the duplicate wall compares the call's keys with
the ledger and looks for a consent, and the reservation, with the retry authority
it names, follows in `Reserve`. `Dispatch` hands the call to the provider, `Land`
is its effect and `Settle` a clean answer. The effect is a step of its own: it may
come after a timeout, a crash, or a verdict that it never happened.

A terminal has one of two keys in the event log, one for success and failure and
one for an orphan (`external-write-event-projection.ts:431-436`). `Record` is the
first: it adds nothing to a call that is decided. An answer that proves nothing is
two steps, since the ledger is listed before the orphan is appended (lines 485-508):
`Unclear` looks for a verdict, `Orphan` logs, and another process may have decided
in between. The Claude SDK's own lane (`Native`) uses neither key
(`claude-agent-sdk.ts:1187-1240`).

`Rule` and `Reconcile` are the reconciliation tool: the first holds the admission
lock over an undecided call, the second logs its verdict. The read it rests on has
only to be younger than the reservation (`execution-tools.ts:528`), not than the
answer, so a call in flight can be recorded absent at any time, and present only
once it has landed. `Authorize` permits a retry. `RevokeForRecovery` and `Replay`
are the stalled loop and its restart in place; `Crash`, `NextAttempt` and
`BootFence` the process that dies and what the next one does at boot. A tool server
(`Child`) may outlive the daemon.

What such a premature verdict costs is in the properties. `Misjudged(c)` says that
`c` was recorded absent and took effect; `NoUnconsentedResend` and
`NoReplayAfterWrite` hold but for the effect of that very call, and TLC finds both
violated without the exception.

### PendingAction

`rec` is the action's file, `card` the registry's rows, `closed` the published
outcome of a card retired without a decision, `tx` and `ex` the owners of the
transition lock and the execution lock, `sent` what was handed to the provider.
`me[p]` is where process `p` is and the record it read, which may be stale.
Changes of the file take the transition lock (`Acquire`, then `Proceed` decides
again on what is there, then `Update`); `AcquireBoth` and `Claim` take both locks;
`Dispatch` sends the payload of the claimed record; `RecordResult` takes the
execution lock alone. `Decide`, `Edit` and `Retire` commit in the registry and
leave the file to a reconciliation (`Reconcile`) of their own process; `Resume`
is what takes such work up at boot, and takes up retirements only. `GiveUp` is
the end of the 250 ms a writer waits. `Crash` ends a process at any step; what it
owned is then owned by `Dead`, which a later caller may take over for the
transition lock and nobody for the execution lock.

### RecordLock and RunRecord

`dir` is the lock directory: its inode, the owner files in it, and whether its
mtime is older than `EMPTY_LOCK_RECLAIM_MS`. A step is one file-system call:

    out -> try -> made -> stage -> shown -> work -> unlink -> close -> out
             \-> stat -> list -> judge -> (reap, rmdir or wait) -> try

`MakeDirectory`, `Identify`, `ShowOwner` and `List` are the creation; a creator
that does not see itself alone in the same directory backs off. `Stat`, `Observe`
and `Judge` look at a directory that was there; `ReapOwner` unlinks the file of a
dead process, `RemoveDirectory` removes what is empty (rmdir refuses anything
else). An inode may return in a new directory.

`RunRecord` puts the writers of one record to `work`. `rec` is the record,
`receipt` the cancellation's file, `told` what each conversation was told,
`task[p]` what a process read and how far it is. `Read` begins a job, `Decline`
finds that it no longer applies, `Write` replaces the record in one rename.
`Install` and `Cancel` are the two files of a cancellation, `Deliver` and
`Acknowledge` a report and its acknowledgement; the lock's `Crash` and a timeout
may fall between them. `Applies` and `Written` name one predicate and one result
per kind of writer (`Finalizable`, `Capped`, `Answered`, ...); the runner's own
writes adopt a receipt they find (`RunnerWrites`). `completed` stands for every
end that did the work and `error` for every end that did not.

The model and the proof show what the code leans on. Exclusion rests on the
listing after the owner file is shown, not on comparing inodes: two owners that
both showed their file see each other. A report may be told twice after a crash,
and is then the same report. A directory with the files of two dead owners is
never cleared, since each judge reaps only a sole owner
(`workflow-run-record.ts:244`): the record is then blocked for good. A parked run
with a receipt stays parked until its runner writes or somebody presses cancel
again. So no liveness is claimed of a record.

## Runs

| Run | Instance | Shows |
| --- | --- | --- |
| `LeaseSync` | 2 owners on the daemon's path | the journal is in fence order, every step is one of `FencedLog`, a dead holder is replaced before its lease expires |
| `LeaseAsync` | one owner on read and cas, one on the asynchronous `transact`, renewals | one owner per fence, no steal of a live lease, release is final, under every interleaving of reads and swaps |
| `RunDiamond` | fork, join, an any-join with a recovery edge; ids as the daemon mints them, no expansion, 3 activations, concurrency 2, 4 dispatches, two artifact versions (290 thousand states) | replay refuses only the two known shapes, both of which occur, nothing is observed before it is durable, settled work is kept |
| `RunRetire` | the emitter's input is replaced; 3 activations | nothing stale survives a retirement, and every activation ends |
| `RunFaults` | a branch merge (any-join, label and disabled edge) that a worker may join, two possible patches, every outcome and every fault; 2 activations | the executor implements `GraphHistory`, claims precede dispatches, budgets hold |
| `FileLock` | 3 processes, one best-effort, one of them calling twice; 2 faults of any kind | exclusion of holders and of deleters, no lost update, no live lock evicted, a lone caller gets in unless a live process forgot its lock |
| `Admission` | 3 irreversible calls to one target, one in the SDK's lane; 1 approval, 1 attempt, no crash (3.8 million states up to symmetry) | no resend without a consent of its own, one retry per authorization, one verdict that stands |
| `AdmissionReplay` | 2 calls, one in the SDK's lane, one in a tool server, under 2 physical attempts; 1 approval, 1 crash (1.1 million states) | no resend without consent, work whose write took effect is not started over; a waiter outlives the lock's owner |
| `Pending` | 2 processes, 2 cards, 2 payloads, 1 crash, actions with and without mandatory human consent (1.5 million states) | sent once, and only what was approved; denied and retired actions never run; no final status is overwritten between the two locks |
| `RunRecord` | 3 processes of which any may die anywhere, 2 inodes, 2 conversations, 1 reason (1.4 million states up to symmetry) | one worker at a time; no ended run is cancelled; one outcome is told; the first end stands |

Three activations are the least in which a crash can hit work that was itself a
resume; two suffice for an orphan to be reproduced. Five nodes hold a fork, a
join and a recovery branch. Two owners are enough for a lease because a third
sees only the row the second left. Bounds: `MaxActivations`, `MaxNodes`,
`MaxWaves`, `MaxConcurrency`, `MaxExpansions` in `GraphRun` (all but the first
are the admitted budget); `MaxClock`, `MaxFence`, `MaxRevision` in `GraphLease`;
`MaxCalls`, `MaxFaults`, `MaxTicket` in `FileLock`; `MaxAttempt`, `MaxCrash` in
`WriteAdmission`; `MaxCrash` in `PendingAction`; `MaxFails` in `RunRecord` (the
deliveries after which a report is quarantined). Three processes are a stale
lock's reaper, a rival and a late observer; two faults are a crash that leaves
something and a failure while it is being cleaned up; the second call of one
process meets what its first abandoned.

Three writes are one to collide with, one that is refused or consented, and one
that spends a retry. Two attempts are a first and its replay, the crash may come
before or after either, and two writes are the one that was done and the one that
would repeat it. The two runs divide these because three calls with a crash are
beyond TLC; the theorems have neither bound. The two calls outside the SDK's lane
are interchangeable in `Admission` (symmetry): which process a call runs in shows
only in a crash. Two cards are a card and the one an edit or a retirement puts in
its place; two processes are an executor and whoever changes the action under it,
and either may be the one that crashes. In `RunRecord` the third process is the
one that meets what two others left, and two inodes let a directory come back
under the identity of an earlier one.

`CHECK_DEADLOCK FALSE` everywhere but for `PendingAction`: an activation ends, an owner parks, a
process has made its calls or all have died, and nothing has to follow.

Every passing property has a mutant: the definition named in `PROJECT.json` is
replaced by the operator whose comment begins with *Mutant*, and TLC then finds
the property violated.

### Disagreements the runs show

Each is a run expected to fail, with one property, and an entry of
`PROJECT.json`'s findings with the line it contradicts.

| Run | What TLC finds |
| --- | --- |
| `HistoryMintedHeader` | activation ids repeat when an activation claims nothing; replay then refuses the run for good |
| `PendingDecision` | a decision on a formal card that did not reach the action's file, because of a crash or of 250 ms of contention, is not taken up again, where `approval-registry.ts:1621` says "boot/ingress retries" |

`PendingDecision` is the temporal one: it assumes `FairSpec`, so every live
process goes on with what it began, and the counterexample ends with all of them
idle, a decided card and an action that still waits.

Others were met while modelling and have no run of their own.

* Leases are granted for 30 s whatever TTL the manager was given
  (`admitted-construct-run.ts:299`, against the comment at line 2944).
* Work completed after a cancel is dispatched again by a resume
  (`graph-resume.ts:331`, against `graph-journal.ts:44-48`); settled work with
  unchanged inputs runs again behind an any-join, by the order of the reuse loop.
* Replay refuses journals the executor writes: with an any-join that starts in a
  later slice of the wave its other source settles in; with an orphaned patch whose
  join edges replay counts and the executor does not; with a root that waits for a
  later slice while a patch adds an edge into it. The root is in nobody's slice
  and has no incoming edge that could have fired, so the join rule at
  `graph-executor.ts:371-386` lets the edge in, and the root then starts without
  waiting for it, against the comment at line 367.
* A branch cut off two steps below a failure is reported as a stall, since the
  node between never settles (`Stop`), where the comment at
  `graph-executor.ts:759` calls it unreached by design. A patch is admitted
  against `fired`, which lags behind a sibling's durable settlement, and replay
  refuses the journal. Retirement leaves nothing durable, so a journal that goes
  on after one may be refused (`ActivateRefused` fires in `RunRetire`). The branch
  of `applyPatch` for a repeated emission is unreachable, since
  `validateGraphPatch` refuses first (`graph-executor.ts:390`).
* The asynchronous `transact` of the SQLite store awaits its work after its
  transaction, so a competing owner can take the lease inside the window
  (`TransactOpen`); the daemon's own adapter is synchronous.
* The duplicate wall passes a call to two targets with a consent that names one of
  them (`grounding-gate.ts:866`, `brackets.ts:2545-2558`), and passes everything
  when the ledger cannot be read (`brackets.ts:2544`). `NoUnconsentedResend`
  therefore asks, of a call to several targets, for a consent to one.
* A read-back settles calls that are in flight. `execution_reconcile_write`
  records the verdict "absent", which "proves the write never landed"
  (`execution-tools.ts:302-303`, and line 791 to the model: "the write provably
  never landed"), from any read younger than the reservation; the write may be with
  the provider and land afterwards. Refusing a call whose dispatch is still
  pending in this or another process would leave only jobs that the provider
  queued.
* In the SDK's lane terminals are appended without either key
  (`claude-agent-sdk.ts:1187-1240`), so a call that was reconciled while in flight
  may carry a failure and a success, against the comment at
  `external-write-event-projection.ts:431-436`; `VerdictStands` is false there and
  claimed of the other calls.
* An orphan logged after a verdict of failure wedges the call: a retry asks that
  the newest outcome be the failure (`execution-tools.ts:293-298`), and a
  reconciliation refuses what is settled (line 440). The refusals point at each
  other.
* An approval given in the console of an edit that has not reached the file ends
  the action as failed, and nobody's edit is sent (`console-routes.ts:14364`).
* A result that meets the execution lock in another's hands is not written: the
  action stays `executing` for good while the caller is told its outcome is
  already recorded (`pending-action-executor.ts:498`).

The daemon admits graphs with `maxExpansions` 0, `maxNodes` 64 and
`maxConcurrency` 8 (`admitted-construct-run.ts:2868`), so patches do not concern
it yet; the id source, any-joins in wide waves and cancellation do.
`RefusalsExplained` says, and `GraphReplayProofs` proves, that without patches
the id source and the late any-join are all: `RunDiamond` runs with the daemon's
ids and on a graph in which both happen. `ImplementsHistory` is the stronger
claim and needs them away: `RunFaults` has fresh ids (`FreshIds`) and an any-join
that never shares a wave with its sources. With patches, no sibling of an emitter
may route into its patch's join target, and no replay follow a retirement.

## Fairness

`GraphRun` liveness assumes weak fairness of `Step`, the event loop running the
live activation, runners answering included: a runner that hangs for ever hangs
its activation, in the code as in the model (there is no timeout around
`runner.run`). Nothing is assumed of crashes or faults.
`GraphLease` liveness assumes weak fairness of the steps of a live owner only;
the clock need not advance for a dead holder to be replaced.

`WriteAdmission` liveness (`WaitEnds`) assumes that a live process goes on with
its calls: strong fairness of `Acquire`, because a competitor may take the row
between two polls, and weak fairness of the steps under the lock, the
reconciliation's included. Nothing makes the model ask, the user approve, a call
be dispatched or answered, a wait run out or a process crash.
`PendingAction`'s `FairSpec` is weak fairness of the next step of each process;
users, decisions and crashes are free. `RunRecord` has none: its properties are
safety.

`FileLock` liveness assumes weak fairness of each live thread's next step and of
the clock (`Age`: an empty lock nobody writes to grows old). Faults happen or
not. `LoneCallerEnters` speaks of a caller left alone after the last fault, with no
forgotten lock on the path: competing callers poll, and two reapers may give way
to each other any number of times. A lease that a live process could not take
down and does not come back for blocks the others until that process ends, as the
comment at `atomic-json.ts:643` says.

## Proofs

`GraphLeaseProofs` holds for every set of owners, every TTL and every bound.

* `TypeCorrect`: types, from which everything else starts.
* `InvariantHolds`: the inductive invariant. Exclusive fences are not inductive by
  themselves: a stale owner may still write, by swapping a row it read earlier.
  The strengthening says that a revision identifies the row it was read from (so
  a swap that succeeds saw the current row) and that a fence identifies its
  owner, in the row, in memories and in the log.
* `FencesAreExclusive`, `LiveLeaseNeverTransfers`, `ReleaseIsFinal`: the
  properties the runs check, on every store.
* `SupersededOwnersNeverWrite`, `SyncPathImplementsFencedLog`: for the
  synchronous path, the journal is in fence order and every step is a step of
  `FencedLog` or a stutter. They assume `AllSync`: on the other paths the
  property is false.

`GraphRunProofs` holds for every finite set of nodes and of patches, every graph,
budget, set of faults and of runner outcomes, and any number of activations.

* `TypeCorrect`. Types are not inductive alone: what a resume trusts has to point
  at a settlement of that node (`TrustedShown`), and the newest id and the newest
  routing settlement of a node, which replay chooses, have to exist (`Newest`).
* `DurableBeforeObservedHolds`: a wave's settlements are in the journal before
  `EndWave`, and a reused one was in it at `Activate`.
* `ClaimBeforeDispatchHolds`, by what the ids say: the slice holds the newest
  ones in order, the journal none that the slice has yet to use (`Attempts`), and
  what has been claimed of the slice is claimed in the open segment (`Claimed`).
* `BudgetRespectedHolds`: `dispatched` lags behind the journal until the wave
  ends. The strengthening (`Counted`) adds what has settled in the wave and what
  the slice still holds; a settlement takes one unsettled claim away, because by
  `Claimed` and `Attempts` its attempt was one of them.

`GraphReplayProofs` is about runs that admit no patch (`MaxExpansions = 0`, the
daemon's setting), and otherwise as general as `GraphRunProofs`: memory and
journal then imply one topology, and what has to agree is readiness, fired edges
and evidence. Base nodes have distinct names, as the compiler checks
(`turn-graph-compiler.ts:401`).

* `NoStaleEvidenceHolds`. What a node ran on has to stay what its predecessors
  offer, while they settle, are reused and are observed in waves. The invariant
  (`Wave`) says of every node of the wave that it is at one place only, ready and
  not yet observed (`Scheduled`, `Apart`), that complete joins rest on observed
  nodes (`Sourced`, `Joins`), and that what it was given is the evidence there is
  now (`Evident`); `Rested` says the same of what completed.
* `RefusalsExplainedHolds`, for the ids as `nextAttemptIdFromHistory` mints them and
  every budget: what replay refuses is a header that repeats the id of an
  activation that claimed nothing, or an any-join that started late. `History`
  adds to `Wave` the ids (`Attempts`), the claims of the slice with their wave
  (`WaveClaimed`) and the waves of what settled (`Waves`); `Rooted` says that what
  ran was ready by the edges the journal has fired, `Numbered` how activation ids
  relate to the attempts around them, `Judged` that each entry was admissible
  after its prefix or is one of those two.
* `ImplementsHistoryHolds` and `ReplayAcceptsHolds`, for fresh activation ids and
  no any-join, or waves that fit in one slice (`MaxNodes <= MaxConcurrency`; the
  invariant is `OneSlice`): every step is an admissible append or a stutter of
  `GraphHistory`, and every journal left behind replays. The two hypotheses
  exclude the two shapes and nothing else; the daemon meets the second only for
  graphs without any-joins, and the first not at all, which is the finding
  `HistoryMintedHeader`.
* `SettledWorkIsKeptHolds`: a node that has settled is claimed again only if its
  evidence has changed, if it re-reads the world, or if it is an any-join. What an
  activation trusts is the newest settlement until the node settles anew
  (`Trust`), what it observes is the newest settlement (`Current`), and what
  waits to be dispatched was refused for a reason (`Refused`).

`FileLockProofs` holds for every number of agents, calls, tickets and faults.

* `TypeCorrect` and `OneDeleterHolds` need no assumption. The second rests on
  `BakeryOrder`: who is in the guard precedes every live ticket, and every ticket
  that was picked and is not shown yet.
* `LockInvariant`, under `PromptCreate` and without `InodeReuse`. Exclusion is not
  inductive: a reaper takes the lock by its observation, a creator finishes a file
  it no longer looks at. The strengthening says where every file in somebody's
  hands is (`HolderOnPath`, `CreatorOnPath`), that what is about to be replaced is
  stale and stays so (`ReapsStale`, by the bakery), that what was observed old is
  old (`ObservedOld`) because generations are counted (`GenerationsMinted`).
* `MutualExclusionHolds`, `NoUpdateIsLostHolds`, `LiveLockStaysHolds` follow.

`WriteAdmissionProofs` holds for every set of calls, targets and approvals and
every number of attempts and crashes.

* `TypeCorrect`, and `OneInAdmission`: at most one call is between the lock and its
  reservation.
* `AdmissionInvariant`. What the ledger says is not inductive: a
  call acts on what it read under the lock and reserves later, and its effect may
  come later still. The strengthening says that whoever is inside owns the lock's
  row (`LockHeld`), what a place in the program says about the log
  (`LoggedOnce`), that who is past the wall has its consent already (`WallHolds`),
  that a proven failure is of a call that was never dispatched
  (`EffectsRuledOut`), and that a call of a replayed attempt has no effect and
  will have none, or was recorded absent (`Superseded`).
* `NoUnconsentedResendHolds`, `NoReplayAfterWriteHolds`, `RetryOnceHolds` and
  `VerdictStandsHolds` follow. Of the provider nothing is assumed but that it does
  not act on what was never handed over.

`PendingActionProofs` holds for every set of processes, cards and payloads.

* `TypeCorrect`, `PendingInvariant`. The file alone does not say that an action ran
  once: the strengthening ties the claim in the file, the execution lock and the
  place of the process that claimed, and says what each process knows about the
  file it read while it holds a lock that keeps others out.
* `SentOnceHolds`, `ConsentedPayloadHolds`, `DeniedNotRunHolds`,
  `RetiredNotRunHolds`, `FinalStandsHolds` follow.

`RecordLockProofs` and `RunRecordProofs` hold for every set of processes, inodes,
conversations and reasons, with crashes without bound.

* `LockInvariant`: exclusion is strengthened by `ShownIsThere` (the file of who
  shows itself or works is in the directory) and `ReapersSawDead` (who reaps saw a
  dead owner's file). `LiveOwnerStaysHolds`: the file of a live owner is removed by
  nobody else; no run checks that one by itself.
* `UsesTheLock`: `RunRecord` implements `RecordLock`, so the lock's invariant holds
  of it (`MutualExclusionHolds`). `WritersSerialize`: because of it, every step of
  any process is one atomic operation on the files, computed from what is in them
  at that moment and not from what was read before.
* `RunInvariant`: what is told, the record's report and the receipt agree
  (`ReportsAgree`), and what a process in the lock read is still there
  (`TasksFresh`). `NoRetroactiveCancelHolds`, `OneOutcomeToldHolds` and
  `EndStandsHolds` follow.

Model-checked only: liveness (`DeadHolderReplaced`, `ActivationEnds`,
`LoneCallerEnters` and `WaitEnds`), and, of `GraphRun` with patches, what
concerns replay: `ImplementsHistory` and `NoStaleEvidence`, in `RunFaults` and
`RunRetire`. They relate the topology in memory, which grows with a patch and
shrinks with a retirement, to the one the journal implies.

## Not modelled

* Attempt-id collisions within one activation (`usedAttemptIds`): a single
  counter cannot produce one.
* Digests, schema versions and id syntax: constant within one build and one
  admission. Two admissions over one journal are refused at the first entry.
* The pure walker (no admission): it shares the wave loop and none of the
  durability.
* Of `atomic-json.ts`: the in-process mutex and the re-entrancy check (an agent is
  one thread of its own process), quarantine of corrupt JSON, appends, a directory
  listing that misses a marker created while it runs, a guard marker that cannot
  be removed (see `FileLock` above), and a process id that is given to a new process.
* Overlapping activations over one journal: planned, see below.
* Of write admission: the confirm-first flow beyond its refusal, the lineage of
  leases through delegated runs, event rows of older versions.
* Of approvals: conversational answers and their evidence chain, groups of cards,
  session checks, the queue of cards from one source, resumable claims, batches,
  a registry that cannot be read.
* Of run records: admission to the queue, exact origin observers and groups,
  capability, readiness and catch-up holds, dry runs, tests at creation,
  dashboard notifications, reaping of old records, re-entry into the lock. The
  exported `requestWorkflowRunCancellation` (`workflow-run-cancellation.ts:188-205`)
  writes a receipt that its caller does not carry into the record; only tests call
  it, and `cancelWorkflowRunAtBoundary` tolerates the split (lines 323-327).
* Memory, agents, the semantic boundary, channels, the dashboard and the apps are
  content, model calls and presentation: `PROJECT.json` gives the reason for each.

## Plan

1. Done: leases (model, refinement, proofs); topology, journal, executor (model,
   refinement); the JSON store lock (model, proofs); write admission (model,
   proofs); approvals and pending actions (model, proofs); the run record and its
   lock (model, composition, proofs).
2. `GraphOverlap`: two activations over one journal with per-node leases, the
   terminal each commits and the hold for a live peer
   (`admitted-construct-run.ts`). Composes `GraphRun`'s entries with
   `GraphLease`'s synchronous path.
3. `EffectLifecycle`: the states of one external effect, as the abstract
   specification of what `WriteAdmission` promises.
4. `CallReceipts` and `RunQueue`: admission of runs and their origins, in front of
   `RunRecord`.
5. `Triggers` (at most one firing per occurrence), `Delivery`, background tasks, on
   the lock of `FileLock` where they are JSON stores.
6. Proofs of `GraphRun`: done without patches. Next, `NoStaleEvidence` with
   patches and retirement, where the graph in memory is the base graph and the
   patches whose emitters were reused.
