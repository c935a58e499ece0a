--------------------------- MODULE WriteAdmission ---------------------------
(***************************************************************************)
(* The one-write-once rule of a session: how an external write (a mail, a  *)
(* publish, a record update) is admitted, reserved, sent, settled, read    *)
(* back and retried, against a run that stalls, is replayed or crashes     *)
(* (runtime/harness/brackets.ts, external-write-admission.ts,              *)
(* external-write-event-projection.ts, dispatch-lease.ts, the wall of      *)
(* grounding-gate.ts, tools/execution-tools.ts).                           *)
(*                                                                         *)
(* A call runs in the daemon or in a tool server of its own; everything    *)
(* they share is in SQLite.  All calls are of one session; irreversible    *)
(* ones share one action key and reversible ones another.                  *)
(***************************************************************************)
EXTENDS Naturals, Sequences, FiniteSets

CONSTANTS
  Call,          \* the write calls of the session, each with its call id
  Child,         \* calls that run in a tool server, not in the daemon
  Native,        \* calls of the Claude SDK's own lane
  Irreversible,  \* calls whose effect cannot be taken back
  Target,        \* duplicate identity keys
  TargetOf,      \* TargetOf[c]: the keys of call c
  Approval,      \* approvals the user may give
  Names,         \* Names[a]: the keys approval a's arguments name
  MaxAttempt,    \* bound on the physical attempts of the run
  MaxCrash,      \* bound on the crashes
  None

ASSUME AdmissionAssumption ==
  /\ Child \subseteq Call /\ Native \subseteq Call \ Child
  /\ Irreversible \subseteq Call
  /\ TargetOf \in [Call -> SUBSET Target] /\ Names \in [Approval -> SUBSET Target]
  /\ MaxAttempt \in Nat \ {0} /\ MaxCrash \in Nat
  /\ None \notin Call \cup Nat

VARIABLES
  pc,          \* pc[c]: how far call c is
  attempt,     \* attempt[c]: the attempt whose lease c carries
  lock,        \* the call that owns the row of the admission lock
  lease,       \* the newest attempt's lease: its generation, and not revoked
  loop,        \* the run: running, revoked, or down with the daemon
  writes,      \* the calls with an external_write event, in log order
  outcome,     \* outcome[c]: the terminals of c's reservation, in log order
  base,        \* the ledger when the newest attempt began
  authorized,  \* failed calls with a retry authorization
  retry,       \* retry[c]: the failed call whose authorization c spent
  granted,     \* granted[a]: writes logged before a was approved
  claimed,     \* claimed[a]: the call that claimed a as its consent
  landed,      \* landed[c]: c has had its effect
  ruling,      \* the call a reconciliation found undecided and settles
  replayed,    \* attempts whose work was started over
  crashes

runVars    == <<lease, loop, base, replayed>>
retryVars  == <<authorized, retry>>
wallVars   == <<granted, claimed>>
effectVars == <<landed, ruling>>
vars == <<pc, attempt, lock, runVars, writes, outcome, retryVars, wallVars,
          effectVars, crashes>>

-----------------------------------------------------------------------------
(* What is read from the ledger.                                           *)

Waiting  == {"idle", "asked"}
InLock   == {"locked", "admitted"}
(* sent: with the provider; unclear: its answer proves nothing, which is   *)
(* not logged yet; over: answered, or its process died after the dispatch. *)
Dispatched == {"sent", "unclear", "over"}
(* refused: no dispatch; dead: its process died before the dispatch.       *)
Ended    == {"refused", "over", "dead"}
Place    == Waiting \cup InLock \cup {"reserved"} \cup Dispatched \cup Ended

(* failed: local code proves that nothing was sent; absent: a failure      *)
(* recorded because a read-back did not show the write.                    *)
Decisive == {"succeeded", "failed", "absent"}
Terminal == Decisive \cup {"orphaned"}

Logged == {writes[i] : i \in 1..Len(writes)}

Recorded(c) == {outcome[c][i] : i \in 1..Len(outcome[c])}

(* What has been settled of c; success and failure are one key, an orphan  *)
(* has its own.                                                            *)
Verdict(c) == Recorded(c) \cap Decisive

Decided(c) == Verdict(c) # {}
Failed(c)  == Recorded(c) \cap {"failed", "absent"} # {}

\* Mutant of Standing: an ambiguous write no longer counts as one.
StandingIfClean == {d \in Logged : ~Failed(d) /\ "orphaned" \notin Recorded(d)}

Standing == {d \in Logged : ~Failed(d)}

(* The standing writes of the irreversible action that hit target t.       *)
Prior(t) == {d \in Standing \cap Irreversible : t \in TargetOf[d]}

Current(c) == lease.live /\ attempt[c] = lease.id

(* The row is free, or its owner's process is dead: no live call and no    *)
(* reconciliation owns it.                                                 *)
\* Mutant of Free: only the owner ever deletes the row.
FreeIfReleased == ruling = None /\ lock = None

Free == ruling = None /\ (lock = None \/ (lock \in Call /\ pc[lock] = "dead"))

(* Since the attempt began the ledger shows no write but failed ones.      *)
ReplaySafe ==
  /\ \A i \in base.length + 1..Len(writes) : Failed(writes[i])
  /\ \A c \in Call : \A i \in base.answers[c] + 1..Len(outcome[c]) :
       outcome[c][i] \in {"failed", "absent"}

Snapshot == [length |-> Len(writes), answers |-> [c \in Call |-> Len(outcome[c])]]

-----------------------------------------------------------------------------
Init ==
  /\ pc = [c \in Call |-> "idle"]
  /\ attempt = [c \in Call |-> 1]
  /\ lock = None
  /\ lease = [id |-> 1, live |-> TRUE]
  /\ loop = "running"
  /\ writes = <<>>
  /\ outcome = [c \in Call |-> <<>>]
  /\ base = Snapshot
  /\ authorized = {}
  /\ retry = [c \in Call |-> None]
  /\ granted = [a \in Approval |-> None]
  /\ claimed = [a \in Approval |-> None]
  /\ landed = [c \in Call |-> FALSE]
  /\ ruling = None
  /\ replayed = {}
  /\ crashes = 0

Goto(c, l) == pc' = [pc EXCEPT ![c] = l]

(* The model asks for the write; a late frame may still belong to an       *)
(* attempt that was given up.                                              *)
Request(c) ==
  /\ pc[c] = "idle" /\ (loop # "down" \/ c \in Child)
  /\ \E g \in 1..lease.id : attempt' = [attempt EXCEPT ![c] = g]
  /\ Goto(c, "asked")
  /\ UNCHANGED <<lock, runVars, writes, outcome, retryVars, wallVars, effectVars, crashes>>

Acquire(c) ==
  /\ pc[c] = "asked" /\ Free
  /\ lock' = c
  /\ Goto(c, "locked")
  /\ UNCHANGED <<attempt, runVars, writes, outcome, retryVars, wallVars, effectVars, crashes>>

(* ADMISSION_LOCK_MAX_WAIT_MS have passed.                                 *)
GiveUp(c) ==
  /\ pc[c] = "asked" /\ ~Free
  /\ Goto(c, "refused")
  /\ UNCHANGED <<attempt, lock, runVars, writes, outcome, retryVars, wallVars, effectVars, crashes>>

(* Targets of c that a standing write has hit.                             *)
Duplicates(c) == {t \in TargetOf[c] : c \in Irreversible /\ Prior(t) # {}}

Fresh(a, t) == \E i \in 1..Len(writes) : i <= granted[a] /\ writes[i] \in Prior(t)

(* Approvals that consent to hitting t again: unclaimed, naming t, and     *)
(* resolved after the first standing write that hit it.                    *)
\* Mutant of Consents: an approval can be claimed again.
ConsentsReused(t) == {a \in Approval : granted[a] # None /\ t \in Names[a] /\ Fresh(a, t)}

Consents(t) ==
  {a \in Approval : granted[a] # None /\ claimed[a] = None /\ t \in Names[a] /\ Fresh(a, t)}

(* assertDispatchLeaseCurrent, then the duplicate wall: the first target   *)
(* found to be a duplicate decides, and the newest consent is claimed.     *)
Admit(c) ==
  /\ pc[c] = "locked" /\ Current(c)
  /\ \/ /\ Duplicates(c) = {}
        /\ UNCHANGED claimed
     \/ \E t \in Duplicates(c) : \E a \in Consents(t) :
          /\ \A b \in Consents(t) : granted[b] <= granted[a]
          /\ claimed' = [claimed EXCEPT ![a] = c]
  /\ Goto(c, "admitted")
  /\ UNCHANGED <<attempt, lock, runVars, writes, outcome, retryVars, granted, effectVars, crashes>>

(* A stale lease, a duplicate nobody consented to, or, once past the wall, *)
(* confirm-first or a reservation that cannot be written.                  *)
Refuse(c) ==
  /\ \/ pc[c] = "locked" /\ ~Current(c)
     \/ pc[c] = "locked" /\ \E t \in Duplicates(c) : Consents(t) = {}
     \/ pc[c] = "admitted"
  /\ lock' = None
  /\ Goto(c, "refused")
  /\ UNCHANGED <<attempt, runVars, writes, outcome, retryVars, wallVars, effectVars, crashes>>

SameWrite(c, d) ==
  TargetOf[c] = TargetOf[d] /\ (c \in Irreversible <=> d \in Irreversible)

\* Mutant of Usable: only legacy consumption rows would spend one.
UsableAgain(c) == {d \in authorized : SameWrite(c, d)}

(* Authorizations of a retry of this very write that no reservation names. *)
Usable(c) == {d \in authorized : SameWrite(c, d) /\ \A e \in Logged : retry[e] # d}

(* The newest usable authorization is named by the reservation, which is   *)
(* logged before the lock is given back.                                   *)
Reserve(c) ==
  /\ pc[c] = "admitted"
  /\ IF Usable(c) = {} THEN UNCHANGED retry
     ELSE \E d \in Usable(c) : retry' = [retry EXCEPT ![c] = d]
  /\ writes' = Append(writes, c)
  /\ lock' = None
  /\ Goto(c, "reserved")
  /\ UNCHANGED <<attempt, runVars, outcome, authorized, wallVars, effectVars, crashes>>

-----------------------------------------------------------------------------
(* The dispatch and its terminal.                                          *)

Log(c, o) == outcome' = [outcome EXCEPT ![c] = Append(@, o)]

\* Mutant of Record: the terminal is logged whatever is there.
RecordAnyway(c, o) == Log(c, o)

(* One decisive terminal per reservation: its projection key is unique in  *)
(* the event log.  The terminals of native calls are logged without it.    *)
Record(c, o) == IF c \in Native \/ ~Decided(c) THEN Log(c, o) ELSE UNCHANGED outcome

(* The last look at the lease before the body runs; the native lane has    *)
(* none.  A stale call compensates its reservation.                        *)
Dispatch(c) ==
  /\ pc[c] = "reserved"
  /\ IF c \in Native \/ Current(c)
     THEN Goto(c, "sent") /\ UNCHANGED outcome
     ELSE Goto(c, "refused") /\ Record(c, "failed")
  /\ UNCHANGED <<attempt, lock, runVars, writes, retryVars, wallVars, effectVars, crashes>>

(* The provider applies the write, possibly long after the call timed out  *)
(* here, its process died or somebody gave it up for absent.               *)
Land(c) ==
  /\ ~landed[c] /\ pc[c] \in Dispatched
  /\ landed' = [landed EXCEPT ![c] = TRUE]
  /\ UNCHANGED <<pc, attempt, lock, runVars, writes, outcome, retryVars, wallVars, ruling,
                 crashes>>

(* A clean acknowledgement, or one of no change.                           *)
Settle(c) ==
  /\ pc[c] = "sent"
  /\ Record(c, "succeeded")
  /\ Goto(c, "over")
  /\ UNCHANGED <<attempt, lock, runVars, writes, retryVars, wallVars, effectVars, crashes>>

(* Anything else: an error, a timeout, an answer that proves nothing.  The *)
(* log is read for a verdict first.                                        *)
Unclear(c) ==
  /\ pc[c] = "sent" /\ c \notin Native
  /\ Goto(c, IF Decided(c) THEN "over" ELSE "unclear")
  /\ UNCHANGED <<attempt, lock, runVars, writes, outcome, retryVars, wallVars, effectVars, crashes>>

(* The orphan is logged, under a key of its own and so whatever was        *)
(* decided meanwhile.  The native lane does not look before.               *)
Orphan(c) ==
  /\ pc[c] = (IF c \in Native THEN "sent" ELSE "unclear")
  /\ Log(c, "orphaned")
  /\ Goto(c, "over")
  /\ UNCHANGED <<attempt, lock, runVars, writes, retryVars, wallVars, effectVars, crashes>>

(* Local code proves that the dispatch did not start; in the native lane   *)
(* only before it hands the call over.                                     *)
NotStarted(c) ==
  /\ pc[c] = (IF c \in Native THEN "reserved" ELSE "sent") /\ ~landed[c]
  /\ Record(c, "failed")
  /\ Goto(c, "refused")
  /\ UNCHANGED <<attempt, lock, runVars, writes, retryVars, wallVars, effectVars, crashes>>

-----------------------------------------------------------------------------
(* The run: stalls, recovery, crash, boot.                                 *)

\* Mutant of RevokeForRecovery: the lease is revoked without the lock.
RevokeAtOnce ==
  /\ loop = "running"
  /\ lease' = [lease EXCEPT !.live = FALSE]
  /\ loop' = "revoked"
  /\ UNCHANGED <<pc, attempt, lock, base, replayed, writes, outcome, retryVars, wallVars, effectVars, crashes>>

(* revokeDispatchLeaseBeforeRecovery, at a stall, an error or the end.     *)
RevokeForRecovery ==
  /\ loop = "running" /\ Free
  /\ lease' = [lease EXCEPT !.live = FALSE]
  /\ loop' = "revoked"
  /\ UNCHANGED <<pc, attempt, lock, base, replayed, writes, outcome, retryVars, wallVars, effectVars, crashes>>

(* A new lease, then the baseline of its ledger window.                    *)
Activate ==
  /\ loop = "revoked" /\ lease.id < MaxAttempt
  /\ lease' = [id |-> lease.id + 1, live |-> TRUE]
  /\ loop' = "running"
  /\ base' = Snapshot
  /\ UNCHANGED <<pc, attempt, lock, writes, outcome, retryVars, wallVars, effectVars, crashes>>

(* The same work is started over, by the stall loop or after a boot.       *)
Replay == ReplaySafe /\ Activate /\ replayed' = replayed \cup {lease.id}

(* The attempt is given up and reported; the run goes on from there.       *)
NextAttempt == Activate /\ UNCHANGED replayed

(* The processes of the tool server, or of the daemon, die.                *)
Crash(children) ==
  LET fate(c) == CASE ~(c \in Child <=> children) -> pc[c]
                   [] pc[c] \in {"sent", "unclear"} -> "over"
                   [] pc[c] \in {"asked", "reserved"} \cup InLock -> "dead"
                   [] OTHER -> pc[c]
  IN /\ crashes < MaxCrash /\ crashes' = crashes + 1
     /\ IF children THEN \E c \in Child : pc[c] # fate(c) ELSE loop # "down"
     /\ pc' = [c \in Call |-> fate(c)]
     /\ loop' = IF children THEN loop ELSE "down"
     /\ ruling' \in {ruling, None}
     /\ UNCHANGED <<attempt, lock, lease, base, replayed, writes, outcome, retryVars,
                    wallVars, landed>>

(* Boot ends the dead daemon's attempts, and with them their leases; it    *)
(* does not take the admission lock.                                       *)
BootFence ==
  /\ loop = "down"
  /\ lease' = [lease EXCEPT !.live = FALSE]
  /\ loop' = "revoked"
  /\ UNCHANGED <<pc, attempt, lock, base, replayed, writes, outcome, retryVars, wallVars,
                 effectVars, crashes>>

-----------------------------------------------------------------------------
(* Read-back, reconciliation and retry, by the model; approval, by the     *)
(* user.                                                                   *)

(* execution_reconcile_write, under the admission lock: a logged call, be  *)
(* it still in flight, is found undecided ...                              *)
Rule(c) ==
  /\ loop = "running" /\ Free /\ c \in Logged /\ ~Decided(c)
  /\ ruling' = c
  /\ UNCHANGED <<pc, attempt, lock, runVars, writes, outcome, retryVars, wallVars, landed,
                 crashes>>

\* Mutant of Reconcile: what was read is recorded as it is, not as a verdict.
ReconcileRaw(c) ==
  /\ ruling = c
  /\ landed[c] /\ Record(c, "present")
  /\ ruling' = None
  /\ UNCHANGED <<pc, attempt, lock, runVars, writes, retryVars, wallVars, landed, crashes>>

(* ... and the verdict is logged.  The read it rests on has only to be     *)
(* younger than the reservation, when nothing has landed: the write may    *)
(* be given up for absent at any time, and be found once it has landed.    *)
Reconcile(c) ==
  /\ ruling = c
  /\ Record(c, "absent") \/ (landed[c] /\ Record(c, "succeeded"))
  /\ ruling' = None
  /\ UNCHANGED <<pc, attempt, lock, runVars, writes, retryVars, wallVars, landed, crashes>>

(* The newest word of the log on c is that it failed.                      *)
LastFailed(c) == outcome[c] # <<>> /\ outcome[c][Len(outcome[c])] \in {"failed", "absent"}

(* execution_update_step with retryOfCallId: once per call.                *)
Authorize(c) ==
  /\ loop = "running" /\ Free
  /\ LastFailed(c) /\ c \notin authorized
  /\ authorized' = authorized \cup {c}
  /\ UNCHANGED <<pc, attempt, lock, runVars, writes, outcome, retry, wallVars, effectVars, crashes>>

Approve(a) ==
  /\ granted[a] = None
  /\ granted' = [granted EXCEPT ![a] = Len(writes)]
  /\ UNCHANGED <<pc, attempt, lock, runVars, writes, outcome, retryVars, claimed, effectVars, crashes>>

-----------------------------------------------------------------------------
Next ==
  \/ \E c \in Call :
       \/ Request(c) \/ Acquire(c) \/ GiveUp(c) \/ Admit(c) \/ Refuse(c)
       \/ Reserve(c) \/ Dispatch(c) \/ NotStarted(c) \/ Land(c)
       \/ Settle(c) \/ Unclear(c) \/ Orphan(c)
       \/ Rule(c) \/ Reconcile(c) \/ Authorize(c)
  \/ RevokeForRecovery \/ Replay \/ NextAttempt \/ BootFence
  \/ \E children \in BOOLEAN : Crash(children)
  \/ \E a \in Approval : Approve(a)

Spec == Init /\ [][Next]_vars

(* A process that lives goes on with what it does under the admission      *)
(* lock; nothing makes the model ask, the user approve, the provider       *)
(* answer, a wait run out or a process crash.                              *)
FairSpec ==
  /\ Spec
  /\ \A c \in Call :
       /\ SF_vars(Acquire(c))
       /\ WF_vars(Admit(c) \/ Refuse(c) \/ Reserve(c))
       /\ WF_vars(Reconcile(c))

-----------------------------------------------------------------------------
TypeOK ==
  /\ pc \in [Call -> Place]
  /\ attempt \in [Call -> Nat]
  /\ lock \in Call \cup {None}
  /\ lease \in [id : Nat, live : BOOLEAN]
  /\ loop \in {"running", "revoked", "down"}
  /\ writes \in Seq(Call)
  /\ outcome \in [Call -> Seq(Terminal)]
  /\ base \in [length : Nat, answers : [Call -> Nat]]
  /\ authorized \subseteq Call
  /\ retry \in [Call -> Call \cup {None}]
  /\ granted \in [Approval -> Nat \cup {None}]
  /\ claimed \in [Approval -> Call \cup {None}]
  /\ landed \in [Call -> BOOLEAN]
  /\ ruling \in Call \cup {None}
  /\ replayed \subseteq Nat
  /\ crashes \in Nat

(* c and d both took effect, irreversibly, on t; c was logged first.       *)
HitAgain(c, d, t) ==
  /\ landed[c] /\ landed[d] /\ {c, d} \subseteq Irreversible
  /\ t \in TargetOf[c] \cap TargetOf[d]
  /\ \E i, j \in 1..Len(writes) : i < j /\ writes[i] = c /\ writes[j] = d

(* d claimed an approval that was given when a write to a target of d was  *)
(* in the log.                                                             *)
Consented(d) ==
  \E a \in Approval :
    /\ claimed[a] = d
    /\ \E i \in 1..Len(writes) :
         i <= granted[a] /\ TargetOf[writes[i]] \cap TargetOf[d] # {}

(* c was recorded as absent on a read-back, and had its effect after the   *)
(* read.                                                                   *)
Misjudged(c) == landed[c] /\ "absent" \in Recorded(c)

(* An irreversible write never has its effect on a target that another hit *)
(* before, unless it claimed an approval, no other write's, that was given *)
(* after some write to that target (assertNoDuplicateExternalWrite),       *)
(* whatever stalls, dies, is replayed, read back or retried in between.    *)
(* Only a read-back that came before the effect opens the wall.            *)
NoUnconsentedResend ==
  \A c, d \in Call : \A t \in Target :
    HitAgain(c, d, t) /\ ~Misjudged(c) => Consented(d)

(* Work that was started over had no effect the first time, though a call  *)
(* of it may have been anywhere when its lease was revoked                 *)
(* (revokeDispatchLeaseBeforeRecovery, checkDispatchRecoveryLedger), but   *)
(* for a call that such a read-back gave up.                               *)
NoReplayAfterWrite ==
  \A c \in Call : landed[c] /\ attempt[c] \in replayed => Misjudged(c)

(* No authorization is spent by two writes that were reserved.             *)
RetryOnce ==
  \A c, d \in Logged : c # d /\ retry[c] = retry[d] => retry[c] = None

(* Outside the native lane the verdict on a write is one and stands: late  *)
(* answers and reconciliations in other processes may race for it, and an  *)
(* orphan may still be logged after it (projectExternalWriteTerminal).     *)
VerdictStands ==
  [][\A c \in Call \ Native : Decided(c) => Verdict(c)' = Verdict(c)]_outcome

(* A call that waits for the admission lock gets an answer, also when the  *)
(* owner of the row dies with it and no wait ever runs out.                *)
WaitEnds == \A c \in Call : pc[c] = "asked" ~> pc[c] # "asked"

=============================================================================
