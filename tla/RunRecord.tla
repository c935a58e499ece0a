----------------------------- MODULE RunRecord -----------------------------
(***************************************************************************)
(* The life of one workflow run, as the record its writers share.  The     *)
(* runner starts, parks and ends the run; other processes answer, hold or  *)
(* cancel it; what was done is reported to the conversations that asked    *)
(* for it.  A cancellation has a receipt in a file of its own, installed   *)
(* before the record is written, so a crash may leave the one without the  *)
(* other; every later writer of the runner takes the receipt up.  All of   *)
(* them read and write under RecordLock's lock; the record, the receipt    *)
(* and the conversations are separate files, written one after the other.  *)
(***************************************************************************)
EXTENDS RecordLock

CONSTANTS
    Reason,     \* reasons a cancellation may give
    Origin,     \* conversations the run reports to
    MaxFails,   \* bound: failed deliveries before the report is quarantined
    NoStop, NoTask

ASSUME RunAssumption ==
    /\ Reason \cap {"none", "done", "failed", "stopped"} = {}
    /\ NoStop \notin Reason \cup {"done", "failed", "stopped"}
    /\ MaxFails \in Nat \ {0}

VARIABLES
    rec,        \* the run record
    receipt,    \* the cancellation receipt
    told,       \* what each conversation was told
    task        \* what each process does under the lock

runVars == <<rec, receipt, told, task>>
vars == <<dir, me, rec, receipt, told, task>>

(* A report is known by its text; "none" where the record has no envelope. *)
(* completed stands for every end that did the work, error for every end   *)
(* that did not.                                                           *)
Report == {"none", "done", "failed", "stopped"} \cup Reason
Status == {"queued", "running", "parked", "awaiting_input", "finalizing",
           "completed", "error", "cancelled"}
Record == [status : Status, report : Report, acked : SUBSET Origin, fails : 0..MaxFails]
Stop == (Report \ {"none"}) \cup {NoStop}
RunnerJob == {"start", "park", "ask", "finish", "fail", "stop", "drop"}
Job == RunnerJob \cup {"hold", "finalize", "cap", "reask", "answer", "checkpoint",
                        "cancel", "report"}
Task == [do : Job, at : {"read", "installed", "delivered"}, rec : Record,
         stop : Stop, reason : Reason, got : SUBSET Origin]

Terminal(r) == r.status \in {"completed", "error", "cancelled"}

Init ==
    /\ LockInit
    /\ rec = [status |-> "queued", report |-> "none", acked |-> {}, fails |-> 0]
    /\ receipt = NoStop
    /\ told = {}
    /\ task = [p \in Proc |-> NoTask]

-----------------------------------------------------------------------------
(* What a writer makes of the record r and the receipt s it read.          *)

\* A cancelled run whose preparation was stopped has no envelope yet.
RunnerStatus(d) ==
    CASE d = "start" -> "running"
      [] d = "park" -> "parked"
      [] d = "ask" -> "awaiting_input"
      [] d = "finish" -> "completed"
      [] d = "fail" -> "error"
      [] d \in {"stop", "drop"} -> "cancelled"

RunnerReport(d) ==
    CASE d = "finish" -> "done"
      [] d = "fail" -> "failed"
      [] d = "stop" -> "stopped"
      [] OTHER -> "none"

(* A receipt wins over whatever the runner proposes, and is reported in    *)
(* the same commit.                                                        *)
RunnerWrites(r, s, d) ==
    IF s # NoStop THEN [r EXCEPT !.status = "cancelled", !.report = s]
    ELSE [r EXCEPT !.status = RunnerStatus(d), !.report = RunnerReport(d)]

\* Mutant of Open: a runner's write is not refused by a terminal record.
OpenAlways(r) == r \in Record

Open(r) == ~Terminal(r)

\* Mutant of Cancellable: a cancellation does not look whether the run ended.
CancellableAlways(r) == r \in Record

Cancellable(r) == Terminal(r) => r.status = "cancelled"

\* Mutant of Due: a quarantined report is tried again.
DueForever(r) == r.report # "none" /\ r.acked # Origin

Due(r) == r.report # "none" /\ r.acked # Origin /\ r.fails < MaxFails

Finalizable(r) == r.status \in {"running", "finalizing"}
Resumed(r) == r.status \in {"queued", "running", "finalizing"}
Answerable(r, s) == r.status = "awaiting_input" /\ s = NoStop
Unreported(r) == r.status = "cancelled" /\ r.report = "none"

Applies(d, r, s) ==
    CASE d \in RunnerJob \cup {"hold"} -> Open(r)
      [] d = "finalize" -> Finalizable(r)
      [] d = "cap" -> Resumed(r)
      [] d = "reask" -> r.status = "parked"
      [] d = "answer" -> Answerable(r, s)
      [] d = "checkpoint" -> Unreported(r)
      [] d = "cancel" -> Cancellable(r)
      [] d = "report" -> Due(r)

Held(r) == [r EXCEPT !.status = "running"]
Finalizing(r) == [r EXCEPT !.status = "finalizing"]
Capped(r) == [r EXCEPT !.status = "parked"]
Reasked(r) == [r EXCEPT !.status = "awaiting_input"]
Answered(r) == [r EXCEPT !.status = "running"]
Checkpointed(r) == [r EXCEPT !.report = "stopped"]

Written(r, s, d) ==
    CASE d \in RunnerJob -> RunnerWrites(r, s, d)
      [] d = "hold" -> Held(r)
      [] d = "finalize" -> Finalizing(r)
      [] d = "cap" -> Capped(r)
      [] d = "reask" -> Reasked(r)
      [] d = "answer" -> Answered(r)
      [] d = "checkpoint" -> Checkpointed(r)

(* The first receipt stands; the cancellation of a run that is already     *)
(* cancelled adopts what was reported of it.                               *)
Adopted(r, reason) ==
    IF r.status # "cancelled" THEN reason
    ELSE IF r.report = "none" THEN "stopped" ELSE r.report

Cancelled(r, s) ==
    IF r.report = "none"
    THEN [r EXCEPT !.status = "cancelled", !.report = s, !.acked = {}, !.fails = 0]
    ELSE r

\* Mutant of Delivered: the attempt is recorded, not the acknowledgements.
DeliveredToAll(r, got) == [r EXCEPT !.acked = Origin, !.fails = 0]

Delivered(r, got) ==
    [r EXCEPT !.acked = @ \cup got,
              !.fails = IF r.acked \cup got = Origin THEN 0 ELSE @ + 1]

-----------------------------------------------------------------------------
(* The work under the lock.                                                *)

Do(p, at) == At(p, "work") /\ task[p] # NoTask /\ task[p].at = at

Done(p) == Leave(p) /\ task' = [task EXCEPT ![p] = NoTask]

(* Every decision is made from a fresh read of the record and the receipt. *)
Read(p) ==
    /\ At(p, "work") /\ task[p] = NoTask
    /\ \E d \in Job, reason \in Reason :
         /\ Applies(d, rec, receipt)
         /\ task' = [task EXCEPT ![p] = [do |-> d, at |-> "read", rec |-> rec,
                        stop |-> receipt, reason |-> reason, got |-> {}]]
    /\ UNCHANGED <<dir, me, rec, receipt, told>>

(* A call that only reads, or that finds nothing to do.                    *)
Decline(p) ==
    /\ At(p, "work") /\ task[p] = NoTask
    /\ Done(p)
    /\ UNCHANGED <<rec, receipt, told>>

Write(p) ==
    /\ Do(p, "read") /\ task[p].do \notin {"cancel", "report"}
    /\ rec' = Written(task[p].rec, task[p].stop, task[p].do)
    /\ Done(p)
    /\ UNCHANGED <<receipt, told>>

(* link: of two receipts only one is installed.                            *)
Install(p) ==
    /\ Do(p, "read") /\ task[p].do = "cancel"
    /\ receipt' = IF receipt = NoStop THEN Adopted(task[p].rec, task[p].reason) ELSE receipt
    /\ task' = [task EXCEPT ![p].at = "installed", ![p].stop = receipt']
    /\ UNCHANGED <<dir, me, rec, told>>

Cancel(p) ==
    /\ Do(p, "installed")
    /\ rec' = Cancelled(task[p].rec, task[p].stop)
    /\ Done(p)
    /\ UNCHANGED <<receipt, told>>

(* A conversation may be told without the acknowledgement coming back.     *)
Deliver(p) ==
    /\ Do(p, "read") /\ task[p].do = "report"
    /\ \E sent \in SUBSET (Origin \ task[p].rec.acked) : \E got \in SUBSET sent :
         /\ told' = told \cup (sent \X {task[p].rec.report})
         /\ task' = [task EXCEPT ![p].at = "delivered", ![p].got = got]
    /\ UNCHANGED <<dir, me, rec, receipt>>

Acknowledge(p) ==
    /\ Do(p, "delivered")
    /\ rec' = Delivered(task[p].rec, task[p].got)
    /\ Done(p)
    /\ UNCHANGED <<receipt, told>>

Work(p) ==
    \/ Read(p) \/ Decline(p) \/ Write(p)
    \/ Install(p) \/ Cancel(p) \/ Deliver(p) \/ Acknowledge(p)

(* What a process was doing under the lock dies with it.                   *)
Lock ==
    /\ LockStep
    /\ task' = [p \in Proc |-> IF me'[p].at = "work" THEN task[p] ELSE NoTask]
    /\ UNCHANGED <<rec, receipt, told>>

Next == Lock \/ \E p \in Proc : Work(p)
Spec == Init /\ [][Next]_vars

-----------------------------------------------------------------------------
TypeOK ==
    /\ LockTypeOK
    /\ rec \in Record
    /\ receipt \in Stop
    /\ told \subseteq Origin \X Report
    /\ task \in [Proc -> Task \cup {NoTask}]

(* The first end of a run stands: no later writer changes its status, or   *)
(* the report once there is one, or forgets who acknowledged it.           *)
EndStands ==
    [][Terminal(rec) =>
         /\ rec'.status = rec.status
         /\ rec.report # "none" => rec'.report = rec.report
         /\ rec.acked \subseteq rec'.acked]_rec

(* A cancellation never reaches a run that had ended: where there is a     *)
(* receipt, an ended run is a cancelled one and reports what the receipt   *)
(* says.                                                                   *)
NoRetroactiveCancel ==
    receipt # NoStop /\ Terminal(rec) =>
        rec.status = "cancelled" /\ rec.report \in {"none", receipt}

(* A conversation is told one outcome of a run, the one its record shows,  *)
(* and only an outcome it was told is taken as acknowledged.               *)
OneOutcomeTold ==
    /\ \A t \in told : t[2] = rec.report
    /\ \A o \in rec.acked : <<o, rec.report>> \in told
=============================================================================
