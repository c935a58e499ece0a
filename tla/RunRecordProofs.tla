-------------------------- MODULE RunRecordProofs --------------------------
(***************************************************************************)
(* RunRecord's types and properties, for any number of processes, reasons  *)
(* and conversations.  Every step is a step of the lock or leaves it       *)
(* alone, so one process works at a time and what it read stays true until *)
(* its write; the record, the receipt and what was told then agree in the  *)
(* ways ReportsAgree lists.                                                *)
(***************************************************************************)
EXTENDS RunRecord, RecordLockProofs

(* Only a worker has a task, and what it read is what the files hold.      *)
Fresh(p) ==
    task[p] # NoTask =>
        /\ At(p, "work")
        /\ task[p].rec = rec /\ task[p].stop = receipt
        /\ task[p].at = "read" => Applies(task[p].do, rec, receipt)
        /\ task[p].at = "installed" => task[p].do = "cancel" /\ Cancellable(rec) /\ receipt # NoStop
        /\ task[p].at = "delivered" =>
              /\ task[p].do = "report" /\ Due(rec)
              /\ \A o \in task[p].got : <<o, rec.report>> \in told

TasksFresh == \A p \in Proc : Fresh(p)

(* A run that has not ended has no report, one without a report was told   *)
(* to nobody, and a receipt found beside an ended run without a report is  *)
(* the one that adopted its end.                                           *)
ReportsAgree ==
    /\ ~Terminal(rec) => rec.report = "none"
    /\ rec.report = "none" => told = {} /\ rec.acked = {}
    /\ rec.status = "cancelled" /\ rec.report = "none" /\ receipt # NoStop => receipt = "stopped"

RunInv ==
    /\ TypeOK /\ LockInv
    /\ TasksFresh /\ ReportsAgree /\ NoRetroactiveCancel /\ OneOutcomeTold

(* The run's steps are steps of the lock: the work is done within it.      *)
LEMMA LockSteps == ASSUME [Next]_vars PROVE [LockNext]_lockVars
<1>1. ASSUME NEW p \in Proc, Work(p) PROVE Leave(p) \/ UNCHANGED lockVars
  BY <1>1 DEF Work, Read, Decline, Write, Install, Cancel, Deliver, Acknowledge, Done, lockVars
<1>2. CASE Lock  BY <1>2 DEF Lock, LockNext
<1>3. CASE UNCHANGED vars  BY <1>3 DEF vars, lockVars
<1> QED  BY <1>1, <1>2, <1>3 DEF Next, LockNext

(* What a writer makes of a record is a record.                            *)
LEMMA WritesRecords ==
    ASSUME NEW r \in Record, NEW s \in Stop, NEW d \in Job, Applies(d, r, s)
    PROVE  /\ d \notin {"cancel", "report"} => Written(r, s, d) \in Record
           /\ s # NoStop => Cancelled(r, s) \in Record
           /\ \A got \in SUBSET Origin : d = "report" => Delivered(r, got) \in Record
<1>1. s # NoStop => s \in Report  BY DEF Stop
<1>2. MaxFails \in Nat /\ 0 \in 0..MaxFails /\ Status # {}  BY RunAssumption DEF Status
<1>3. ASSUME NEW st \in Status PROVE [r EXCEPT !.status = st] \in Record
  BY DEF Record
<1>4. ASSUME NEW st \in Status, NEW rep \in Report
      PROVE  [r EXCEPT !.status = st, !.report = rep] \in Record
  BY DEF Record
<1>5. ASSUME d \in RunnerJob PROVE Written(r, s, d) \in Record
  <2>1. RunnerStatus(d) \in Status /\ RunnerReport(d) \in Report
    BY <1>5 DEF RunnerJob, RunnerStatus, RunnerReport, Status, Report
  <2>2. RunnerWrites(r, s, d) \in Record
    BY <1>1, <1>4, <2>1 DEF RunnerWrites, Status
  <2> QED  BY <1>5, <2>2 DEF Written, RunnerJob
<1>6. ASSUME d \in {"hold", "answer", "finalize", "cap", "reask"} PROVE Written(r, s, d) \in Record
  <2>1. {"running", "finalizing", "parked", "awaiting_input"} \subseteq Status  BY DEF Status
  <2>2. \E st \in Status : Written(r, s, d) = [r EXCEPT !.status = st]
    BY <1>6, <2>1 DEF Written, RunnerJob, Held, Finalizing, Capped, Reasked, Answered
  <2> QED  BY <1>3, <2>2
<1>7. ASSUME d = "checkpoint" PROVE Written(r, s, d) \in Record
  <2>1. Written(r, s, d) = [r EXCEPT !.report = "stopped"] /\ "stopped" \in Report
    BY <1>7 DEF Written, RunnerJob, Report, Checkpointed
  <2> QED  BY <2>1 DEF Record
<1>8. s # NoStop => Cancelled(r, s) \in Record
  <2>1. s # NoStop => [r EXCEPT !.status = "cancelled", !.report = s] \in Record
    BY <1>1, <1>4 DEF Status
  <2>2. ASSUME NEW x \in Record PROVE [x EXCEPT !.acked = {}, !.fails = 0] \in Record
    BY <1>2 DEF Record
  <2>3. [r EXCEPT !.status = "cancelled", !.report = s, !.acked = {}, !.fails = 0]
          = [[r EXCEPT !.status = "cancelled", !.report = s] EXCEPT !.acked = {}, !.fails = 0]
    BY DEF Record
  <2> QED  BY <2>1, <2>2, <2>3 DEF Cancelled
<1>9. ASSUME NEW got \in SUBSET Origin, d = "report" PROVE Delivered(r, got) \in Record
  <2>1. r.fails < MaxFails  BY <1>9 DEF Applies, Due, RunnerJob
  <2>2. r.fails \in 0..MaxFails /\ r.acked \cup got \in SUBSET Origin  BY DEF Record
  <2>3. (IF r.acked \cup got = Origin THEN 0 ELSE r.fails + 1) \in 0..MaxFails
    BY <1>2, <2>1, <2>2
  <2>4. ASSUME NEW a \in SUBSET Origin, NEW f \in 0..MaxFails
        PROVE  [r EXCEPT !.acked = a, !.fails = f] \in Record
    BY DEF Record
  <2> QED  BY <2>2, <2>3, <2>4 DEF Delivered
<1> QED  BY <1>5, <1>6, <1>7, <1>8, <1>9 DEF Job

(* One process works at a time, so a worker's is the only task.            *)
LEMMA OneTask ==
    ASSUME RunInv, NEW p \in Proc, Work(p), NEW q \in Proc \ {p}
    PROVE  At(p, "work") /\ task[q] = NoTask /\ task'[q] = NoTask
<1>1. At(p, "work")
  BY DEF Work, Read, Decline, Write, Install, Cancel, Deliver, Acknowledge, Do
<1>2. task[q] = NoTask
  BY <1>1 DEF RunInv, TasksFresh, Fresh, LockInv, MutualExclusion
<1>3. task'[q] = task[q]
  BY DEF RunInv, TypeOK, Work, Read, Decline, Write, Install, Cancel, Deliver, Acknowledge, Done
<1> QED  BY <1>1, <1>2, <1>3

(* What the last step of a task finds: a fresh copy, and what to do.       *)
LEMMA TaskFound ==
    ASSUME RunInv, NEW p \in Proc, NEW at \in {"read", "installed", "delivered"}, Do(p, at)
    PROVE  /\ task[p] \in Task /\ task[p].at = at /\ task[p].rec = rec /\ task[p].stop = receipt
           /\ at = "read" => Applies(task[p].do, rec, receipt)
           /\ at = "installed" => task[p].do = "cancel" /\ Cancellable(rec) /\ receipt # NoStop
           /\ at = "delivered" =>
                 /\ task[p].do = "report" /\ Due(rec)
                 /\ \A o \in task[p].got : <<o, rec.report>> \in told
  BY DEF RunInv, TypeOK, TasksFresh, Fresh, Do

(* A receipt, once there, is a report.                                     *)
LEMMA AdoptedIsAReport ==
    ASSUME NEW r \in Record, NEW reason \in Reason
    PROVE  Adopted(r, reason) \in Stop \ {NoStop}
  BY RunAssumption DEF Adopted, Stop, Report, Record

(* Every variable keeps its type.                                          *)
LEMMA RunTypes == ASSUME RunInv, [Next]_vars PROVE TypeOK'
<1> USE DEF RunInv, TypeOK
<1>1. LockTypeOK'  BY LockSteps, LockTypes
<1>2. CASE Lock
  BY <1>1, <1>2 DEF Lock
<1>3. CASE UNCHANGED vars
  BY <1>1, <1>3 DEF vars
<1>4. ASSUME NEW p \in Proc, Work(p) PROVE TypeOK'
  <2>1. CASE Read(p)
    <3>1. PICK d \in Job, reason \in Reason :
            task' = [task EXCEPT ![p] = [do |-> d, at |-> "read", rec |-> rec,
                        stop |-> receipt, reason |-> reason, got |-> {}]]
      BY <2>1 DEF Read
    <3>2. [do |-> d, at |-> "read", rec |-> rec, stop |-> receipt, reason |-> reason, got |-> {}]
            \in Task
      BY DEF Task
    <3> QED  BY <1>1, <2>1, <3>1, <3>2 DEF Read
  <2>2. CASE Decline(p)
    BY <1>1, <2>2 DEF Decline, Done
  <2>3. CASE Write(p)
    <3>1. rec' \in Record  BY <2>3, TaskFound, WritesRecords DEF Write, Task
    <3> QED  BY <1>1, <2>3, <3>1 DEF Write, Done
  <2>4. CASE Install(p)
    <3>1. task[p] \in Task  BY <2>4, TaskFound DEF Install
    <3>2. receipt' \in Stop
      BY <2>4, <3>1, AdoptedIsAReport DEF Install, Task
    <3>3. [task[p] EXCEPT !.at = "installed", !.stop = receipt'] \in Task
      BY <3>1, <3>2 DEF Task
    <3>4. task' = [task EXCEPT ![p] = [task[p] EXCEPT !.at = "installed", !.stop = receipt']]
      BY <2>4 DEF Install
    <3> QED  BY <1>1, <2>4, <3>2, <3>3, <3>4 DEF Install
  <2>5. CASE Cancel(p)
    <3>1. rec' \in Record
      BY <2>5, TaskFound, WritesRecords DEF Cancel, Applies, Job, RunnerJob
    <3> QED  BY <1>1, <2>5, <3>1 DEF Cancel, Done
  <2>6. CASE Deliver(p)
    <3>1. task[p] \in Task /\ task[p].rec = rec  BY <2>6, TaskFound DEF Deliver
    <3>2. PICK sent \in SUBSET (Origin \ task[p].rec.acked), got \in SUBSET Origin :
            /\ got \subseteq sent
            /\ told' = told \cup (sent \X {task[p].rec.report})
            /\ task' = [task EXCEPT ![p] = [task[p] EXCEPT !.at = "delivered", !.got = got]]
      BY <2>6 DEF Deliver
    <3>3. told' \subseteq Origin \X Report  BY <3>1, <3>2 DEF Record
    <3>4. [task[p] EXCEPT !.at = "delivered", !.got = got] \in Task
      BY <3>1, <3>2 DEF Task
    <3> QED  BY <1>1, <2>6, <3>2, <3>3, <3>4 DEF Deliver
  <2>7. CASE Acknowledge(p)
    <3>1. rec' \in Record
      BY <2>7, TaskFound, WritesRecords DEF Acknowledge, Applies, Job, RunnerJob, Task
    <3> QED  BY <1>1, <2>7, <3>1 DEF Acknowledge, Done
  <2> QED  BY <1>4, <2>1, <2>2, <2>3, <2>4, <2>5, <2>6, <2>7 DEF Work
<1> QED  BY <1>2, <1>3, <1>4 DEF Next

(* What a worker read is still so when it writes.                          *)
LEMMA TasksStayFresh == ASSUME RunInv, [Next]_vars PROVE TasksFresh'
<1> SUFFICES ASSUME NEW q \in Proc, task'[q] # NoTask PROVE Fresh(q)'
  BY DEF TasksFresh, Fresh
<1>1. CASE Lock
  <2>1. me'[q].at = "work" /\ task'[q] = task[q] /\ rec' = rec /\ receipt' = receipt /\ told' = told
    BY <1>1 DEF Lock
  <2> QED  BY <2>1 DEF RunInv, TasksFresh, Fresh, At
<1>2. CASE UNCHANGED vars
  BY <1>2 DEF vars, RunInv, TasksFresh, Fresh, At
<1>3. ASSUME NEW p \in Proc, Work(p) PROVE Fresh(q)'
  <2>1. q = p  BY <1>3, OneTask
  <2>2. ~(Decline(p) \/ Write(p) \/ Cancel(p) \/ Acknowledge(p))
    BY <2>1 DEF Decline, Write, Cancel, Acknowledge, Done, RunInv, TypeOK
  <2>3. CASE Read(p)
    BY <2>1, <2>3 DEF Read, Fresh, At, RunInv, TypeOK
  <2>4. CASE Install(p)
    <3>1. /\ task[p] \in Task /\ task[p].rec = rec /\ task[p].stop = receipt /\ task[p].do = "cancel"
          /\ Cancellable(rec) /\ At(p, "work")
      BY <2>4, TaskFound DEF Install, Do, Applies, RunnerJob
    <3>2. task'[p] = [task[p] EXCEPT !.at = "installed", !.stop = receipt'] /\ rec' = rec /\ me' = me
      BY <2>4 DEF Install, RunInv, TypeOK
    <3>3. receipt' # NoStop
      BY <2>4, <3>1, AdoptedIsAReport DEF Install, Task
    <3> QED  BY <2>1, <3>1, <3>2, <3>3 DEF Fresh, Task, At
  <2>5. CASE Deliver(p)
    <3>1. /\ task[p] \in Task /\ task[p].rec = rec /\ task[p].stop = receipt /\ task[p].do = "report"
          /\ Due(rec) /\ At(p, "work")
      BY <2>5, TaskFound DEF Deliver, Do, Applies, RunnerJob
    <3>2. PICK sent \in SUBSET (Origin \ task[p].rec.acked), got \in SUBSET Origin :
            /\ got \subseteq sent
            /\ told' = told \cup (sent \X {task[p].rec.report})
            /\ task'[p] = [task[p] EXCEPT !.at = "delivered", !.got = got]
      BY <2>5 DEF Deliver, RunInv, TypeOK
    <3>3. rec' = rec /\ me' = me /\ receipt' = receipt  BY <2>5 DEF Deliver
    <3> QED  BY <2>1, <3>1, <3>2, <3>3 DEF Fresh, Task, At
  <2> QED  BY <1>3, <2>2, <2>3, <2>4, <2>5 DEF Work
<1> QED  BY <1>1, <1>2, <1>3 DEF Next

-----------------------------------------------------------------------------
(* The operations as they would be if each file were written at once.      *)

WriteAtOnce(d) ==
    /\ d \in Job \ {"cancel", "report"} /\ Applies(d, rec, receipt)
    /\ rec' = Written(rec, receipt, d) /\ UNCHANGED <<receipt, told>>

InstallAtOnce(reason) ==
    /\ Cancellable(rec)
    /\ receipt' = IF receipt = NoStop THEN Adopted(rec, reason) ELSE receipt
    /\ UNCHANGED <<rec, told>>

CancelAtOnce ==
    /\ Cancellable(rec) /\ receipt # NoStop
    /\ rec' = Cancelled(rec, receipt) /\ UNCHANGED <<receipt, told>>

DeliverAtOnce(sent) ==
    /\ Due(rec)
    /\ told' = told \cup (sent \X {rec.report}) /\ UNCHANGED <<rec, receipt>>

AcknowledgeAtOnce(got) ==
    /\ Due(rec) /\ \A o \in got : <<o, rec.report>> \in told
    /\ rec' = Delivered(rec, got) /\ UNCHANGED <<receipt, told>>

AtOnce ==
    \/ \E d \in Job : WriteAtOnce(d)
    \/ \E reason \in Reason : InstallAtOnce(reason)
    \/ CancelAtOnce
    \/ \E sent \in SUBSET Origin : DeliverAtOnce(sent)
    \/ \E got \in SUBSET Origin : AcknowledgeAtOnce(got)

(* What is written from a snapshot is what would have been written from    *)
(* the files themselves: the lock makes every operation atomic.            *)
LEMMA StepsAtOnce == ASSUME RunInv, [Next]_vars PROVE [AtOnce]_<<rec, receipt, told>>
<1>1. CASE Lock \/ UNCHANGED vars
  BY <1>1 DEF Lock, vars
<1>2. ASSUME NEW p \in Proc, Work(p) PROVE [AtOnce]_<<rec, receipt, told>>
  <2>1. CASE Read(p) \/ Decline(p)
    BY <2>1 DEF Read, Decline
  <2>2. CASE Write(p)
    <3>1. WriteAtOnce(task[p].do)
      BY <2>2, TaskFound DEF Write, WriteAtOnce, Task
    <3> QED  BY <2>2, <3>1, TaskFound DEF Write, AtOnce, Task
  <2>3. CASE Install(p)
    <3>1. InstallAtOnce(task[p].reason)
      BY <2>3, TaskFound DEF Install, InstallAtOnce, Applies, RunnerJob
    <3> QED  BY <2>3, <3>1, TaskFound DEF Install, AtOnce, Task
  <2>4. CASE Cancel(p)
    <3>1. CancelAtOnce  BY <2>4, TaskFound DEF Cancel, CancelAtOnce
    <3> QED  BY <3>1 DEF AtOnce
  <2>5. CASE Deliver(p)
    <3>1. PICK sent \in SUBSET (Origin \ task[p].rec.acked) :
            told' = told \cup (sent \X {task[p].rec.report})
      BY <2>5 DEF Deliver
    <3>2. DeliverAtOnce(sent)
      BY <2>5, <3>1, TaskFound DEF Deliver, DeliverAtOnce, Applies, RunnerJob
    <3> QED  BY <3>1, <3>2 DEF AtOnce
  <2>6. CASE Acknowledge(p)
    <3>1. AcknowledgeAtOnce(task[p].got)
      BY <2>6, TaskFound DEF Acknowledge, AcknowledgeAtOnce
    <3> QED  BY <2>6, <3>1, TaskFound DEF Acknowledge, AtOnce, Task
  <2> QED  BY <1>2, <2>1, <2>2, <2>3, <2>4, <2>5, <2>6 DEF Work
<1> QED  BY <1>1, <1>2 DEF Next

(* What a write does to the status and the report.                         *)
LEMMA WhatIsWritten ==
    ASSUME NEW r \in Record, NEW s \in Stop, NEW d \in Job \ {"cancel", "report"}, Applies(d, r, s)
    PROVE  /\ Written(r, s, d).acked = r.acked
           /\ \/ ~Terminal(r) /\ s # NoStop /\ Written(r, s, d).status = "cancelled"
                 /\ Written(r, s, d).report = s
              \/ ~Terminal(r) /\ s = NoStop /\ Terminal(Written(r, s, d))
              \/ ~Terminal(r) /\ ~Terminal(Written(r, s, d))
                 /\ Written(r, s, d).report \in {r.report, "none"}
              \/ r.status = "cancelled" /\ r.report = "none"
                 /\ Written(r, s, d) = [r EXCEPT !.report = "stopped"]
<1> USE DEF Record
<1>1. CASE d \in RunnerJob
  <2>1. Written(r, s, d) = RunnerWrites(r, s, d) /\ ~Terminal(r)
    BY <1>1 DEF Written, Applies, Open, RunnerJob
  <2>2. CASE s # NoStop
    BY <2>1, <2>2 DEF RunnerWrites
  <2>3. CASE s = NoStop
    <3>1. Written(r, s, d) = [r EXCEPT !.status = RunnerStatus(d), !.report = RunnerReport(d)]
      BY <2>1, <2>3 DEF RunnerWrites
    <3>2. CASE d \in {"start", "park", "ask"}
      <4>1. RunnerStatus(d) \in {"running", "parked", "awaiting_input"} /\ RunnerReport(d) = "none"
        BY <3>2 DEF RunnerStatus, RunnerReport
      <4> QED  BY <2>1, <3>1, <4>1 DEF Terminal
    <3>3. CASE d \in {"finish", "fail", "stop", "drop"}
      <4>1. RunnerStatus(d) \in {"completed", "error", "cancelled"}
        BY <3>3 DEF RunnerStatus
      <4> QED  BY <2>1, <2>3, <3>1, <4>1 DEF Terminal
    <3> QED  BY <1>1, <3>2, <3>3 DEF RunnerJob
  <2> QED  BY <2>2, <2>3
<1>2. CASE d \in {"hold", "answer", "finalize", "cap", "reask"}
  <2>1. ~Terminal(r)
    BY <1>2 DEF Applies, Open, Finalizable, Resumed, Answerable, Terminal, RunnerJob
  <2>2. \E st \in {"running", "finalizing", "parked", "awaiting_input"} :
          Written(r, s, d) = [r EXCEPT !.status = st]
    BY <1>2 DEF Written, RunnerJob, Held, Finalizing, Capped, Reasked, Answered
  <2> QED  BY <2>1, <2>2 DEF Terminal
<1>3. CASE d = "checkpoint"
  BY <1>3 DEF Applies, Unreported, Written, Checkpointed, RunnerJob
<1> QED  BY <1>1, <1>2, <1>3 DEF Job

(* The ways in which the three files agree survive every operation.        *)
LEMMA RecordsStayTrue ==
    ASSUME RunInv, [Next]_vars
    PROVE  ReportsAgree' /\ NoRetroactiveCancel' /\ OneOutcomeTold'
<1> DEFINE Agree == ReportsAgree /\ NoRetroactiveCancel /\ OneOutcomeTold
<1>1. Agree /\ rec \in Record /\ receipt \in Stop /\ told \subseteq Origin \X Report
  BY DEF RunInv, TypeOK
<1>2. rec' \in Record  BY RunTypes DEF TypeOK
<1> USE DEF ReportsAgree, NoRetroactiveCancel, OneOutcomeTold
<1>3. CASE UNCHANGED <<rec, receipt, told>>
  BY <1>1, <1>3 DEF Terminal
<1>4. ASSUME NEW d \in Job, WriteAtOnce(d) PROVE Agree'
  <2>1. rec' = Written(rec, receipt, d) /\ receipt' = receipt /\ told' = told /\ rec'.acked = rec.acked
    BY <1>1, <1>4, WhatIsWritten DEF WriteAtOnce
  <2>2. CASE ~Terminal(rec) /\ receipt # NoStop /\ rec'.status = "cancelled" /\ rec'.report = receipt
    <3>1. told = {} /\ rec.acked = {} /\ receipt # "none"  BY <1>1, <2>2 DEF Stop
    <3> QED  BY <2>1, <2>2, <3>1 DEF Terminal
  <2>3. CASE ~Terminal(rec) /\ receipt = NoStop /\ Terminal(rec')
    <3>1. told = {} /\ rec.acked = {}  BY <1>1, <2>3
    <3> QED  BY <2>1, <2>3, <3>1 DEF Terminal
  <2>4. CASE ~Terminal(rec) /\ ~Terminal(rec') /\ rec'.report \in {rec.report, "none"}
    <3>1. told = {} /\ rec.acked = {} /\ rec.report = "none"  BY <1>1, <2>4
    <3> QED  BY <2>1, <2>4, <3>1 DEF Terminal
  <2>5. CASE rec.status = "cancelled" /\ rec.report = "none" /\ rec' = [rec EXCEPT !.report = "stopped"]
    <3>1. told = {} /\ rec.acked = {}  BY <1>1, <2>5
    <3>2. rec'.status = "cancelled" /\ rec'.report = "stopped"  BY <1>1, <2>5 DEF Record
    <3> QED  BY <1>1, <2>1, <2>5, <3>1, <3>2 DEF Terminal
  <2> QED  BY <1>1, <1>4, <2>1, <2>2, <2>3, <2>4, <2>5, WhatIsWritten DEF WriteAtOnce
<1>5. ASSUME NEW reason \in Reason, InstallAtOnce(reason) PROVE Agree'
  <2>1. rec' = rec /\ told' = told  BY <1>5 DEF InstallAtOnce
  <2>2. CASE receipt # NoStop
    BY <1>1, <1>5, <2>1, <2>2 DEF InstallAtOnce, Terminal
  <2>3. CASE receipt = NoStop
    BY <1>1, <1>5, <2>1, <2>3 DEF InstallAtOnce, Adopted, Cancellable, Terminal
  <2> QED  BY <2>2, <2>3
<1>6. CASE CancelAtOnce
  <2>1. receipt' = receipt /\ told' = told /\ receipt # NoStop /\ rec' = Cancelled(rec, receipt)
    BY <1>6 DEF CancelAtOnce
  <2>2. CASE rec.report = "none"
    <3>1. /\ rec'.status = "cancelled" /\ rec'.report = receipt /\ rec'.acked = {}
          /\ receipt # "none"
      BY <1>1, <2>1, <2>2 DEF Cancelled, Record, Stop
    <3> QED  BY <1>1, <2>1, <2>2, <3>1 DEF Terminal
  <2>3. CASE rec.report # "none"
    <3>1. rec' = rec  BY <2>1, <2>3 DEF Cancelled
    <3> QED  BY <1>1, <2>1, <3>1 DEF Terminal
  <2> QED  BY <2>2, <2>3
<1>7. ASSUME NEW sent \in SUBSET Origin, DeliverAtOnce(sent) PROVE Agree'
  <2>1. /\ rec' = rec /\ receipt' = receipt /\ rec.report # "none"
        /\ told' = told \cup (sent \X {rec.report})
    BY <1>7 DEF DeliverAtOnce, Due
  <2> QED  BY <1>1, <2>1 DEF Terminal
<1>8. ASSUME NEW got \in SUBSET Origin, AcknowledgeAtOnce(got) PROVE Agree'
  <2>1. /\ receipt' = receipt /\ told' = told /\ rec.report # "none"
        /\ \A o \in got : <<o, rec.report>> \in told
    BY <1>8 DEF AcknowledgeAtOnce, Due
  <2>2. rec'.status = rec.status /\ rec'.report = rec.report /\ rec'.acked = rec.acked \cup got
    BY <1>1, <1>8 DEF AcknowledgeAtOnce, Delivered, Record
  <2> QED  BY <1>1, <2>1, <2>2 DEF Terminal
<1> QED
  BY <1>3, <1>4, <1>5, <1>6, <1>7, <1>8, StepsAtOnce DEF AtOnce

(* An end stands: the operations that touch an ended run's record keep its *)
(* status, its report once there is one, and its acknowledgements.         *)
LEMMA EndsKept ==
    ASSUME RunInv, [Next]_vars, Terminal(rec)
    PROVE  /\ rec'.status = rec.status
           /\ rec.report # "none" => rec'.report = rec.report
           /\ rec.acked \subseteq rec'.acked
<1>1. ReportsAgree /\ rec \in Record /\ receipt \in Stop  BY DEF RunInv, TypeOK
<1>2. ASSUME NEW d \in Job, WriteAtOnce(d)
      PROVE  rec.status = "cancelled" /\ rec.report = "none" /\ rec' = [rec EXCEPT !.report = "stopped"]
  BY <1>1, <1>2, WhatIsWritten DEF WriteAtOnce
<1>3. CASE CancelAtOnce
  BY <1>1, <1>3 DEF CancelAtOnce, Cancellable, Cancelled, ReportsAgree, Record
<1>4. ASSUME NEW got \in SUBSET Origin, AcknowledgeAtOnce(got)
      PROVE  rec'.status = rec.status /\ rec'.report = rec.report /\ rec'.acked = rec.acked \cup got
  BY <1>1, <1>4 DEF AcknowledgeAtOnce, Delivered, Record
<1>5. (\E d \in Job : WriteAtOnce(d)) => /\ rec'.status = rec.status /\ rec'.acked = rec.acked
                                         /\ rec.report = "none"
  BY <1>1, <1>2 DEF Record
<1> QED
  BY <1>3, <1>4, <1>5, StepsAtOnce DEF AtOnce, InstallAtOnce, DeliverAtOnce

(* The invariant holds at first and is kept by every step.                 *)
THEOREM RunInductive ==
    /\ Init => RunInv
    /\ RunInv /\ [Next]_vars => RunInv'
<1>1. Init => RunInv
  <2> SUFFICES ASSUME Init PROVE RunInv
    OBVIOUS
  <2>1. LockInv /\ LockTypeOK  BY LockInductive DEF Init, LockInv
  <2>2. TypeOK
    BY <2>1, RunAssumption DEF Init, TypeOK, Record, Status, Report, Stop
  <2>3. TasksFresh  BY DEF Init, TasksFresh, Fresh
  <2>4. ReportsAgree /\ NoRetroactiveCancel /\ OneOutcomeTold
    BY DEF Init, ReportsAgree, NoRetroactiveCancel, OneOutcomeTold, Terminal
  <2> QED  BY <2>1, <2>2, <2>3, <2>4 DEF RunInv
<1>2. ASSUME RunInv, [Next]_vars PROVE RunInv'
  <2>1. LockInv'  BY <1>2, LockSteps, LockInductive DEF RunInv
  <2> QED  BY <1>2, <2>1, RunTypes, TasksStayFresh, RecordsStayTrue DEF RunInv
<1> QED  BY <1>1, <1>2

(* The inductive invariant of the run's record.                            *)
THEOREM RunInvariant == Spec => []RunInv
  BY RunInductive, PTL DEF Spec

(* Every variable keeps its type.                                          *)
THEOREM TypeCorrect == Spec => []TypeOK
<1>1. RunInv => TypeOK  BY DEF RunInv
<1> QED  BY <1>1, RunInvariant, PTL

(* Two processes are never in the critical section of one run record.      *)
THEOREM MutualExclusionHolds == Spec => []MutualExclusion
<1>1. RunInv => MutualExclusion  BY DEF RunInv, LockInv
<1> QED  BY <1>1, RunInvariant, PTL

(* The writers of a run use its lock as the lock's specification says.     *)
THEOREM UsesTheLock == Spec => LockSpec
<1>1. Init => LockInit  BY DEF Init
<1>2. [Next]_vars => [LockNext]_lockVars  BY LockSteps
<1> QED  BY <1>1, <1>2, PTL DEF Spec, LockSpec

(* The lock makes every operation on the record, the receipt and the       *)
(* conversations' acknowledgements act on the files as they are.           *)
THEOREM WritersSerialize == Spec => [][AtOnce]_<<rec, receipt, told>>
<1>1. RunInv /\ [Next]_vars => [AtOnce]_<<rec, receipt, told>>  BY StepsAtOnce
<1> QED  BY <1>1, RunInvariant, PTL DEF Spec

(* A cancellation never reaches a run that had ended.                      *)
THEOREM NoRetroactiveCancelHolds == Spec => []NoRetroactiveCancel
<1>1. RunInv => NoRetroactiveCancel  BY DEF RunInv
<1> QED  BY <1>1, RunInvariant, PTL

(* A conversation is told one outcome of a run, the one its record shows.  *)
THEOREM OneOutcomeToldHolds == Spec => []OneOutcomeTold
<1>1. RunInv => OneOutcomeTold  BY DEF RunInv
<1> QED  BY <1>1, RunInvariant, PTL

(* The first end of a run stands.                                          *)
THEOREM EndStandsHolds == Spec => EndStands
<1>1. RunInv /\ [Next]_vars =>
        [Terminal(rec) =>
           /\ rec'.status = rec.status
           /\ rec.report # "none" => rec'.report = rec.report
           /\ rec.acked \subseteq rec'.acked]_rec
  BY EndsKept
<1> QED  BY <1>1, RunInvariant, PTL DEF Spec, EndStands
=============================================================================
