------------------------ MODULE WriteAdmissionProofs ------------------------
(***************************************************************************)
(* Theorems about WriteAdmission, for any calls, tool servers, approvals   *)
(* and bounds.  The inductive invariant says who can be inside the         *)
(* admission lock, what a place in the program says about the log, who is  *)
(* past the wall, and that a call of a replayed attempt has no effect      *)
(* unless it was recorded as absent.                                       *)
(***************************************************************************)
EXTENDS WriteAdmission, TLAPS

(* A live call inside the critical section owns the row of the lock.       *)
LockHeld == \A c \in Call : pc[c] \in InLock => lock = c

(* A call is logged when it reserves, and once.                            *)
LoggedOnce ==
  /\ \A i, j \in 1..Len(writes) : writes[i] = writes[j] => i = j
  /\ \A c \in Call : pc[c] \in Waiting \cup InLock => c \notin Logged
  /\ \A c \in Call : pc[c] \in {"reserved"} \cup Dispatched => c \in Logged
  /\ \A c \in Call : landed[c] => pc[c] \in Dispatched
  /\ \A c \in Call : retry[c] # None => c \in Logged

(* A proven failure is of a call that was never dispatched, and never will *)
(* be.                                                                     *)
EffectsRuledOut == \A c \in Call : "failed" \in Recorded(c) => pc[c] = "refused"

(* Irreversible writes in the log that hit a target of d.                  *)
Rivals(d) == {e \in Standing \cap Irreversible : TargetOf[e] \cap TargetOf[d] # {}}

(* Who is past the wall, or in the log after a rival, has a consent.       *)
WallHolds ==
  /\ \A a \in Approval : claimed[a] # None => granted[a] # None
  /\ \A d \in Irreversible : pc[d] = "admitted" /\ Rivals(d) # {} => Consented(d)
  /\ \A d \in Irreversible : \A i, j \in 1..Len(writes) :
       i < j /\ writes[j] = d /\ writes[i] \in Rivals(d) => Consented(d)

(* Attempts are numbered upwards, the ledger window of the newest holds    *)
(* all of its writes, and a native call is past the lease check only under *)
(* a current lease.                                                        *)
RunShape ==
  /\ loop = "revoked" => ~lease.live
  /\ loop = "down" => \A c \in Call \ Child : pc[c] \in {"idle"} \cup Ended
  /\ \A c \in Call : attempt[c] <= lease.id
  /\ \A g \in replayed : g < lease.id
  /\ \A c \in Native : pc[c] = "admitted" => Current(c)
  /\ base.length <= Len(writes)
  /\ \A i \in 1..Len(writes) : attempt[writes[i]] = lease.id => i > base.length

(* A call that has had no effect and, under a lease that is gone, will     *)
(* have none.                                                              *)
NoEffect(c) ==
  /\ ~landed[c] /\ pc[c] \notin Dispatched
  /\ c \in Native => pc[c] \notin {"admitted", "reserved"}

(* A call of a replayed attempt is one of these, or recorded as absent.    *)
Superseded ==
  \A c \in Call : attempt[c] \in replayed => "absent" \in Recorded(c) \/ NoEffect(c)

-----------------------------------------------------------------------------
(* Types.                                                                  *)

LEMMA LoggedAreCalls ==
  ASSUME TypeOK PROVE Logged \subseteq Call
BY DEF TypeOK, Logged

LEMMA TypeInit == Init => TypeOK
BY AdmissionAssumption
   DEF AdmissionAssumption, Init, TypeOK, Place, Waiting, Snapshot

LEMMA Places ==
  /\ {"idle", "asked", "locked", "admitted", "reserved", "sent"} \subseteq Place
  /\ {"unclear", "over", "refused", "dead"} \subseteq Place
BY DEF Place, Waiting, InLock, Dispatched, Ended

LEMMA LogType ==
  ASSUME outcome \in [Call -> Seq(Terminal)], NEW c \in Call, NEW o \in Terminal,
         Log(c, o) \/ Record(c, o)
  PROVE  outcome' \in [Call -> Seq(Terminal)]
<1>1. outcome' = outcome \/ outcome' = [outcome EXCEPT ![c] = Append(outcome[c], o)]
  BY DEF Log, Record
<1>2. Append(outcome[c], o) \in Seq(Terminal)
  OBVIOUS
<1>3. QED BY <1>1, <1>2

LEMMA Terminals == {"succeeded", "failed", "absent", "orphaned"} = Terminal
BY DEF Terminal, Decisive

LEMMA TypeStep == TypeOK /\ [Next]_vars => TypeOK'
<1> SUFFICES ASSUME TypeOK, [Next]_vars PROVE TypeOK'
  OBVIOUS
<1> USE DEF TypeOK, runVars, retryVars, wallVars, effectVars
<1>0. ASSUME NEW c \in Call, NEW l \in Place, Goto(c, l) PROVE pc' \in [Call -> Place]
  BY <1>0 DEF Goto
<1>1. ASSUME NEW c \in Call, Request(c) PROVE TypeOK'
  <2>1. pc' \in [Call -> Place]       BY <1>1, <1>0, Places DEF Request
  <2>2. attempt' \in [Call -> Nat]    BY <1>1 DEF Request
  <2>3. QED BY <1>1, <2>1, <2>2 DEF Request
<1>2. ASSUME NEW c \in Call, Acquire(c) PROVE TypeOK'
  <2>1. pc' \in [Call -> Place]       BY <1>2, <1>0, Places DEF Acquire
  <2>2. QED BY <1>2, <2>1 DEF Acquire
<1>3. ASSUME NEW c \in Call, GiveUp(c) \/ Refuse(c) PROVE TypeOK'
  <2>1. pc' \in [Call -> Place]       BY <1>3, <1>0, Places DEF GiveUp, Refuse
  <2>2. lock' \in Call \cup {None}    BY <1>3 DEF GiveUp, Refuse
  <2>3. QED BY <1>3, <2>1, <2>2 DEF GiveUp, Refuse
<1>4. ASSUME NEW c \in Call, Admit(c) PROVE TypeOK'
  <2>1. pc' \in [Call -> Place]       BY <1>4, <1>0, Places DEF Admit
  <2>2. claimed' \in [Approval -> Call \cup {None}]
    BY <1>4 DEF Admit, Consents
  <2>3. QED BY <1>4, <2>1, <2>2 DEF Admit
<1>5. ASSUME NEW c \in Call, Reserve(c) PROVE TypeOK'
  <2>1. pc' \in [Call -> Place]       BY <1>5, <1>0, Places DEF Reserve
  <2>a. Usable(c) \subseteq Call       BY DEF Usable
  <2>2. retry' \in [Call -> Call \cup {None}]
    <3>1. \/ retry' = retry
          \/ \E d \in Call : retry' = [retry EXCEPT ![c] = d]
      BY <1>5, <2>a DEF Reserve
    <3>2. QED BY <3>1
  <2>3. writes' \in Seq(Call)         BY <1>5 DEF Reserve
  <2>4. /\ lock' \in Call \cup {None}
        /\ UNCHANGED <<attempt, runVars, outcome, authorized, wallVars, effectVars, crashes>>
    BY <1>5 DEF Reserve
  <2>5. QED BY <2>1, <2>2, <2>3, <2>4
<1>6. ASSUME NEW c \in Call,
             Dispatch(c) \/ Settle(c) \/ Unclear(c) \/ Orphan(c) \/ NotStarted(c)
      PROVE  TypeOK'
  <2>1. pc' \in [Call -> Place]
    BY <1>6, <1>0, Places DEF Dispatch, Settle, Unclear, Orphan, NotStarted
  <2>2. outcome' \in [Call -> Seq(Terminal)]
    BY <1>6, LogType, Terminals DEF Dispatch, Settle, Unclear, Orphan, NotStarted
  <2>3. UNCHANGED <<attempt, lock, runVars, writes, retryVars, wallVars, effectVars, crashes>>
    BY <1>6 DEF Dispatch, Settle, Unclear, Orphan, NotStarted
  <2>4. QED BY <2>1, <2>2, <2>3
<1>7. ASSUME NEW c \in Call, Land(c) \/ Authorize(c) PROVE TypeOK'
  <2>1. landed' \in [Call -> BOOLEAN] BY <1>7 DEF Land, Authorize
  <2>2. QED BY <1>7, <2>1 DEF Land, Authorize
<1>8. ASSUME NEW c \in Call, Rule(c) \/ Reconcile(c) PROVE TypeOK'
  <2>1. outcome' \in [Call -> Seq(Terminal)]
    BY <1>8, LogType, Terminals DEF Rule, Reconcile
  <2>2. ruling' \in Call \cup {None}
    BY <1>8 DEF Rule, Reconcile
  <2>3. QED BY <1>8, <2>1, <2>2 DEF Rule, Reconcile
<1>9. ASSUME RevokeForRecovery \/ BootFence PROVE TypeOK'
  BY <1>9 DEF RevokeForRecovery, BootFence
<1>10. ASSUME Replay \/ NextAttempt PROVE TypeOK'
  <2>0. lease' = [id |-> lease.id + 1, live |-> TRUE] /\ lease.id \in Nat
    BY <1>10 DEF Replay, NextAttempt, Activate
  <2>1. lease' \in [id : Nat, live : BOOLEAN]
    BY <2>0
  <2>r. replayed' \subseteq Nat
    BY <1>10, <2>0 DEF Replay, NextAttempt
  <2>2. base' \in [length : Nat, answers : [Call -> Nat]]
    <3>1. \A c \in Call : Len(outcome[c]) \in Nat
      OBVIOUS
    <3>2. Len(writes) \in Nat
      OBVIOUS
    <3>3. QED BY <1>10, <3>1, <3>2 DEF Replay, NextAttempt, Activate, Snapshot
  <2>3. /\ loop' \in {"running", "revoked", "down"}
        /\ UNCHANGED <<pc, attempt, lock, writes, outcome, retryVars, wallVars, effectVars,
                       crashes>>
    BY <1>10 DEF Replay, NextAttempt, Activate
  <2>4. QED BY <2>1, <2>2, <2>3, <2>r
<1>11. ASSUME NEW children \in BOOLEAN, Crash(children) PROVE TypeOK'
  <2>1. pc' \in [Call -> Place]       BY <1>11, Places DEF Crash
  <2>2. /\ loop' \in {"running", "revoked", "down"} /\ crashes' \in Nat
        /\ ruling' \in Call \cup {None}
    BY <1>11 DEF Crash
  <2>3. QED BY <1>11, <2>1, <2>2 DEF Crash
<1>12. ASSUME NEW a \in Approval, Approve(a) PROVE TypeOK'
  <2>1. granted' \in [Approval -> Nat \cup {None}] BY <1>12 DEF Approve
  <2>2. QED BY <1>12, <2>1 DEF Approve
<1>13. CASE UNCHANGED vars
  BY <1>13 DEF vars
<1>14. QED
  BY <1>1, <1>2, <1>3, <1>4, <1>5, <1>6, <1>7, <1>8, <1>9, <1>10, <1>11, <1>12, <1>13 DEF Next

(* Every variable of the admission keeps its type.                         *)
THEOREM TypeCorrect == Spec => []TypeOK
BY TypeInit, TypeStep, PTL DEF Spec

-----------------------------------------------------------------------------
(* The lock and the log.                                                   *)

LEMMA LockHeldStep == TypeOK /\ LockHeld /\ [Next]_vars => LockHeld'
<1> SUFFICES ASSUME TypeOK, LockHeld, [Next]_vars PROVE LockHeld'
  OBVIOUS
<1>t. None \notin Call  BY AdmissionAssumption DEF AdmissionAssumption
<1> USE DEF LockHeld, InLock, Goto
<1>p. pc \in [Call -> Place]  BY DEF TypeOK
<1>1. ASSUME NEW c \in Call, Request(c) \/ GiveUp(c) \/ Admit(c) PROVE LockHeld'
  BY <1>1, <1>p DEF Request, GiveUp, Admit
<1>2. ASSUME NEW c \in Call, Acquire(c) PROVE LockHeld'
  <2>1. \A d \in Call : pc[d] \notin InLock
    BY <1>2, <1>t DEF Acquire, Free
  <2>2. QED BY <1>2, <1>p, <2>1 DEF Acquire
<1>3. ASSUME NEW c \in Call, Refuse(c) \/ Reserve(c) PROVE LockHeld'
  <2>1. \A d \in Call : d # c => pc[d] \notin InLock
    BY <1>3 DEF Refuse, Reserve
  <2>2. QED BY <1>3, <1>p, <2>1 DEF Refuse, Reserve
<1>4. ASSUME NEW c \in Call,
             Dispatch(c) \/ Settle(c) \/ Unclear(c) \/ Orphan(c) \/ NotStarted(c)
      PROVE  LockHeld'
  BY <1>4, <1>p DEF Dispatch, Settle, Unclear, Orphan, NotStarted
<1>5. ASSUME NEW c \in Call, Land(c) \/ Rule(c) \/ Reconcile(c) \/ Authorize(c)
      PROVE  LockHeld'
  BY <1>5 DEF Land, Rule, Reconcile, Authorize
<1>6. ASSUME RevokeForRecovery \/ BootFence \/ Activate PROVE LockHeld'
  BY <1>6 DEF RevokeForRecovery, BootFence, Activate
<1>7. ASSUME NEW children \in BOOLEAN, Crash(children) PROVE LockHeld'
  BY <1>7 DEF Crash
<1>8. ASSUME NEW a \in Approval, Approve(a) PROVE LockHeld'
  BY <1>8 DEF Approve
<1>9. CASE UNCHANGED vars
  BY <1>9 DEF vars
<1>10. QED
  BY <1>1, <1>2, <1>3, <1>4, <1>5, <1>6, <1>7, <1>8, <1>9 DEF Next, Replay, NextAttempt

LEMMA ReserveLogs ==
  ASSUME TypeOK, NEW c \in Call, Reserve(c)
  PROVE  /\ Len(writes) \in Nat /\ Len(writes') = Len(writes) + 1
         /\ \A i \in 1..Len(writes) : writes'[i] = writes[i]
         /\ writes'[Len(writes) + 1] = c
         /\ Logged' = Logged \cup {c}
<1>1. writes \in Seq(Call) /\ writes' = Append(writes, c)
  BY DEF TypeOK, Reserve
<1>2. /\ Len(writes) \in Nat /\ Len(writes') = Len(writes) + 1
      /\ \A i \in 1..Len(writes) : writes'[i] = writes[i]
      /\ writes'[Len(writes) + 1] = c
  BY <1>1
<1>3. Logged' = Logged \cup {c}
  BY <1>2 DEF Logged
<1>4. QED BY <1>2, <1>3

LEMMA OthersDoNotLog ==
  ASSUME [Next]_vars, \A c \in Call : ~Reserve(c)
  PROVE  UNCHANGED <<writes, retry>> /\ Logged' = Logged
<1>1. UNCHANGED <<writes, retry>>
  BY DEF Next, Request, Acquire, GiveUp, Admit, Refuse, Dispatch, Land, Settle,
     NotStarted, Unclear, Orphan, Rule, Reconcile, Authorize, RevokeForRecovery, Replay,
     NextAttempt, Activate, BootFence, Crash, Approve, retryVars, vars
<1>2. QED BY <1>1 DEF Logged

(* Where a call can go, apart from a reservation.                          *)
LEMMA Moves ==
  ASSUME TypeOK, [Next]_vars, NEW d \in Call, ~Reserve(d)
  PROVE  /\ pc'[d] \in Waiting \cup InLock => pc[d] \in Waiting \cup InLock
         /\ pc'[d] \in {"reserved"} \cup Dispatched => pc[d] \in {"reserved"} \cup Dispatched
         /\ pc[d] \in Ended => pc'[d] = pc[d]
         /\ pc[d] \in Dispatched => pc'[d] \in Dispatched \/ (NotStarted(d) /\ ~landed[d])
<1> USE DEF Waiting, InLock, Dispatched, Ended, Goto
<1>p. pc \in [Call -> Place]  BY DEF TypeOK
<1>0. ASSUME NEW c \in Call, Request(c) \/ Acquire(c) \/ GiveUp(c)
      PROVE  \/ pc'[d] = pc[d]
             \/ pc[d] \in Waiting \cup InLock /\ pc'[d] \in InLock \cup {"asked", "refused"}
  BY <1>0, <1>p DEF Request, Acquire, GiveUp
<1>1. ASSUME NEW c \in Call, Admit(c) \/ Refuse(c)
      PROVE  \/ pc'[d] = pc[d]
             \/ pc[d] \in Waiting \cup InLock /\ pc'[d] \in InLock \cup {"asked", "refused"}
  BY <1>1, <1>p DEF Admit, Refuse
<1>r. ASSUME NEW c \in Call, Reserve(c) PROVE pc'[d] = pc[d]
  BY <1>r, <1>p DEF Reserve
<1>2. ASSUME NEW c \in Call, Dispatch(c) \/ Settle(c) \/ Unclear(c) \/ Orphan(c)
      PROVE  \/ pc'[d] = pc[d]
             \/ pc[d] = "reserved" /\ pc'[d] \in {"sent", "refused"}
             \/ pc[d] \in {"sent", "unclear"} /\ pc'[d] \in {"unclear", "over"}
  BY <1>2, <1>p DEF Dispatch, Settle, Unclear, Orphan
<1>n. ASSUME NEW c \in Call, NotStarted(c)
      PROVE  \/ pc'[d] = pc[d]
             \/ pc[d] \in {"reserved", "sent"} /\ pc'[d] = "refused" /\ NotStarted(d) /\ ~landed[d]
  BY <1>n, <1>p DEF NotStarted
<1>3. ASSUME NEW c \in Call, Land(c) \/ Rule(c) \/ Reconcile(c) \/ Authorize(c)
      PROVE  pc' = pc
  BY <1>3 DEF Land, Rule, Reconcile, Authorize
<1>4. ASSUME RevokeForRecovery \/ BootFence \/ Activate PROVE pc' = pc
  BY <1>4 DEF RevokeForRecovery, BootFence, Activate
<1>5. ASSUME NEW children \in BOOLEAN, Crash(children)
      PROVE  \/ pc'[d] = pc[d]
             \/ pc[d] \in {"sent", "unclear"} /\ pc'[d] = "over"
             \/ pc[d] \in {"asked", "reserved"} \cup InLock /\ pc'[d] = "dead"
  BY <1>5, <1>p DEF Crash
<1>6. ASSUME NEW a \in Approval, Approve(a) PROVE pc' = pc
  BY <1>6 DEF Approve
<1>7. ASSUME UNCHANGED vars PROVE pc' = pc
  BY <1>7 DEF vars
<1>8. \/ pc'[d] = pc[d]
      \/ pc[d] \in Waiting \cup InLock /\ pc'[d] \in InLock \cup {"asked", "refused", "dead"}
      \/ pc[d] = "reserved" /\ pc'[d] \in {"sent", "refused", "dead"}
      \/ pc[d] \in {"sent", "unclear"} /\ pc'[d] \in {"unclear", "over"}
      \/ pc[d] = "sent" /\ pc'[d] = "refused" /\ NotStarted(d) /\ ~landed[d]
  BY <1>0, <1>1, <1>r, <1>2, <1>n, <1>3, <1>4, <1>5, <1>6, <1>7 DEF Next, Replay, NextAttempt
<1>9. QED BY <1>8

(* Past the wall is who passed it now or was past it.                      *)
LEMMA AtWall ==
  ASSUME TypeOK, [Next]_vars, NEW d \in Call, pc'[d] = "admitted"
  PROVE  Admit(d) \/ (pc[d] = "admitted" /\ ~Request(d) /\ ~Reserve(d))
<1>p. pc \in [Call -> Place]  BY DEF TypeOK
<1>1. ~Request(d) /\ ~Reserve(d)
  BY <1>p DEF Request, Reserve, Goto
<1>2. Admit(d) \/ pc[d] = "admitted"
  BY <1>p DEF Next, Request, Acquire, GiveUp, Admit, Refuse, Reserve, Dispatch, Land,
     Settle, NotStarted, Unclear, Orphan, Rule, Reconcile, Authorize, RevokeForRecovery,
     Replay, NextAttempt, Activate, BootFence, Crash, Approve, Goto, vars
<1>3. QED BY <1>1, <1>2

LEMMA Lands ==
  ASSUME TypeOK, [Next]_vars, NEW d \in Call
  PROVE  /\ landed[d] => landed'[d]
         /\ landed'[d] => landed[d] \/ Land(d)
<1>2. CASE \E c \in Call : Land(c)
  <2> PICK c \in Call : Land(c)  BY <1>2
  <2>1. landed' = [landed EXCEPT ![c] = TRUE] /\ landed \in [Call -> BOOLEAN]
    BY DEF Land, TypeOK
  <2>2. CASE d = c
    BY <2>1, <2>2
  <2>3. CASE d # c
    BY <2>1, <2>3
  <2>4. QED BY <2>2, <2>3
<1>3. CASE \A c \in Call : ~Land(c)
  <2>1. landed' = landed
    BY <1>3 DEF Next, Request, Acquire, GiveUp, Admit, Refuse, Reserve, Dispatch, Settle,
       NotStarted, Unclear, Orphan, Rule, Reconcile, Authorize, RevokeForRecovery,
       Replay, NextAttempt, Activate, BootFence, Crash, Approve, effectVars, vars
  <2>2. QED BY <2>1
<1>4. QED BY <1>2, <1>3

LEMMA LoggedOnceStep == TypeOK /\ LoggedOnce /\ [Next]_vars => LoggedOnce'
<1> SUFFICES ASSUME TypeOK, LoggedOnce, [Next]_vars PROVE LoggedOnce'
  OBVIOUS
<1>1. CASE \E c \in Call : Reserve(c)
  <2> PICK c \in Call : Reserve(c)  BY <1>1
  <2>1. /\ pc[c] = "admitted" /\ pc' = [pc EXCEPT ![c] = "reserved"] /\ landed' = landed
        /\ pc \in [Call -> Place]
    BY DEF Reserve, Goto, effectVars, TypeOK
  <2>2. c \notin Logged
    BY <2>1 DEF LoggedOnce, InLock
  <2>3. \A i, j \in 1..Len(writes') : writes'[i] = writes'[j] => i = j
    <3> SUFFICES ASSUME NEW i \in 1..Len(writes'), NEW j \in 1..Len(writes'),
                        writes'[i] = writes'[j]
                 PROVE  i = j
      OBVIOUS
    <3>1. \A k \in 1..Len(writes) : writes[k] # c
      BY <2>2 DEF Logged
    <3>2. QED BY <3>1, ReserveLogs DEF LoggedOnce
  <2>4. \A d \in Call : retry'[d] # None => d \in Logged'
    <3>1. retry \in [Call -> Call \cup {None}]
      BY DEF TypeOK
    <3>2. \A d \in Call : d # c => retry'[d] = retry[d]
      BY <3>1 DEF Reserve
    <3>3. QED BY <3>2, ReserveLogs DEF LoggedOnce
  <2>5. QED BY <2>1, <2>2, <2>3, <2>4, ReserveLogs DEF LoggedOnce, Waiting, InLock, Dispatched
<1>2. CASE \A c \in Call : ~Reserve(c)
  <2>1. ASSUME NEW d \in Call, landed'[d] PROVE pc'[d] \in Dispatched
    <3>1. CASE landed[d]
      BY <3>1, <1>2, Moves DEF LoggedOnce
    <3>2. CASE Land(d)
      BY <3>2 DEF Land
    <3>3. QED BY <2>1, <3>1, <3>2, Lands
  <2>2. QED BY <1>2, <2>1, Moves, OthersDoNotLog DEF LoggedOnce
<1>3. QED BY <1>1, <1>2

-----------------------------------------------------------------------------
(* What a verdict rules out.                                               *)

LEMMA Logs ==
  ASSUME TypeOK, NEW c \in Call, NEW o, Log(c, o), NEW d \in Call
  PROVE  Recorded(d)' = IF d = c THEN Recorded(d) \cup {o} ELSE Recorded(d)
<1>1. outcome \in [Call -> Seq(Terminal)] /\ outcome' = [outcome EXCEPT ![c] = Append(@, o)]
  BY DEF TypeOK, Log
<1>2. CASE d = c
  <2>1. outcome[d] \in Seq(Terminal) /\ outcome'[d] = Append(outcome[d], o)
    BY <1>1, <1>2
  <2>2. /\ Len(outcome'[d]) = Len(outcome[d]) + 1 /\ Len(outcome[d]) \in Nat
        /\ \A i \in 1..Len(outcome[d]) : outcome'[d][i] = outcome[d][i]
        /\ outcome'[d][Len(outcome[d]) + 1] = o
    BY <2>1
  <2>3. Recorded(d)' = Recorded(d) \cup {o}
    BY <2>2 DEF Recorded
  <2>4. QED BY <1>2, <2>3
<1>3. CASE d # c
  BY <1>1, <1>3 DEF Recorded
<1>4. QED BY <1>2, <1>3

LEMMA Verdicts ==
  ASSUME TypeOK, [Next]_vars, NEW d \in Call
  PROVE  /\ Recorded(d) \subseteq Recorded(d)'
         /\ "failed" \in Recorded(d)' => "failed" \in Recorded(d) \/ pc'[d] = "refused"
         /\ d \notin Native /\ Decided(d) => Verdict(d)' = Verdict(d)
<1>d. "orphaned" \notin Decisive
  BY DEF Decisive
<1>p. pc \in [Call -> Place]  BY DEF TypeOK
<1>0. ASSUME outcome' = outcome
      PROVE  Recorded(d)' = Recorded(d) /\ Verdict(d)' = Verdict(d)
  BY <1>0 DEF Recorded, Verdict
<1>1. ASSUME NEW c \in Call, NEW o, Record(c, o)
      PROVE  /\ Recorded(d) \subseteq Recorded(d)'
             /\ "failed" \in Recorded(d)' => "failed" \in Recorded(d) \/ (c = d /\ o = "failed")
             /\ d \notin Native /\ Decided(d) => Verdict(d)' = Verdict(d)
  <2>1. CASE c \in Native \/ ~Decided(c)
    <3>1. Recorded(d)' = IF d = c THEN Recorded(d) \cup {o} ELSE Recorded(d)
      BY <1>1, <2>1, Logs DEF Record
    <3>2. d \notin Native /\ Decided(d) => d # c
      BY <2>1
    <3>3. QED BY <3>1, <3>2 DEF Verdict
  <2>2. CASE ~(c \in Native \/ ~Decided(c))
    BY <1>0, <1>1, <2>2 DEF Record
  <2>3. QED BY <2>1, <2>2
<1>2. CASE \E c \in Call : Dispatch(c) \/ NotStarted(c)
  <2> PICK c \in Call : Dispatch(c) \/ NotStarted(c)  BY <1>2
  <2>1. outcome' = outcome \/ (pc'[c] = "refused" /\ Record(c, "failed"))
    BY <1>p DEF Dispatch, NotStarted, Goto
  <2>2. QED BY <1>0, <1>1, <2>1
<1>3. CASE \E c \in Call : Settle(c)
  <2>1. PICK c \in Call : Record(c, "succeeded")
    BY <1>3 DEF Settle
  <2>2. QED BY <1>1, <2>1
<1>4. CASE \E c \in Call : Orphan(c)
  <2>1. PICK c \in Call : Log(c, "orphaned")
    BY <1>4 DEF Orphan
  <2>2. Recorded(d)' = IF d = c THEN Recorded(d) \cup {"orphaned"} ELSE Recorded(d)
    BY <2>1, Logs
  <2>3. Verdict(d)' = Verdict(d)
    BY <1>d, <2>2 DEF Verdict
  <2>4. QED BY <2>2, <2>3
<1>5. CASE \E c \in Call : Reconcile(c)
  <2>1. PICK c \in Call : Record(c, "absent") \/ Record(c, "succeeded")
    BY <1>5 DEF Reconcile
  <2>2. CASE Record(c, "absent")
    BY <1>1, <2>2
  <2>3. CASE Record(c, "succeeded")
    BY <1>1, <2>3
  <2>4. QED BY <2>1, <2>2, <2>3
<1>6. CASE \A c \in Call : /\ ~Dispatch(c) /\ ~Settle(c) /\ ~NotStarted(c)
                          /\ ~Orphan(c) /\ ~Reconcile(c)
  <2>1. outcome' = outcome
    BY <1>6 DEF Next, Request, Acquire, GiveUp, Admit, Refuse, Reserve, Land, Unclear, Rule,
         Authorize, RevokeForRecovery, Replay, NextAttempt, Activate, BootFence, Crash,
         Approve, vars
  <2>2. QED BY <1>0, <2>1
<1>7. QED BY <1>2, <1>3, <1>4, <1>5, <1>6

(* What failed once has failed for good.                                   *)
LEMMA FailedStays ==
  ASSUME TypeOK, [Next]_vars, NEW d \in Call, Failed(d)
  PROVE  Failed(d)'
BY Verdicts DEF Failed

LEMMA EffectsStep == TypeOK /\ EffectsRuledOut /\ [Next]_vars => EffectsRuledOut'
<1> SUFFICES ASSUME TypeOK, EffectsRuledOut, [Next]_vars, NEW d \in Call,
                    "failed" \in Recorded(d)'
             PROVE  pc'[d] = "refused"
  BY DEF EffectsRuledOut
<1>1. CASE "failed" \in Recorded(d)
  <2>1. pc[d] = "refused"
    BY <1>1 DEF EffectsRuledOut
  <2>2. ~Reserve(d)
    BY <2>1 DEF Reserve
  <2>3. QED BY <2>1, <2>2, Moves DEF Ended
<1>2. QED BY <1>1, Verdicts

-----------------------------------------------------------------------------
(* The wall.                                                               *)

LEMMA ConsentStays ==
  ASSUME TypeOK, WallHolds, [Next]_vars, NEW d \in Call, Consented(d)
  PROVE  Consented(d)'
<1>n. None \notin Call \cup Nat  BY AdmissionAssumption DEF AdmissionAssumption
<1> PICK a \in Approval :
      /\ claimed[a] = d
      /\ \E i \in 1..Len(writes) :
           i <= granted[a] /\ TargetOf[writes[i]] \cap TargetOf[d] # {}
  BY DEF Consented
<1> PICK i \in 1..Len(writes) : i <= granted[a] /\ TargetOf[writes[i]] \cap TargetOf[d] # {}
  OBVIOUS
<1>1. claimed'[a] = d
  <2>1. CASE \E c \in Call : Admit(c)
    BY <1>n, <2>1 DEF Admit, Consents, TypeOK
  <2>2. CASE \A c \in Call : ~Admit(c)
    BY <2>2 DEF Next, Request, Acquire, GiveUp, Refuse, Reserve, Dispatch, Land, Settle,
       NotStarted, Unclear, Orphan, Rule, Reconcile, Authorize, RevokeForRecovery,
       Replay, NextAttempt, Activate, BootFence, Crash, Approve, wallVars, vars
  <2>3. QED BY <2>1, <2>2
<1>2. granted'[a] = granted[a]
  <2>1. CASE \E b \in Approval : Approve(b)
    BY <1>n, <2>1 DEF Approve, TypeOK, WallHolds
  <2>2. CASE \A b \in Approval : ~Approve(b)
    BY <2>2 DEF Next, Request, Acquire, GiveUp, Admit, Refuse, Reserve, Dispatch, Land,
       Settle, NotStarted, Unclear, Orphan, Rule, Reconcile, Authorize,
       RevokeForRecovery, Replay, NextAttempt, Activate, BootFence, Crash, wallVars, vars
  <2>3. QED BY <2>1, <2>2
<1>3. i \in 1..Len(writes') /\ writes'[i] = writes[i]
  <2>1. CASE \E c \in Call : Reserve(c)
    BY <2>1, ReserveLogs
  <2>2. CASE \A c \in Call : ~Reserve(c)
    BY <2>2, OthersDoNotLog
  <2>3. QED BY <2>1, <2>2
<1>4. QED BY <1>1, <1>2, <1>3 DEF Consented

LEMMA RivalsShrink ==
  ASSUME TypeOK, [Next]_vars, NEW d \in Call, NEW e \in Logged, e \in Rivals(d)'
  PROVE  e \in Rivals(d)
BY FailedStays, LoggedAreCalls DEF Rivals, Standing

(* The call that passes the wall without a consent has no rival.           *)
LEMMA WallPassed ==
  ASSUME TypeOK, NEW d \in Irreversible, Admit(d), Rivals(d) # {}
  PROVE  Consented(d)'
<1>1. d \in Call
  BY AdmissionAssumption DEF AdmissionAssumption
<1>2. PICK e \in Rivals(d) : TRUE
  OBVIOUS
<1>3. PICK t : t \in TargetOf[e] \cap TargetOf[d]
  BY <1>2 DEF Rivals
<1>4. Duplicates(d) # {}
  BY <1>2, <1>3 DEF Duplicates, Prior, Rivals
<1>5. PICK u \in Duplicates(d) : \E a \in Consents(u) : claimed' = [claimed EXCEPT ![a] = d]
  BY <1>4 DEF Admit
<1>6. PICK a \in Consents(u) : claimed' = [claimed EXCEPT ![a] = d]
  BY <1>5
<1>7. a \in Approval /\ claimed'[a] = d
  BY <1>6 DEF Consents, TypeOK
<1>8. PICK i \in 1..Len(writes) : i <= granted[a] /\ writes[i] \in Prior(u)
  BY <1>6 DEF Consents, Fresh
<1>9. u \in TargetOf[d] /\ u \in TargetOf[writes[i]]
  BY <1>5, <1>8 DEF Duplicates, Prior
<1>10. UNCHANGED <<writes, granted>>
  BY DEF Admit
<1>11. QED BY <1>7, <1>8, <1>9, <1>10 DEF Consented

LEMMA WallStep ==
  TypeOK /\ LockHeld /\ LoggedOnce /\ WallHolds /\ [Next]_vars => WallHolds'
<1> SUFFICES ASSUME TypeOK, LockHeld, LoggedOnce, WallHolds, [Next]_vars PROVE WallHolds'
  OBVIOUS
<1>n. None \notin Call \cup Nat /\ Irreversible \subseteq Call
  BY AdmissionAssumption DEF AdmissionAssumption
<1>1. \A a \in Approval : claimed'[a] # None => granted'[a] # None
  <2> TAKE a \in Approval
  <2>1. CASE \E c \in Call : Admit(c)
    BY <2>1 DEF Admit, Consents, TypeOK, WallHolds
  <2>2. CASE \E b \in Approval : Approve(b)
    BY <1>n, <2>2 DEF Approve, TypeOK, WallHolds
  <2>3. CASE (\A c \in Call : ~Admit(c)) /\ (\A b \in Approval : ~Approve(b))
    <3>1. UNCHANGED <<claimed, granted>>
      BY <2>3 DEF Next, Request, Acquire, GiveUp, Refuse, Reserve, Dispatch, Land,
         Settle, NotStarted, Unclear, Orphan, Rule, Reconcile, Authorize,
         RevokeForRecovery, Replay, NextAttempt, Activate, BootFence, Crash, wallVars,
         vars
    <3>2. QED BY <3>1 DEF WallHolds
  <2>4. QED BY <2>1, <2>2, <2>3
<1>2. ASSUME NEW d \in Irreversible, pc'[d] = "admitted", Rivals(d)' # {}
      PROVE  Consented(d)'
  <2>1. ~Reserve(d) /\ d \in Call
    BY <1>2, <1>n DEF Reserve, Goto, TypeOK
  <2>2. CASE Admit(d)
    <3>1. Rivals(d)' = Rivals(d)
      BY <2>2 DEF Admit, Rivals, Standing, Failed, Recorded, Logged
    <3>2. QED BY <1>2, <2>2, <3>1, WallPassed
  <2>3. CASE ~Admit(d)
    <3>1. pc[d] = "admitted"
      BY <1>2, <2>1, <2>3, AtWall
    <3>2. \A c \in Call : ~Reserve(c)
      BY <2>1, <3>1 DEF LockHeld, InLock, Reserve
    <3>3. Rivals(d)' \subseteq Rivals(d)
      BY <2>1, <3>2, OthersDoNotLog, RivalsShrink DEF Rivals, Standing
    <3>4. QED BY <1>2, <2>1, <3>1, <3>3, ConsentStays DEF WallHolds
  <2>4. QED BY <2>2, <2>3
<1>3. ASSUME NEW d \in Irreversible, NEW i \in 1..Len(writes'), NEW j \in 1..Len(writes'),
             i < j, writes'[j] = d, writes'[i] \in Rivals(d)'
      PROVE  Consented(d)'
  <2>0. d \in Call  BY <1>n
  <2>1. CASE \A c \in Call : ~Reserve(c)
    <3>1. UNCHANGED writes  BY <2>1, OthersDoNotLog
    <3>2. writes[i] \in Rivals(d)
      BY <1>3, <2>0, <3>1, RivalsShrink DEF Logged
    <3>3. QED BY <1>3, <2>0, <3>1, <3>2, ConsentStays DEF WallHolds
  <2>2. CASE \E c \in Call : Reserve(c)
    <3> PICK c \in Call : Reserve(c)  BY <2>2
    <3>1. i \in 1..Len(writes) /\ writes'[i] = writes[i]
      BY <1>3, ReserveLogs
    <3>2. writes[i] \in Rivals(d)
      BY <1>3, <2>0, <3>1, RivalsShrink DEF Logged
    <3>3. CASE j \in 1..Len(writes)
      BY <1>3, <2>0, <3>1, <3>2, <3>3, ConsentStays, ReserveLogs DEF WallHolds
    <3>4. CASE j = Len(writes) + 1
      <4>1. c = d /\ pc[d] = "admitted"
        BY <1>3, <3>4, ReserveLogs DEF Reserve
      <4>2. QED BY <2>0, <3>2, <4>1, ConsentStays DEF WallHolds
    <3>5. QED BY <3>3, <3>4, ReserveLogs
  <2>3. QED BY <2>1, <2>2
<1>4. QED BY <1>1, <1>2, <1>3 DEF WallHolds

-----------------------------------------------------------------------------
(* Attempts and replays.                                                   *)

LEMMA Requests ==
  ASSUME TypeOK, [Next]_vars, NEW d \in Call
  PROVE  attempt'[d] = attempt[d] \/ (Request(d) /\ attempt'[d] \in 1..lease.id)
<1>1. CASE \E c \in Call : Request(c)
  <2> PICK c \in Call : Request(c)  BY <1>1
  <2>1. PICK g \in 1..lease.id : attempt' = [attempt EXCEPT ![c] = g]
    BY DEF Request
  <2>2. c = d => Request(d)
    OBVIOUS
  <2>3. attempt'[d] = IF c = d THEN g ELSE attempt[d]
    BY <2>1 DEF TypeOK
  <2>4. QED BY <2>2, <2>3
<1>2. CASE \A c \in Call : ~Request(c)
  <2>1. attempt' = attempt
    BY <1>2 DEF Next, Acquire, GiveUp, Admit, Refuse, Reserve, Dispatch, Land, Settle,
       NotStarted, Unclear, Orphan, Rule, Reconcile, Authorize, RevokeForRecovery,
       Replay, NextAttempt, Activate, BootFence, Crash, Approve, vars
  <2>2. QED BY <2>1
<1>3. QED BY <1>1, <1>2

(* What moves the run.                                                     *)
LEMMA RunMoves ==
  ASSUME TypeOK, [Next]_vars
  PROVE  \/ /\ UNCHANGED <<lease, base, replayed>>
            /\ loop' = loop \/ (Crash(FALSE) /\ loop' = "down")
         \/ RevokeForRecovery \/ BootFence \/ NextAttempt \/ Replay
<1>1. ASSUME NEW c \in Call,
             \/ Request(c) \/ Acquire(c) \/ GiveUp(c) \/ Admit(c) \/ Refuse(c) \/ Reserve(c)
             \/ Dispatch(c) \/ Land(c) \/ Settle(c) \/ Unclear(c) \/ Orphan(c)
             \/ NotStarted(c) \/ Rule(c) \/ Reconcile(c) \/ Authorize(c)
      PROVE  UNCHANGED runVars
  BY <1>1 DEF Request, Acquire, GiveUp, Admit, Refuse, Reserve, Dispatch, Land, Settle,
              NotStarted, Unclear, Orphan, Rule, Reconcile, Authorize
<1>2. ASSUME NEW children \in BOOLEAN, Crash(children)
      PROVE  /\ UNCHANGED <<lease, base, replayed>>
             /\ loop' = loop \/ (Crash(FALSE) /\ loop' = "down")
  <2>1. CASE children = TRUE
    BY <1>2, <2>1 DEF Crash
  <2>2. CASE children = FALSE
    <3>1. Crash(FALSE)  BY <1>2, <2>2
    <3>2. UNCHANGED <<lease, base, replayed>> /\ loop' = "down"
      BY <3>1 DEF Crash
    <3>3. QED BY <3>1, <3>2
  <2>3. QED BY <2>1, <2>2
<1>3. ASSUME NEW a \in Approval, Approve(a) PROVE UNCHANGED runVars
  BY <1>3 DEF Approve
<1>4. ASSUME UNCHANGED vars PROVE UNCHANGED runVars
  BY <1>4 DEF vars
<1>5. UNCHANGED runVars => UNCHANGED <<lease, base, replayed, loop>>
  BY DEF runVars
<1>6. QED BY <1>1, <1>2, <1>3, <1>4, <1>5 DEF Next

(* A move of a call that leaves the run and the log alone.                 *)
LEMMA RunShapeStep ==
  TypeOK /\ LockHeld /\ LoggedOnce /\ RunShape /\ [Next]_vars => RunShape'
<1> SUFFICES ASSUME TypeOK, LockHeld, LoggedOnce, RunShape, [Next]_vars PROVE RunShape'
  OBVIOUS
<1>n. Native \subseteq Call \ Child /\ None \notin Call
  BY AdmissionAssumption DEF AdmissionAssumption
<1>0. lease \in [id : Nat, live : BOOLEAN] /\ attempt \in [Call -> Nat]
  BY DEF TypeOK
<1>1. \/ UNCHANGED <<lease, loop>> \/ lease' = [lease EXCEPT !.live = FALSE]
      \/ (UNCHANGED lease /\ loop' = "down")
      \/ loop = "revoked" /\ loop' = "running" /\ lease' = [id |-> lease.id + 1, live |-> TRUE]
  BY RunMoves DEF RevokeForRecovery, BootFence, NextAttempt, Replay, Activate
<1>2. loop' = "revoked" => ~lease'.live
  BY <1>0, <1>1, RunMoves DEF RunShape, RevokeForRecovery, BootFence, NextAttempt, Replay, Activate
<1>3. ASSUME loop' = "down", NEW c \in Call \ Child
      PROVE  pc'[c] \in {"idle"} \cup Ended
  <2>1. CASE loop = "down"
    BY <1>3, <2>1 DEF RunShape, Next, Request, Acquire, GiveUp, Admit, Refuse, Reserve,
       Dispatch, Land, Settle, NotStarted, Unclear, Orphan, Rule, Reconcile, Authorize,
       RevokeForRecovery, Replay, NextAttempt, Activate, BootFence, Crash, Approve, Goto,
       TypeOK, Ended, InLock, vars
  <2>2. CASE loop # "down"
    <3>1. Crash(FALSE)
      BY <1>3, <2>2, RunMoves DEF RevokeForRecovery, BootFence, NextAttempt, Replay, Activate
    <3>2. QED BY <1>3, <3>1 DEF Crash, TypeOK, Place, Waiting, InLock, Dispatched, Ended
  <2>3. QED BY <2>1, <2>2
<1>4. ASSUME NEW c \in Call PROVE attempt'[c] <= lease'.id
  BY <1>0, <1>1, Requests DEF RunShape
<1>5. ASSUME NEW g \in replayed' PROVE g < lease'.id
  <2>1. CASE UNCHANGED replayed
    BY <1>0, <1>1, <2>1 DEF RunShape, TypeOK
  <2>2. CASE Replay
    BY <1>0, <2>2 DEF RunShape, TypeOK, Replay, Activate
  <2>3. QED BY <2>1, <2>2, RunMoves DEF RevokeForRecovery, BootFence, NextAttempt
<1>6. ASSUME NEW c \in Native, pc'[c] = "admitted" PROVE Current(c)'
  <2>0. c \in Call \ Child  BY <1>n
  <2>1. CASE Admit(c)
    BY <2>1 DEF Admit, Current, runVars
  <2>2. CASE ~Admit(c)
    <3>1. pc[c] = "admitted" /\ ~Request(c) /\ ~Reserve(c)
      BY <1>6, <2>0, <2>2, AtWall
    <3>2. Current(c) /\ lease.live
      BY <3>1 DEF RunShape, Current
    <3>3. ~Free
      BY <2>0, <3>1, <1>n DEF LockHeld, InLock, Free
    <3>4. loop # "down" /\ loop # "revoked"
      BY <2>0, <3>1, <3>2 DEF RunShape, Ended
    <3>5. UNCHANGED lease
      BY <3>3, <3>4, RunMoves DEF RevokeForRecovery, BootFence, NextAttempt, Replay, Activate
    <3>6. attempt'[c] = attempt[c]
      BY <2>0, <3>1, Requests
    <3>7. QED BY <3>2, <3>5, <3>6 DEF Current
  <2>3. QED BY <2>1, <2>2
<1>7. ASSUME NEW i \in 1..Len(writes'), attempt'[writes'[i]] = lease'.id PROVE i > base'.length
  <2>0. writes \in Seq(Call) /\ writes' \in Seq(Call) /\ base.length \in Nat
    BY TypeStep DEF TypeOK
  <2>1. CASE \E c \in Call : Reserve(c)
    <3> PICK c \in Call : Reserve(c)  BY <2>1
    <3>1. UNCHANGED <<attempt, lease, base>>  BY DEF Reserve, runVars
    <3>2. QED BY <1>7, <2>0, <3>1, ReserveLogs DEF RunShape
  <2>2. CASE \A c \in Call : ~Reserve(c)
    <3>1. UNCHANGED writes /\ writes[i] \in Logged /\ writes[i] \in Call
      BY <1>7, <2>0, <2>2, OthersDoNotLog DEF Logged
    <3>2. ~Request(writes[i])
      BY <3>1 DEF Request, LoggedOnce, Waiting
    <3>3. attempt'[writes[i]] = attempt[writes[i]]
      BY <3>1, <3>2, Requests
    <3>4. CASE UNCHANGED base /\ lease'.id = lease.id
      BY <1>7, <2>0, <3>1, <3>3, <3>4 DEF RunShape
    <3>5. CASE Activate
      BY <1>0, <1>7, <3>1, <3>3, <3>5 DEF RunShape, Activate
    <3>6. QED
      BY <1>0, <3>4, <3>5, RunMoves DEF RevokeForRecovery, BootFence, NextAttempt, Replay
  <2>3. QED BY <2>1, <2>2
<1>9. base'.length <= Len(writes')
  <2>0. writes \in Seq(Call) /\ base.length \in Nat /\ Len(writes) \in Nat
    BY DEF TypeOK
  <2>1. CASE \E c \in Call : Reserve(c)
    BY <2>0, <2>1, ReserveLogs DEF RunShape, Reserve, runVars
  <2>2. CASE \A c \in Call : ~Reserve(c)
    <3>1. UNCHANGED writes  BY <2>2, OthersDoNotLog
    <3>2. CASE UNCHANGED base
      BY <2>0, <3>1, <3>2 DEF RunShape
    <3>3. CASE Activate
      BY <2>0, <3>1, <3>3 DEF Activate, Snapshot
    <3>4. QED BY <3>2, <3>3, RunMoves DEF RevokeForRecovery, BootFence, NextAttempt, Replay
  <2>3. QED BY <2>1, <2>2
<1>10. QED BY <1>2, <1>3, <1>4, <1>5, <1>6, <1>7, <1>9 DEF RunShape

(* Nothing of an attempt is under way, or was done, when it is replayed,   *)
(* but what was recorded as absent.                                        *)
LEMMA ReplayIsSafe ==
  ASSUME TypeOK, LoggedOnce, EffectsRuledOut, RunShape, Replay,
         NEW c \in Call, attempt[c] = lease.id
  PROVE  "absent" \in Recorded(c) \/ NoEffect(c)
<1>1. CASE c \in Logged
  <2>1. PICK i \in 1..Len(writes) : writes[i] = c
    BY <1>1 DEF Logged
  <2>2. i \in base.length + 1..Len(writes)
    BY <2>1 DEF RunShape, TypeOK
  <2>3. Failed(c)
    BY <2>1, <2>2 DEF Replay, ReplaySafe
  <2>4. CASE "absent" \in Recorded(c)
    BY <2>4
  <2>5. CASE "failed" \in Recorded(c)
    <3>1. pc[c] = "refused"
      BY <2>5 DEF EffectsRuledOut
    <3>2. pc[c] \notin Dispatched
      BY <3>1 DEF Dispatched
    <3>3. QED BY <3>1, <3>2 DEF NoEffect, LoggedOnce
  <2>6. QED BY <2>3, <2>4, <2>5 DEF Failed
<1>2. CASE c \notin Logged
  <2>1. ~landed[c] /\ pc[c] \notin {"reserved"} \cup Dispatched
    BY <1>2 DEF LoggedOnce
  <2>2. c \in Native => pc[c] # "admitted"
    BY DEF RunShape, Replay, Activate, Current
  <2>3. QED BY <2>1, <2>2 DEF NoEffect
<1>3. QED BY <1>1, <1>2

LEMMA SupersededStep ==
  TypeOK /\ LoggedOnce /\ EffectsRuledOut /\ RunShape /\ Superseded /\ [Next]_vars
  => Superseded'
<1> SUFFICES ASSUME TypeOK, LoggedOnce, EffectsRuledOut, RunShape, Superseded,
                    [Next]_vars, NEW c \in Call, attempt'[c] \in replayed'
             PROVE  "absent" \in Recorded(c)' \/ NoEffect(c)'
  BY DEF Superseded
<1>0. pc \in [Call -> Place] /\ lease \in [id : Nat, live : BOOLEAN]
      /\ attempt \in [Call -> Nat] /\ landed \in [Call -> BOOLEAN]
  BY DEF TypeOK
<1>1. CASE Replay
  <2>1. UNCHANGED <<pc, attempt, outcome, landed>> /\ replayed' = replayed \cup {lease.id}
    BY <1>1 DEF Replay, Activate, effectVars
  <2>2. "absent" \in Recorded(c) \/ NoEffect(c)
    <3>1. CASE attempt[c] = lease.id
      BY <1>1, <3>1, ReplayIsSafe
    <3>2. CASE attempt[c] # lease.id
      BY <2>1, <3>2 DEF Superseded
    <3>3. QED BY <3>1, <3>2
  <2>3. QED BY <2>1, <2>2 DEF Recorded, NoEffect
<1>2. CASE Request(c)
  <2>1. ~landed'[c] /\ pc'[c] = "asked"
    BY <1>0, <1>2 DEF Request, LoggedOnce, Waiting, Dispatched, Goto, effectVars
  <2>2. QED BY <2>1 DEF NoEffect, Dispatched
<1>3. CASE ~Replay /\ ~Request(c)
  <2>1. replayed' = replayed
    BY <1>3, RunMoves DEF RevokeForRecovery, BootFence, NextAttempt
  <2>2. attempt'[c] = attempt[c]
    BY <1>3, Requests
  <2>3. ~Current(c)
    BY <1>0, <2>1, <2>2 DEF RunShape, Current
  <2>4. CASE "absent" \in Recorded(c)
    BY <2>4, Verdicts
  <2>5. CASE NoEffect(c)
    <3>1. ~landed'[c]
      BY <2>5, Lands DEF NoEffect, Land
    <3>2. ~Admit(c)
      BY <2>3 DEF Admit
    <3>3. pc'[c] \notin Dispatched /\ (c \in Native => pc'[c] \notin {"admitted", "reserved"})
      BY <1>0, <2>3, <2>5, <3>2 DEF NoEffect, Dispatched, Next, Request, Acquire, GiveUp,
         Admit, Refuse, Reserve, Dispatch, Land, Settle, NotStarted, Unclear, Orphan,
         Rule, Reconcile, Authorize, RevokeForRecovery, Replay, NextAttempt, Activate,
         BootFence, Crash, Approve, Goto, vars
    <3>4. QED BY <3>1, <3>3 DEF NoEffect
  <2>6. QED BY <2>1, <2>2, <2>4, <2>5 DEF Superseded
<1>4. QED BY <1>1, <1>2, <1>3

-----------------------------------------------------------------------------
(* The theorems.                                                           *)

IInv == /\ TypeOK
        /\ LockHeld
        /\ LoggedOnce
        /\ RunShape
        /\ WallHolds
        /\ EffectsRuledOut
        /\ Superseded

LEMMA IInvInit == Init => IInv
<1> SUFFICES ASSUME Init PROVE IInv
  OBVIOUS
<1>1. TypeOK  BY TypeInit
<1>2. writes = <<>> /\ Len(writes) = 0 /\ 1..Len(writes) = {} /\ Logged = {}
  BY DEF Init, Logged
<1>3. LockHeld
  BY DEF Init, LockHeld, InLock
<1>l. LoggedOnce
  <2>1. \A c \in Call : pc[c] = "idle" /\ ~landed[c] /\ retry[c] = None
    BY DEF Init
  <2>2. QED BY <1>2, <2>1 DEF LoggedOnce, Dispatched
<1>4. RunShape
  <2>1. /\ lease.id = 1 /\ lease.live /\ loop = "running" /\ replayed = {}
        /\ base.length = 0
        /\ \A c \in Call : pc[c] = "idle" /\ attempt[c] = 1
    BY <1>2 DEF Init, Snapshot
  <2>2. Native \subseteq Call  BY AdmissionAssumption DEF AdmissionAssumption
  <2>3. \A c \in Native : pc[c] # "admitted"
    BY <2>1, <2>2
  <2>4. \A g \in replayed : g < lease.id
    BY <2>1
  <2>5. base.length <= Len(writes)
    BY <1>2, <2>1
  <2>6. \A c \in Call : attempt[c] <= lease.id
    BY <2>1
  <2>7. \A i \in 1..Len(writes) : attempt[writes[i]] = lease.id => i > base.length
    BY <1>2
  <2>8. loop # "revoked" /\ loop # "down"
    BY <2>1
  <2>9. /\ loop = "revoked" => ~lease.live
        /\ loop = "down" => \A c \in Call \ Child : pc[c] \in {"idle"} \cup Ended
    BY <2>8
  <2>a. \A c \in Native : pc[c] = "admitted" => Current(c)
    BY <2>3
  <2>b. QED BY <2>4, <2>5, <2>6, <2>7, <2>9, <2>a, Zenon DEF RunShape
<1>5. WallHolds
  <2>1. \A a \in Approval : claimed[a] = None
    BY DEF Init
  <2>2. \A d \in Call : pc[d] = "idle"
    BY DEF Init
  <2>3. Irreversible \subseteq Call  BY AdmissionAssumption DEF AdmissionAssumption
  <2>4. QED BY <1>2, <2>1, <2>2, <2>3 DEF WallHolds
<1>6. EffectsRuledOut /\ Superseded
  <2>1. \A c \in Call : outcome[c] = <<>> /\ replayed = {}
    BY DEF Init
  <2>2. \A c \in Call : Recorded(c) = {}
    BY <2>1 DEF Recorded
  <2>3. QED BY <2>1, <2>2 DEF EffectsRuledOut, Superseded
<1>7. QED BY <1>1, <1>3, <1>l, <1>4, <1>5, <1>6 DEF IInv

LEMMA IInvStep == IInv /\ [Next]_vars => IInv'
BY TypeStep, LockHeldStep, LoggedOnceStep, RunShapeStep, WallStep, EffectsStep, SupersededStep
   DEF IInv

(* The inductive invariant.                                                *)
THEOREM AdmissionInvariant == Spec => []IInv
BY IInvInit, IInvStep, PTL DEF Spec

(* The lock excludes: of the calls of live processes, whose places are the *)
(* ones inside the critical section, at most one is there.                 *)
THEOREM OneInAdmission ==
  Spec => [](\A c, d \in Call : pc[c] \in InLock /\ pc[d] \in InLock => c = d)
<1>1. IInv => \A c, d \in Call : pc[c] \in InLock /\ pc[d] \in InLock => c = d
  BY DEF IInv, LockHeld
<1>2. QED BY <1>1, AdmissionInvariant, PTL

(* No irreversible write repeats another's effect without a consent of     *)
(* its own, but where a read-back gave the other up before it landed.      *)
THEOREM NoUnconsentedResendHolds == Spec => []NoUnconsentedResend
<1>1. IInv => NoUnconsentedResend
  <2> SUFFICES ASSUME IInv, NEW c \in Call, NEW d \in Call, NEW t \in Target,
                      HitAgain(c, d, t), ~Misjudged(c)
               PROVE  Consented(d)
    BY DEF NoUnconsentedResend
  <2>1. landed[c] /\ pc[c] \in Dispatched /\ c \in Logged
    BY DEF IInv, HitAgain, LoggedOnce
  <2>2. "failed" \notin Recorded(c)
    BY <2>1 DEF IInv, EffectsRuledOut, Dispatched
  <2>3. c \in Standing
    BY <2>1, <2>2 DEF Standing, Failed, Misjudged
  <2>4. c \in Rivals(d)
    BY <2>3 DEF HitAgain, Rivals
  <2>5. QED BY <2>4 DEF IInv, HitAgain, WallHolds
<1>2. QED BY <1>1, AdmissionInvariant, PTL

(* An attempt whose work was started over had no effect, but by a call     *)
(* that a read-back gave up before it landed.                              *)
THEOREM NoReplayAfterWriteHolds == Spec => []NoReplayAfterWrite
<1>1. IInv => NoReplayAfterWrite
  BY DEF IInv, Superseded, NoEffect, NoReplayAfterWrite, Misjudged
<1>2. QED BY <1>1, AdmissionInvariant, PTL

(* An authorization is spent by one reserved write, for any number of      *)
(* retries that find it.                                                   *)
THEOREM RetryOnceHolds == Spec => []RetryOnce
<1>1. IInv /\ RetryOnce /\ [Next]_vars => RetryOnce'
  <2> SUFFICES ASSUME IInv, RetryOnce, [Next]_vars PROVE RetryOnce'
    OBVIOUS
  <2>t. TypeOK  BY DEF IInv
  <2>1. CASE \E c \in Call : Reserve(c)
    <3> PICK c \in Call : Reserve(c)  BY <2>1
    <3>1. Logged' = Logged \cup {c}
      BY <2>t, ReserveLogs
    <3>2. retry \in [Call -> Call \cup {None}] /\ Logged \subseteq Call
      BY <2>t, LoggedAreCalls DEF TypeOK
    <3>3. c \notin Logged
      BY DEF IInv, LoggedOnce, InLock, Reserve
    <3>4. \A e \in Logged : retry'[e] = retry[e]
      BY <3>2, <3>3 DEF Reserve
    <3>5. \A e \in Logged : retry'[c] = retry[e] => retry'[c] = None
      <4>1. CASE Usable(c) = {}
        <5>1. retry[c] = None
          BY <3>3 DEF IInv, LoggedOnce
        <5>2. QED BY <4>1, <5>1 DEF Reserve
      <4>2. CASE Usable(c) # {}
        <5>1. PICK d \in Usable(c) : retry' = [retry EXCEPT ![c] = d]
          BY <4>2 DEF Reserve
        <5>2. retry'[c] = d /\ \A e \in Logged : retry[e] # d
          BY <5>1, <3>2 DEF Usable
        <5>3. QED BY <5>2
      <4>3. QED BY <4>1, <4>2
    <3>6. QED BY <3>1, <3>4, <3>5 DEF RetryOnce
  <2>2. CASE \A c \in Call : ~Reserve(c)
    BY <2>2, OthersDoNotLog DEF RetryOnce
  <2>3. QED BY <2>1, <2>2
<1>2. Init => RetryOnce
  BY DEF Init, RetryOnce, Logged
<1>3. QED BY <1>1, <1>2, AdmissionInvariant, PTL DEF Spec

(* Outside the native lane a verdict stands, however answers, crashes,     *)
(* late orphans and reconciliations race.                                  *)
THEOREM VerdictStandsHolds == Spec => VerdictStands
<1>1. TypeOK /\ [Next]_vars
      => [\A c \in Call \ Native : Decided(c) => Verdict(c)' = Verdict(c)]_outcome
  BY Verdicts
<1>2. QED BY <1>1, TypeCorrect, PTL DEF Spec, VerdictStands

=============================================================================
