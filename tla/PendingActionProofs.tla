------------------------ MODULE PendingActionProofs ------------------------
(***************************************************************************)
(* Theorems about PendingAction, for any processes, cards and payloads and *)
(* any number of crashes.  The inductive invariant says who owns the two   *)
(* locks, how far the record a process read can be from the file, and what *)
(* a claim and a call handed over say about the file.                      *)
(***************************************************************************)
EXTENDS PendingAction, TLAPS

CardJob == {"link", "relink", "amend", "mark", "press", "deny", "retire"}
FreeJob == {"policy", "cancel", "dedupe"}
Frame == [at : Place, do : Job, card : Card \cup {NoCard}, rec : Record]

(* A process knows the card, the job or the result its place is about.     *)
Formed(m) ==
    /\ m.at \in {"drawn", "settle", "publish"} => m.card \in Card
    /\ m.at \in {"want", "held"} => m.do \in CardJob \cup FreeJob \cup {"claim"}
    /\ m.at \in {"want", "held"} /\ m.do \in CardJob => m.card \in Card
    /\ m.at \in {"answered", "result"} => m.do \in {"executed", "failed"}

(* Who is inside a lock owns it.                                           *)
Locked(p) ==
    /\ me[p].at \in {"held", "both"} => tx = p
    /\ me[p].at \in {"both", "result"} => ex = p

(* The record read under a lock is the file, except that a result may have *)
(* ended an action that was read as executing.                             *)
Fresh(p) ==
    /\ me[p].at = "held" => me[p].rec = rec \/ me[p].rec.status = "executing"
    /\ me[p].at = "both" => me[p].rec = rec
    /\ me[p].at = "publish" /\ me[p].rec.status = "cancelled" => rec.status = "cancelled"

(* Between its claim and its result a process owns the action.             *)
Owns(p) ==
    /\ me[p].at \in {"armed", "answered", "result"} =>
         rec.status = "executing" /\ rec.claim = p
    /\ me[p].at \in {"armed", "result"} => me[p].rec = rec
    /\ me[p].at = "armed" => sent = <<>>

Kept ==
    /\ SentOnce
    /\ sent # <<>> => rec.status \in {"executing", "executed", "failed"}
    /\ rec.status = "executing" => Authorized(rec)
    /\ ConsentedPayload
    /\ \A c \in Card : closed[c] = "action_cancelled" => rec.status = "cancelled"

Shape == TypeOK /\ \A p \in Proc : Formed(me[p])

IInv ==
    /\ Shape
    /\ \A p \in Proc : Locked(p) /\ Fresh(p) /\ Owns(p)
    /\ Kept

-----------------------------------------------------------------------------
(* Types.                                                                  *)

LEMMA IdleType == Idle \in Frame /\ Formed(Idle)
BY FirstAssumption DEF Idle, Frame, Formed, Place, Job, Record, Status, Queued

LEMMA ShapeInit == Init => Shape
<1> SUFFICES ASSUME Init PROVE Shape
  OBVIOUS
<1>1. rec \in Record
  BY FirstAssumption DEF Init, Queued, Record, Status
<1>2. card \in [Card -> Row]
  BY FirstAssumption DEF Init, Row, Verdict, Denial
<1>3. me \in [Proc -> Frame] /\ \A p \in Proc : Formed(me[p])
  BY IdleType DEF Init
<1>4. sent \in Seq(Call) /\ crashes \in 0..MaxCrash
  BY BoundAssumption DEF Init
<1>5. QED BY <1>1, <1>2, <1>3, <1>4 DEF Init, Shape, TypeOK, Frame

\* An update does not touch an action that is not open.
LEMMA ClosedUpdate ==
  ASSUME NEW r, NEW c, NEW do \in CardJob \cup FreeJob, ~Open(r)
  PROVE  Updated(do, r, c) = r
BY DEF CardJob, FreeJob, Open, Waiting, Updated, Linked, Relinked, Relinkable,
       Amended, Marked, PolicyMarked, Denied, Cancelled, Deduped, Retired

LEMMA UpdateType ==
  ASSUME TypeOK, NEW r \in Record, NEW do \in CardJob \cup FreeJob, NEW c,
         do \in CardJob => c \in Card
  PROVE  Updated(do, r, c) \in Record
<1>1. CASE do = "link"     BY <1>1 DEF Updated, Linked, Record, Status, CardJob
<1>2. CASE do = "relink"   BY <1>2 DEF Updated, Relinked, Record, Status, CardJob
<1>3. CASE do = "amend"
  <2>1. c \in Card /\ card[c].pins \in Payload
    BY <1>3 DEF CardJob, TypeOK, Row
  <2>2. QED BY <1>3, <2>1 DEF Updated, Amended, Record, Status
<1>4. CASE do \in {"mark", "press"}
  BY <1>4 DEF Updated, Marked, Record, Status, CardJob
<1>5. CASE do = "policy"   BY <1>5 DEF Updated, PolicyMarked, Record, Status
<1>6. CASE do = "deny"     BY <1>6 DEF Updated, Denied, Record, Status, CardJob
<1>7. CASE do = "cancel"   BY <1>7 DEF Updated, Cancelled, Record, Status
<1>8. CASE do = "dedupe"   BY <1>8 DEF Updated, Deduped, Record, Status
<1>9. CASE do = "retire"   BY <1>9 DEF Updated, Retired, Record, Status
<1>10. QED BY <1>1, <1>2, <1>3, <1>4, <1>5, <1>6, <1>7, <1>8, <1>9 DEF CardJob, FreeJob

\* An update neither claims nor ends a run.
LEMMA UpdateStatus ==
  ASSUME NEW r \in Record, NEW do \in CardJob \cup FreeJob, NEW c,
         Updated(do, r, c) # r
  PROVE  Updated(do, r, c).status \notin {"executing", "executed", "failed"}
BY DEF CardJob, FreeJob, Open, Waiting, Updated, Linked, Relinked, Relinkable,
       Amended, Marked, PolicyMarked, Denied, Cancelled, Deduped, Retired, Record

LEMMA ClaimType ==
  ASSUME NEW r \in Record, NEW p \in Proc
  PROVE  /\ Claimed(r, p) \in Record
         /\ Claimed(r, p) # r => r.status = "approved"
         /\ Claimed(r, p) # r /\ Claimed(r, p).status # "failed" =>
              /\ Claimed(r, p) = [r EXCEPT !.status = "executing", !.claim = p]
              /\ Authorized(r)
BY DEF Claimed, Record, Status

LEMMA SettleType ==
  ASSUME NEW r \in Record, NEW p \in Proc, NEW s \in {"executed", "failed"}
  PROVE  Settled(r, p, s) \in Record
BY DEF Settled, Record, Status

\* Every step of a process leaves it in a well-formed frame.
LEMMA FrameStep ==
  ASSUME Shape, NEW p \in Proc, NEW m \in Frame, Formed(m), me' = [me EXCEPT ![p] = m]
  PROVE  me' \in [Proc -> Frame] /\ \A q \in Proc : Formed(me'[q])
BY DEF Shape, TypeOK, Frame

LEMMA GoFrame ==
  ASSUME NEW place \in Place, NEW do \in Job, NEW c \in Card \cup {NoCard}
  PROVE  [at |-> place, do |-> do, card |-> c, rec |-> Idle.rec] \in Frame
BY FirstAssumption DEF Frame, Idle, Queued, Record, Status

LEMMA Jobs ==
  /\ CardJob \cup FreeJob \cup {"claim", "none", "executed", "failed"} \subseteq Job
  /\ Place = {"idle", "drawn", "settle", "want", "held", "publish", "start",
              "both", "armed", "answered", "result"}
BY DEF CardJob, FreeJob, Job, Place

LEMMA GoShape ==
  ASSUME Shape, NEW p \in Proc, NEW place \in Place, NEW do \in Job,
         NEW c \in Card \cup {NoCard}, Go(p, place, do, c),
         Formed([at |-> place, do |-> do, card |-> c, rec |-> Idle.rec])
  PROVE  me' \in [Proc -> Frame] /\ \A q \in Proc : Formed(me'[q])
BY GoFrame, FrameStep DEF Go

LEMMA RestShape ==
  ASSUME Shape, NEW p \in Proc, Rest(p)
  PROVE  me' \in [Proc -> Frame] /\ \A q \in Proc : Formed(me'[q])
BY IdleType, FrameStep DEF Rest

\* A process keeps its job and card while it moves on with a record it read.
LEMMA ReadShape ==
  ASSUME Shape, NEW p \in Proc, NEW place \in Place, NEW r \in Record,
         Formed([me[p] EXCEPT !.at = place]),
         me' = [me EXCEPT ![p].at = place, ![p].rec = r]
  PROVE  me' \in [Proc -> Frame] /\ \A q \in Proc : Formed(me'[q])
<1>0. me[p] \in Frame
  BY DEF Shape, TypeOK, Frame
<1> DEFINE m == [at |-> place, do |-> me[p].do, card |-> me[p].card, rec |-> r]
<1>1. m \in Frame
  BY <1>0 DEF Frame
<1>2. Formed(m)
  BY <1>0 DEF Formed, Frame
<1>3. me' = [me EXCEPT ![p] = m]
  <2>1. me \in [Proc -> Frame]
    BY DEF Shape, TypeOK, Frame
  <2>2. DOMAIN me' = Proc /\ \A q \in Proc : q # p => me'[q] = me[q]
    BY <2>1
  <2>3. me'[p].at = place /\ me'[p].rec = r /\ me'[p].do = me[p].do /\ me'[p].card = me[p].card
    BY <2>1 DEF Frame
  <2>4. me'[p] = m
    BY <2>1, <2>3 DEF Frame
  <2>5. QED BY <2>1, <2>2, <2>4
<1>4. QED BY <1>1, <1>2, <1>3, FrameStep

LEMMA ProceedShape ==
  ASSUME Shape, NEW p \in Proc, NEW r \in Record, NEW locked \in BOOLEAN,
         me[p].at \in {"want", "held"}, Proceed(p, r, locked)
  PROVE  me' \in [Proc -> Frame] /\ \A q \in Proc : Formed(me'[q])
<1>0. Formed(me[p]) /\ me[p] \in Frame
  BY DEF Shape, TypeOK, Frame
<1>1. CASE me[p].do = "retire"
  <2>1. Formed([me[p] EXCEPT !.at = "publish"])
    BY <1>0, <1>1 DEF Formed, CardJob, Frame
  <2>2. me' = [me EXCEPT ![p].at = "publish", ![p].rec = r]
    BY <1>1 DEF Proceed
  <2>3. QED BY <2>1, <2>2, ReadShape, Jobs
<1>2. CASE me[p].do = "amend" /\ Go(p, "want", "mark", me[p].card)
  <2>1. me[p].card \in Card
    BY <1>0, <1>2 DEF Formed, CardJob
  <2>2. Formed([at |-> "want", do |-> "mark", card |-> me[p].card, rec |-> Idle.rec])
    BY <2>1 DEF Formed, CardJob
  <2>3. QED BY <1>2, <2>1, <2>2, GoShape, Jobs DEF CardJob
<1>3. CASE Go(p, "start", "none", me[p].card)
  <2>1. Formed([at |-> "start", do |-> "none", card |-> me[p].card, rec |-> Idle.rec])
    BY DEF Formed
  <2>2. me[p].card \in Card \cup {NoCard}
    BY <1>0 DEF Frame
  <2>3. QED BY <1>3, <2>1, <2>2, GoShape, Jobs
<1>4. CASE Rest(p)
  BY <1>4, RestShape
<1>5. QED BY <1>1, <1>2, <1>3, <1>4 DEF Proceed

LEMMA ShapeStep == Shape /\ [Next]_vars => Shape'
<1> SUFFICES ASSUME Shape, [Next]_vars PROVE Shape'
  OBVIOUS
<1> DEFINE MeOK == me' \in [Proc -> Frame] /\ \A q \in Proc : Formed(me'[q])
           RestOK == /\ rec' \in Record /\ card' \in [Card -> Row]
                     /\ closed' \in [Card -> {"open", "action_cancelled", "already_owned"}]
                     /\ tx' \in Proc \cup {Free, Dead} /\ ex' \in Proc \cup {Free, Dead}
                     /\ sent' \in Seq(Call) /\ crashes' \in 0..MaxCrash
<1>0. SUFFICES MeOK /\ RestOK
  BY DEF Shape, TypeOK, Frame
<1>t. /\ rec \in Record /\ card \in [Card -> Row]
      /\ closed \in [Card -> {"open", "action_cancelled", "already_owned"}]
      /\ tx \in Proc \cup {Free, Dead} /\ ex \in Proc \cup {Free, Dead}
      /\ sent \in Seq(Call) /\ crashes \in 0..MaxCrash
      /\ me \in [Proc -> Frame] /\ \A q \in Proc : Formed(me[q])
  BY DEF Shape, TypeOK, Frame
<1>j. \A c \in Card : c \in Card \cup {NoCard}
  OBVIOUS
<1>s. ASSUME NEW p \in Proc, Step(p) \/ Execute(p) PROVE MeOK /\ RestOK
  <2>p. me[p] \in Frame /\ Formed(me[p])
    BY <1>t
  <2>1. CASE Register(p)
    <3>1. me[p].card \in Card /\ me[p].rec.payload \in Payload
      BY <2>1, <2>p DEF Register, At, Formed, Frame, Record
    <3>2. Go(p, "want", LinkJob, me[p].card) /\ LinkJob \in {"link", "relink"}
      BY <2>1 DEF Register, LinkJob
    <3>3. Formed([at |-> "want", do |-> LinkJob, card |-> me[p].card, rec |-> Idle.rec])
      BY <3>1, <3>2 DEF Formed, CardJob
    <3>4. MeOK
      BY <3>1, <3>2, <3>3, GoShape, Jobs DEF CardJob
    <3>5. card' \in [Card -> Row]
      BY <1>t, <2>1, <3>1 DEF Register, Row, Verdict
    <3>6. QED BY <1>t, <2>1, <3>4, <3>5 DEF Register
  <2>2. CASE Reconcile(p)
    <3>1. me[p].card \in Card
      BY <2>2, <2>p DEF Reconcile, At, Formed
    <3>2. \/ Rest(p)
          \/ \E do \in {"retire", "deny", "amend", "mark"} : Go(p, "want", do, me[p].card)
      BY <2>2 DEF Reconcile
    <3>3. \A do \in {"retire", "deny", "amend", "mark"} :
            Formed([at |-> "want", do |-> do, card |-> me[p].card, rec |-> Idle.rec])
      BY <3>1 DEF Formed, CardJob
    <3>4. MeOK
      BY <3>1, <3>2, <3>3, GoShape, RestShape, Jobs DEF CardJob
    <3>5. QED BY <1>t, <2>2, <3>4 DEF Reconcile
  <2>3. CASE Acquire(p)
    <3>1. Formed([me[p] EXCEPT !.at = "held"])
      BY <2>3, <2>p DEF Acquire, At, Formed, Frame
    <3>2. MeOK
      BY <1>t, <2>3, <3>1, ReadShape, Jobs DEF Acquire
    <3>3. QED BY <1>t, <2>3, <3>2 DEF Acquire
  <2>4. CASE Update(p)
    <3>0. me[p].at = "held" /\ me[p].do \in CardJob \cup FreeJob /\ me[p].rec \in Record
      BY <2>4, <2>p DEF Update, At, Formed, Frame
    <3>1. me[p].do \in CardJob => me[p].card \in Card
      BY <3>0, <2>p DEF Formed
    <3>2. Updated(me[p].do, me[p].rec, me[p].card) \in Record
      BY <3>0, <3>1, UpdateType DEF Shape
    <3>3. MeOK
      BY <2>4, <3>0, <3>2, ProceedShape DEF Update
    <3>4. rec' \in Record
      BY <1>t, <2>4, <3>2 DEF Update, Write
    <3>5. QED BY <1>t, <2>4, <3>3, <3>4 DEF Update
  <2>5. CASE GiveUp(p)
    <3>1. MeOK
      BY <1>t, <2>5, ProceedShape DEF GiveUp, At
    <3>2. QED BY <1>t, <2>5, <3>1 DEF GiveUp
  <2>6. CASE Publish(p)
    <3>1. me[p].card \in Card
      BY <2>6, <2>p DEF Publish, At, Formed
    <3>2. closed' \in [Card -> {"open", "action_cancelled", "already_owned"}]
      BY <1>t, <2>6, <3>1 DEF Publish
    <3>3. QED BY <1>t, <2>6, <3>2, RestShape DEF Publish
  <2>7. CASE Skip(p)
    BY <1>t, <2>7, RestShape DEF Skip
  <2>8. CASE AcquireBoth(p)
    <3>1. Formed([me[p] EXCEPT !.at = "both"])
      BY <2>p DEF Formed, Frame
    <3>2. MeOK
      BY <1>t, <2>8, <3>1, ReadShape, RestShape, Jobs DEF AcquireBoth
    <3>3. QED BY <1>t, <2>8, <3>2 DEF AcquireBoth
  <2>9. CASE Claim(p)
    <3>0. me[p].rec \in Record
      BY <2>p DEF Frame
    <3>1. Claimed(me[p].rec, p) \in Record
      BY <3>0, ClaimType
    <3>2. Formed([me[p] EXCEPT !.at = "armed"])
      BY <2>p DEF Formed, Frame
    <3>3. MeOK
      BY <2>9, <3>1, <3>2, ReadShape, RestShape, Jobs DEF Claim
    <3>4. rec' \in Record
      BY <1>t, <2>9, <3>1 DEF Claim, Write
    <3>5. QED BY <1>t, <2>9, <3>3, <3>4 DEF Claim
  <2>10. CASE Dispatch(p) \/ Refuse(p)
    <3>1. \E s \in {"executed", "failed"} : Go(p, "answered", s, NoCard)
      BY <2>10 DEF Dispatch, Refuse
    <3>2. \A s \in {"executed", "failed"} :
            Formed([at |-> "answered", do |-> s, card |-> NoCard, rec |-> Idle.rec])
      BY DEF Formed
    <3>3. MeOK
      BY <3>1, <3>2, GoShape, Jobs
    <3>4. sent' \in Seq(Call)
      <4>1. [payload |-> me[p].rec.payload, card |-> me[p].rec.proof,
             strict |-> me[p].rec.strict] \in Call
        BY <2>p DEF Frame, Record, Call
      <4>2. QED BY <1>t, <2>10, <4>1 DEF Dispatch, Refuse
    <3>5. QED BY <1>t, <2>10, <3>3, <3>4 DEF Dispatch, Refuse
  <2>11. CASE AcquireResult(p)
    <3>1. Formed([me[p] EXCEPT !.at = "result"])
      BY <2>11, <2>p DEF AcquireResult, At, Formed, Frame
    <3>2. MeOK
      BY <1>t, <2>11, <3>1, ReadShape, RestShape, Jobs DEF AcquireResult
    <3>3. QED BY <1>t, <2>11, <3>2 DEF AcquireResult
  <2>12. CASE RecordResult(p)
    <3>1. me[p].rec \in Record /\ me[p].do \in {"executed", "failed"}
      BY <2>12, <2>p DEF RecordResult, At, Formed, Frame
    <3>2. rec' \in Record
      BY <1>t, <2>12, <3>1, SettleType DEF RecordResult, Write
    <3>3. QED BY <1>t, <2>12, <3>2, RestShape DEF RecordResult
  <2>13. CASE Execute(p)
    <3>1. Formed([at |-> "want", do |-> "claim", card |-> NoCard, rec |-> Idle.rec])
      BY DEF Formed, CardJob
    <3>2. MeOK
      BY <2>13, <3>1, GoShape, Jobs DEF Execute
    <3>3. QED BY <1>t, <2>13, <3>2 DEF Execute
  <2>14. QED BY <1>s, <2>1, <2>2, <2>3, <2>4, <2>5, <2>6, <2>7, <2>8, <2>9, <2>10, <2>11,
                <2>12, <2>13 DEF Step
<1>1. ASSUME NEW p \in Proc, NEW c \in Card, Draw(p, c) PROVE MeOK /\ RestOK
  <2> DEFINE m == [at |-> "drawn", do |-> "none", card |-> c, rec |-> rec]
  <2>1. m \in Frame /\ Formed(m)
    BY <1>t, Jobs DEF Frame, Formed
  <2>2. me' = [me EXCEPT ![p] = m]
    BY <1>1 DEF Draw
  <2>3. MeOK
    BY <2>1, <2>2, FrameStep
  <2>4. QED BY <1>t, <1>1, <2>3 DEF Draw
<1>2. ASSUME NEW p \in Proc, NEW c \in Card,
             Reregister(p, c) \/ Resume(p, c) \/ Press(p, c)
      PROVE  MeOK /\ RestOK
  <2>1. \/ \E do \in {"link", "relink", "press"} : Go(p, "want", do, c)
        \/ Go(p, "settle", "none", c) \/ Go(p, "start", "none", c)
    BY <1>2 DEF Reregister, LinkJob, Resume, Press
  <2>2. /\ \A do \in {"link", "relink", "press"} :
             Formed([at |-> "want", do |-> do, card |-> c, rec |-> Idle.rec])
        /\ \A place \in {"settle", "start"} :
             Formed([at |-> place, do |-> "none", card |-> c, rec |-> Idle.rec])
    BY DEF Formed, CardJob
  <2>3. MeOK
    BY <2>1, <2>2, GoShape, Jobs DEF CardJob
  <2>4. QED BY <1>t, <1>2, <2>3 DEF Reregister, Resume, Press
<1>3. ASSUME NEW p \in Proc, NEW c \in Card,
             \/ Retire(p, c)
             \/ \E v \in Denial \cup {"approved"} : Decide(p, c, v)
             \/ \E v \in Payload : Edit(p, c, v)
      PROVE  MeOK /\ RestOK
  <2>1. Go(p, "settle", "none", c)
    BY <1>3 DEF Retire, Decide, Edit
  <2>2. Formed([at |-> "settle", do |-> "none", card |-> c, rec |-> Idle.rec])
    BY DEF Formed
  <2>3. MeOK
    BY <2>1, <2>2, GoShape, Jobs
  <2>4. card' \in [Card -> Row]
    <3>1. CASE Retire(p, c)
      BY <1>t, <3>1 DEF Retire, Row, Verdict
    <3>2. ASSUME NEW v \in Denial \cup {"approved"}, Decide(p, c, v) PROVE card' \in [Card -> Row]
      BY <1>t, <3>2 DEF Decide, Row, Verdict
    <3>3. ASSUME NEW v \in Payload, Edit(p, c, v) PROVE card' \in [Card -> Row]
      BY <1>t, <3>3 DEF Edit, Row, Verdict, Record
    <3>4. QED BY <1>3, <3>1, <3>2, <3>3
  <2>5. QED BY <1>t, <1>3, <2>3, <2>4 DEF Retire, Decide, Edit
<1>4. ASSUME NEW p \in Proc, NEW do \in {"policy", "cancel", "dedupe"}, Ask(p, do)
      PROVE  MeOK /\ RestOK
  <2>1. Formed([at |-> "want", do |-> do, card |-> NoCard, rec |-> Idle.rec])
    BY DEF Formed, CardJob, FreeJob
  <2>2. MeOK
    BY <1>4, <2>1, GoShape, Jobs DEF Ask, FreeJob
  <2>3. QED BY <1>t, <1>4, <2>2 DEF Ask
<1>5. ASSUME NEW p \in Proc, Crash(p) PROVE MeOK /\ RestOK
  <2>1. crashes' \in 0..MaxCrash
    BY <1>t, <1>5, BoundAssumption DEF Crash
  <2>2. QED BY <1>t, <1>5, <2>1, RestShape DEF Crash
<1>6. CASE UNCHANGED vars
  BY <1>t, <1>6 DEF vars
<1>7. QED BY <1>s, <1>1, <1>2, <1>3, <1>4, <1>5, <1>6 DEF Next

\* Every variable keeps its type, for any processes, cards and payloads.
THEOREM TypeCorrect == Spec => []TypeOK
<1>1. Shape => TypeOK
  BY DEF Shape
<1>2. QED BY <1>1, ShapeInit, ShapeStep, PTL DEF Spec

-----------------------------------------------------------------------------
(* The inductive invariant.                                                *)

Hold == \A p \in Proc : Locked(p) /\ Fresh(p) /\ Owns(p)

Calm == {"idle", "drawn", "settle", "want", "start"}

LEMMA InvInit == Init => IInv
<1> SUFFICES ASSUME Init PROVE IInv
  OBVIOUS
<1>1. \A p \in Proc : me[p].at = "idle"
  BY DEF Init, Idle
<1>2. \A p \in Proc : Locked(p) /\ Fresh(p) /\ Owns(p)
  BY <1>1 DEF Locked, Fresh, Owns
<1>3. rec.status = "queued" /\ sent = <<>> /\ \A c \in Card : closed[c] = "open"
  BY DEF Init, Queued
<1>4. QED BY <1>2, <1>3, ShapeInit DEF IInv, Kept, SentOnce, ConsentedPayload

\* An approved row never changes.
LEMMA ApprovedStays ==
  ASSUME Shape, [Next]_vars
  PROVE  \A c \in Card : card[c].verdict = "approved" => card'[c] = card[c]
<1>1. ASSUME NEW p \in Proc, Step(p) \/ Execute(p) \/ Crash(p)
      PROVE  \A c \in Card : card[c].verdict = "approved" => card'[c] = card[c]
  BY <1>1 DEF Shape, TypeOK, Step, Register, Reconcile, Acquire, Update, GiveUp, Publish, Skip,
     AcquireBoth, Claim, Dispatch, Refuse, AcquireResult, RecordResult, Execute, Crash
<1>2. ASSUME NEW p \in Proc, NEW d \in Card,
             \/ Draw(p, d) \/ Reregister(p, d) \/ Retire(p, d) \/ Resume(p, d) \/ Press(p, d)
             \/ \E v \in Denial \cup {"approved"} : Decide(p, d, v)
             \/ \E v \in Payload : Edit(p, d, v)
      PROVE  \A c \in Card : card[c].verdict = "approved" => card'[c] = card[c]
  BY <1>2 DEF Shape, TypeOK, Draw, Reregister, Retire, Resume, Press, Decide, Edit
<1>3. ASSUME NEW p \in Proc, \E do \in {"policy", "cancel", "dedupe"} : Ask(p, do)
      PROVE  card' = card
  BY <1>3 DEF Ask
<1>4. CASE UNCHANGED vars
  BY <1>4 DEF vars
<1>5. QED BY <1>1, <1>2, <1>3, <1>4 DEF Next

\* What is kept about the calls handed over does not depend on new rows.
LEMMA SameFile ==
  ASSUME IInv, UNCHANGED <<rec, sent>>,
         \A c \in Card : card[c].verdict = "approved" => card'[c] = card[c],
         \A c \in Card : closed'[c] = "action_cancelled" =>
             closed[c] = "action_cancelled" \/ rec.status = "cancelled"
  PROVE  Kept'
<1>0. rec \in Record /\ sent \in Seq(Call)
  BY DEF IInv, Shape, TypeOK
<1>1. Authorized(rec) => Authorized(rec)'
  BY <1>0 DEF Authorized, Record
<1>2. ConsentedPayload'
  BY <1>0 DEF IInv, Kept, ConsentedPayload
<1>3. QED BY <1>0, <1>1, <1>2 DEF IInv, Kept, SentOnce

\* A process that goes somewhere outside the locks disturbs nothing.
LEMMA CalmStep ==
  ASSUME IInv, NEW p \in Proc, NEW m, m.at \in Calm, me' = [me EXCEPT ![p] = m],
         UNCHANGED <<rec, tx, ex, sent>>
  PROVE  Hold'
<1> SUFFICES ASSUME NEW q \in Proc PROVE (Locked(q) /\ Fresh(q) /\ Owns(q))'
  BY DEF Hold
<1>1. Locked(q) /\ Fresh(q) /\ Owns(q) /\ me \in [Proc -> Frame]
  BY DEF IInv, Shape, TypeOK, Frame
<1>2. CASE q = p
  <2>1. me'[q] = m
    BY <1>1, <1>2
  <2>2. QED BY <2>1 DEF Calm, Locked, Fresh, Owns
<1>3. CASE q # p
  <2>1. me'[q] = me[q]
    BY <1>1, <1>3
  <2>2. QED BY <1>1, <2>1 DEF Locked, Fresh, Owns
<1>4. QED BY <1>2, <1>3

LEMMA GoCalm ==
  ASSUME IInv, NEW p \in Proc, NEW place \in Calm, NEW do, NEW c, Go(p, place, do, c),
         UNCHANGED <<rec, tx, ex, sent>>
  PROVE  Hold'
BY CalmStep DEF Go

LEMMA RestCalm ==
  ASSUME IInv, NEW p \in Proc, Rest(p), UNCHANGED <<rec, tx, ex, sent>>
  PROVE  Hold'
<1>1. Idle.at \in Calm
  BY DEF Idle, Calm
<1>2. QED BY <1>1, CalmStep DEF Rest

LEMMA ReadPlace ==
  ASSUME me \in [Proc -> Frame], NEW p \in Proc, NEW place, NEW r,
         me' = [me EXCEPT ![p].at = place, ![p].rec = r]
  PROVE  me'[p].at = place /\ me'[p].rec = r
BY DEF Frame

LEMMA ProceedPlace ==
  ASSUME me \in [Proc -> Frame], NEW p \in Proc, NEW r, NEW locked \in BOOLEAN,
         Proceed(p, r, locked)
  PROVE  \/ me'[p].at = "publish" /\ me'[p].rec = r
         \/ me'[p].at \in {"want", "start", "idle"}
<1>1. CASE me[p].do = "retire"
  <2>1. me' = [me EXCEPT ![p].at = "publish", ![p].rec = r]
    BY <1>1 DEF Proceed
  <2>2. QED BY <2>1 DEF Frame
<1>2. CASE \E place \in {"want", "start"}, do \in Job, c \in Card \cup {NoCard} : Go(p, place, do, c)
  BY <1>2 DEF Go
<1>3. CASE Rest(p)
  BY <1>3 DEF Rest, Idle
<1>4. me[p].card \in Card \cup {NoCard}
  BY DEF Frame
<1>5. QED BY <1>1, <1>2, <1>3, <1>4, Jobs DEF Proceed, CardJob

\* Steps of a process under the locks, and its claim and result.
LEMMA UpdateStep ==
  ASSUME IInv, NEW p \in Proc, Update(p)
  PROVE  /\ Hold' /\ (UNCHANGED rec \/ (Open(rec) /\ sent = <<>>))
         /\ rec' # rec => rec'.status \notin {"executing", "executed", "failed"}
<1> DEFINE r == me[p].rec
           new == Updated(me[p].do, r, me[p].card)
<1>0. /\ me \in [Proc -> Frame] /\ Formed(me[p]) /\ r \in Record /\ rec \in Record
      /\ me[p].at = "held" /\ me[p].do \in CardJob \cup FreeJob
  BY DEF IInv, Shape, TypeOK, Frame, Update, At, Formed
<1>1. tx = p /\ (r = rec \/ r.status = "executing")
  BY <1>0 DEF IInv, Locked, Fresh
<1>2. CASE new = r
  <2>1. UNCHANGED <<rec, ex, sent>> /\ tx' = Free
    BY <1>2 DEF Update, Write
  <2>2. ASSUME NEW q \in Proc PROVE (Locked(q) /\ Fresh(q) /\ Owns(q))'
    <3>1. Locked(q) /\ Fresh(q) /\ Owns(q)
      BY DEF IInv
    <3>2. CASE q = p
      <4>1. \/ me'[p].at = "publish" /\ me'[p].rec = r
            \/ me'[p].at \in {"want", "start", "idle"}
        BY <1>0, <1>2, ProceedPlace DEF Update
      <4>2. r.status = "cancelled" => rec.status = "cancelled"
        BY <1>1
      <4>3. QED BY <2>1, <3>2, <4>1, <4>2 DEF Locked, Fresh, Owns
    <3>3. CASE q # p
      <4>1. me'[q] = me[q]
        BY <1>0, <3>3 DEF Update, Proceed, Go, Rest
      <4>2. me[q].at \notin {"held", "both"}
        BY <1>1, <3>1, <3>3 DEF Locked
      <4>3. QED BY <2>1, <3>1, <4>1, <4>2 DEF Locked, Fresh, Owns
    <3>4. QED BY <3>2, <3>3
  <2>3. QED BY <2>1, <2>2 DEF Hold
<1>3. CASE new # r
  <2>1. Open(r)
    BY <1>0, <1>3, ClosedUpdate
  <2>2. r = rec /\ rec.status \notin Terminal \cup {"executing"}
    BY <1>1, <2>1 DEF Open, Waiting, Terminal
  <2>3. rec' = new /\ tx' = Free /\ UNCHANGED <<ex, sent>>
    BY <1>3 DEF Update, Write
  <2>4. new.status \notin {"executing", "executed", "failed"}
    BY <1>0, <1>3, UpdateStatus
  <2>5. sent = <<>>
    BY <2>2 DEF IInv, Kept, Terminal
  <2>6. ASSUME NEW q \in Proc PROVE (Locked(q) /\ Fresh(q) /\ Owns(q))'
    <3>1. Locked(q) /\ Fresh(q) /\ Owns(q)
      BY DEF IInv
    <3>2. CASE q = p
      <4>1. \/ me'[p].at = "publish" /\ me'[p].rec = new
            \/ me'[p].at \in {"want", "start", "idle"}
        BY <1>0, ProceedPlace DEF Update
      <4>2. QED BY <2>3, <3>2, <4>1 DEF Locked, Fresh, Owns
    <3>3. CASE q # p
      <4>1. me'[q] = me[q]
        BY <1>0, <3>3 DEF Update, Proceed, Go, Rest
      <4>2. me[q].at \notin {"held", "both", "armed", "answered", "result"}
        BY <1>1, <2>2, <3>1, <3>3 DEF Locked, Owns
      <4>3. ~(me[q].at = "publish" /\ me[q].rec.status = "cancelled")
        BY <2>2, <3>1 DEF Fresh, Terminal
      <4>4. QED BY <2>3, <3>1, <4>1, <4>2, <4>3 DEF Locked, Fresh, Owns
    <3>4. QED BY <3>2, <3>3
  <2>7. QED BY <2>1, <2>2, <2>3, <2>4, <2>5, <2>6 DEF Hold
<1>4. QED BY <1>2, <1>3

LEMMA AcquireStep ==
  ASSUME IInv, NEW p \in Proc, Acquire(p) \/ AcquireBoth(p) \/ AcquireResult(p)
  PROVE  Hold'
<1> SUFFICES ASSUME NEW q \in Proc PROVE (Locked(q) /\ Fresh(q) /\ Owns(q))'
  BY DEF Hold
<1>0. /\ me \in [Proc -> Frame] /\ Locked(q) /\ Fresh(q) /\ Owns(q)
      /\ Locked(p) /\ Owns(p) /\ UNCHANGED <<rec, sent>>
  BY DEF IInv, Shape, TypeOK, Frame, Acquire, AcquireBoth, AcquireResult
<1>1. CASE Acquire(p)
  <2>1. tx \in {Free, Dead} /\ tx' = p /\ ex' = ex /\ me[q].at \notin {"held", "both"}
    BY <1>0, <1>1, ValueAssumption DEF Acquire, Takeable, Locked
  <2>2. CASE q = p
    <3>1. me'[p].at = "held" /\ me'[p].rec = rec
      BY <1>0, <1>1 DEF Acquire, Frame
    <3>2. QED BY <1>0, <2>1, <2>2, <3>1 DEF Locked, Fresh, Owns
  <2>3. CASE q # p
    <3>1. me'[q] = me[q]
      BY <1>0, <1>1, <2>3 DEF Acquire
    <3>2. QED BY <1>0, <2>1, <3>1 DEF Locked, Fresh, Owns
  <2>4. QED BY <2>2, <2>3
<1>2. CASE AcquireBoth(p)
  <2>0. tx = p
    BY <1>0, <1>2 DEF AcquireBoth, At, Locked
  <2>1. CASE ex = Free
    <3>1. ex' = p /\ tx' = tx /\ me[q].at \notin {"both", "result"}
      BY <1>0, <1>2, <2>1, ValueAssumption DEF AcquireBoth, Locked
    <3>2. CASE q = p
      <4>1. me'[p].at = "both" /\ me'[p].rec = rec
        BY <1>0, <1>2, <2>1 DEF AcquireBoth, Frame
      <4>2. QED BY <1>0, <2>0, <3>1, <3>2, <4>1 DEF Locked, Fresh, Owns
    <3>3. CASE q # p
      <4>1. me'[q] = me[q]
        BY <1>0, <1>2, <2>1, <3>3 DEF AcquireBoth
      <4>2. QED BY <1>0, <3>1, <4>1 DEF Locked, Fresh, Owns
    <3>4. QED BY <3>2, <3>3
  <2>2. CASE ex # Free
    <3>1. ex' = ex /\ tx' = Free /\ Rest(p)
      BY <1>2, <2>2 DEF AcquireBoth
    <3>2. CASE q = p
      <4>1. me'[p].at = "idle"
        BY <1>0, <3>1 DEF Rest, Idle
      <4>2. QED BY <3>2, <4>1 DEF Locked, Fresh, Owns
    <3>3. CASE q # p
      <4>1. me'[q] = me[q] /\ me[q].at \notin {"held", "both"}
        BY <1>0, <2>0, <3>1, <3>3 DEF Rest, Locked
      <4>2. QED BY <1>0, <3>1, <4>1 DEF Locked, Fresh, Owns
    <3>4. QED BY <3>2, <3>3
  <2>3. QED BY <2>1, <2>2
<1>3. CASE AcquireResult(p)
  <2>1. CASE ex = Free
    <3>1. ex' = p /\ tx' = tx /\ me[q].at \notin {"both", "result"}
      BY <1>0, <1>3, <2>1, ValueAssumption DEF AcquireResult, Locked
    <3>2. CASE q = p
      <4>1. me'[p].at = "result" /\ me'[p].rec = rec /\ me[p].at = "answered"
        BY <1>0, <1>3, <2>1 DEF AcquireResult, At, Frame
      <4>2. QED BY <1>0, <3>1, <3>2, <4>1 DEF Locked, Fresh, Owns
    <3>3. CASE q # p
      <4>1. me'[q] = me[q]
        BY <1>0, <1>3, <2>1, <3>3 DEF AcquireResult
      <4>2. QED BY <1>0, <3>1, <4>1 DEF Locked, Fresh, Owns
    <3>4. QED BY <3>2, <3>3
  <2>2. CASE ex # Free
    BY <1>3, <2>2, RestCalm DEF AcquireResult, Hold
  <2>3. QED BY <2>1, <2>2
<1>4. QED BY <1>1, <1>2, <1>3

LEMMA ClaimStep ==
  ASSUME IInv, NEW p \in Proc, Claim(p)
  PROVE  /\ Hold'
         /\ \/ UNCHANGED rec
            \/ /\ rec.status = "approved" /\ sent = <<>>
               /\ \/ rec'.status = "failed"
                  \/ rec' = [rec EXCEPT !.status = "executing", !.claim = p] /\ Authorized(rec)
<1> DEFINE r == me[p].rec
           new == Claimed(r, p)
<1>0. /\ me \in [Proc -> Frame] /\ rec \in Record /\ me[p].at = "both"
      /\ tx = p /\ ex = p /\ r = rec
  BY DEF IInv, Shape, TypeOK, Frame, Claim, At, Locked, Fresh
<1>1. rec' = new /\ tx' = Free /\ ex' = Free /\ sent' = sent
  BY <1>0 DEF Claim, Write
<1>2. new # r => r.status = "approved"
  BY <1>0, ClaimType
<1>3. new # rec => sent = <<>>
  BY <1>0, <1>2 DEF IInv, Kept
<1>4. ASSUME NEW q \in Proc PROVE (Locked(q) /\ Fresh(q) /\ Owns(q))'
  <2>1. Locked(q) /\ Fresh(q) /\ Owns(q)
    BY DEF IInv
  <2>2. CASE q = p
    <3>1. CASE new # r /\ new.status = "executing"
      <4>0. me' = [me EXCEPT ![p].at = "armed", ![p].rec = new]
        BY <3>1 DEF Claim
      <4>1. me'[p].at = "armed" /\ me'[p].rec = new
        BY <1>0, <4>0, ReadPlace
      <4>2. new.claim = p
        <5>1. r \in Record
          BY <1>0
        <5>2. new = [r EXCEPT !.status = "executing", !.claim = p]
          BY <3>1, <5>1, ClaimType
        <5>3. QED BY <5>1, <5>2 DEF Record
      <4>3. rec'.status = "executing" /\ rec'.claim = p /\ me'[p].rec = rec' /\ sent' = <<>>
        BY <1>0, <1>1, <1>3, <3>1, <4>1, <4>2
      <4>4. QED BY <2>2, <4>1, <4>3 DEF Locked, Fresh, Owns
    <3>2. CASE ~(new # r /\ new.status = "executing")
      <4>0. Rest(p)
        BY <3>2 DEF Claim
      <4>1. me'[p].at = "idle"
        BY <1>0, <4>0 DEF Rest, Idle
      <4>2. QED BY <2>2, <4>1 DEF Locked, Fresh, Owns
    <3>3. QED BY <3>1, <3>2
  <2>3. CASE q # p
    <3>1. me'[q] = me[q]
      BY <1>0, <2>3 DEF Claim, Rest
    <3>2. me[q].at \notin {"held", "both", "result"}
      BY <1>0, <2>1, <2>3 DEF Locked
    <3>3. CASE new = rec
      BY <1>1, <2>1, <3>1, <3>2, <3>3 DEF Locked, Fresh, Owns
    <3>4. CASE new # rec
      <4>1. rec.status = "approved"
        BY <1>0, <1>2, <3>4
      <4>2. /\ me[q].at \notin {"armed", "answered"}
            /\ ~(me[q].at = "publish" /\ me[q].rec.status = "cancelled")
        BY <2>1, <4>1 DEF Owns, Fresh
      <4>3. QED BY <3>1, <3>2, <4>2 DEF Locked, Fresh, Owns
    <3>5. QED BY <3>3, <3>4
  <2>4. QED BY <2>2, <2>3
<1>5. QED
  <2>1. CASE new = rec
    BY <1>1, <1>4, <2>1 DEF Hold
  <2>2. CASE new # rec /\ new.status = "failed"
    BY <1>0, <1>1, <1>2, <1>3, <1>4, <2>2 DEF Hold
  <2>3. CASE new # rec /\ new.status # "failed"
    BY <1>0, <1>1, <1>2, <1>3, <1>4, <2>3, ClaimType DEF Hold
  <2>4. QED BY <2>1, <2>2, <2>3

LEMMA HandOver ==
  ASSUME IInv, NEW p \in Proc, Dispatch(p) \/ Refuse(p)
  PROVE  Hold' /\ Kept'
<1> DEFINE call == [payload |-> rec.payload, card |-> rec.proof, strict |-> rec.strict]
<1>0. /\ me \in [Proc -> Frame] /\ rec \in Record /\ card \in [Card -> Row]
      /\ me[p].at = "armed" /\ me[p].rec = rec /\ sent = <<>>
      /\ rec.status = "executing" /\ rec.claim = p /\ Authorized(rec)
  BY DEF IInv, Shape, TypeOK, Frame, Dispatch, Refuse, At, Owns, Kept
<1>1. /\ UNCHANGED <<rec, card, closed, tx, ex>>
      /\ sent' = <<>> \/ sent' = Append(<<>>, call)
      /\ me'[p].at = "answered" /\ \A q \in Proc : q # p => me'[q] = me[q]
  BY <1>0 DEF Dispatch, Refuse, Go
<1>2. sent' = <<>> \/ sent' = <<call>>
  <2>1. Append(<<>>, call) = <<call>>
    OBVIOUS
  <2>2. QED BY <1>1, <2>1
<1>3. Hold'
  <2> SUFFICES ASSUME NEW q \in Proc PROVE (Locked(q) /\ Fresh(q) /\ Owns(q))'
    BY DEF Hold
  <2>1. Locked(q) /\ Fresh(q) /\ Owns(q)
    BY DEF IInv
  <2>2. CASE q = p
    BY <1>0, <1>1, <2>2 DEF Locked, Fresh, Owns
  <2>3. CASE q # p
    <3>1. me[q].at # "armed"
      BY <1>0, <2>1, <2>3 DEF Owns
    <3>2. QED BY <1>1, <2>1, <2>3, <3>1 DEF Locked, Fresh, Owns
  <2>4. QED BY <2>2, <2>3
<1>4. Kept'
  <2>1. call.strict => /\ call.card \in Card /\ card[call.card].verdict = "approved"
                       /\ card[call.card].pins = call.payload
    BY <1>0 DEF Authorized, Record
  <2>2. ConsentedPayload'
    <3>1. CASE sent' = <<>>
      BY <3>1 DEF ConsentedPayload
    <3>2. CASE sent' = <<call>>
      <4>1. Len(sent') = 1 /\ sent'[1] = call
        BY <3>2
      <4>2. QED BY <1>1, <2>1, <4>1 DEF ConsentedPayload
    <3> HIDE DEF call
    <3>3. QED BY <1>2, <3>1, <3>2
  <2>3. SentOnce'
    <3> HIDE DEF call
    <3>1. CASE sent' = <<>>
      BY <3>1 DEF SentOnce
    <3>2. CASE sent' = <<call>>
      BY <3>2 DEF SentOnce
    <3>3. QED BY <1>2, <3>1, <3>2
  <2>4. Authorized(rec)' /\ rec'.status = "executing"
    BY <1>0, <1>1 DEF Authorized
  <2>5. QED BY <1>1, <2>2, <2>3, <2>4 DEF IInv, Kept
<1>5. QED BY <1>3, <1>4

LEMMA ResultStep ==
  ASSUME IInv, NEW p \in Proc, RecordResult(p)
  PROVE  /\ Hold' /\ rec.status = "executing"
         /\ \E s \in {"executed", "failed"} : rec' = [rec EXCEPT !.status = s]
<1>0. /\ me \in [Proc -> Frame] /\ rec \in Record /\ me[p].do \in {"executed", "failed"}
      /\ me[p].at = "result" /\ me[p].rec = rec /\ ex = p
      /\ rec.status = "executing" /\ rec.claim = p
  BY DEF IInv, Shape, TypeOK, Frame, Formed, RecordResult, At, Owns, Locked
<1>1. rec' = [rec EXCEPT !.status = me[p].do]
  BY <1>0 DEF RecordResult, Write, Settled
<1>2. /\ UNCHANGED <<tx, sent>> /\ ex' = Free /\ me'[p].at = "idle"
      /\ \A q \in Proc : q # p => me'[q] = me[q]
  BY <1>0 DEF RecordResult, Rest, Idle
<1>3. ASSUME NEW q \in Proc PROVE (Locked(q) /\ Fresh(q) /\ Owns(q))'
  <2>1. Locked(q) /\ Fresh(q) /\ Owns(q)
    BY DEF IInv
  <2>2. CASE q = p
    BY <1>2, <2>2 DEF Locked, Fresh, Owns
  <2>3. CASE q # p
    <3>1. /\ me[q].at \notin {"both", "armed", "answered", "result"}
          /\ ~(me[q].at = "publish" /\ me[q].rec.status = "cancelled")
          /\ me[q].at = "held" => me[q].rec.status = "executing"
      BY <1>0, <2>1, <2>3 DEF Locked, Owns, Fresh
    <3>2. QED BY <1>2, <2>1, <2>3, <3>1 DEF Locked, Fresh, Owns
  <2>4. QED BY <2>2, <2>3
<1>4. QED BY <1>0, <1>1, <1>3 DEF Hold

LEMMA CrashStep ==
  ASSUME IInv, NEW p \in Proc, Crash(p)
  PROVE  Hold'
<1> SUFFICES ASSUME NEW q \in Proc PROVE (Locked(q) /\ Fresh(q) /\ Owns(q))'
  BY DEF Hold
<1>0. /\ me \in [Proc -> Frame] /\ Locked(q) /\ Fresh(q) /\ Owns(q)
      /\ UNCHANGED <<rec, sent>>
  BY DEF IInv, Shape, TypeOK, Frame, Crash
<1>1. CASE q = p
  <2>1. me'[p].at = "idle"
    BY <1>0 DEF Crash, Rest, Idle
  <2>2. QED BY <1>1, <2>1 DEF Locked, Fresh, Owns
<1>2. CASE q # p
  <2>1. me'[q] = me[q] /\ (tx = q => tx' = q) /\ (ex = q => ex' = q)
    BY <1>0, <1>2 DEF Crash, Rest
  <2>2. QED BY <1>0, <2>1 DEF Locked, Fresh, Owns
<1>3. QED BY <1>1, <1>2

LEMMA GiveUpStep ==
  ASSUME IInv, NEW p \in Proc, GiveUp(p)
  PROVE  Hold'
<1> SUFFICES ASSUME NEW q \in Proc PROVE (Locked(q) /\ Fresh(q) /\ Owns(q))'
  BY DEF Hold
<1>0. /\ me \in [Proc -> Frame] /\ Locked(q) /\ Fresh(q) /\ Owns(q)
      /\ UNCHANGED <<rec, tx, ex, sent>>
  BY DEF IInv, Shape, TypeOK, Frame, GiveUp
<1>1. CASE q = p
  <2>1. \/ me'[p].at = "publish" /\ me'[p].rec = rec
        \/ me'[p].at \in {"want", "start", "idle"}
    BY <1>0, ProceedPlace DEF GiveUp
  <2>2. QED BY <1>0, <1>1, <2>1 DEF Locked, Fresh, Owns
<1>2. CASE q # p
  <2>1. me'[q] = me[q]
    BY <1>0, <1>2 DEF GiveUp, Proceed, Go, Rest
  <2>2. QED BY <1>0, <2>1 DEF Locked, Fresh, Owns
<1>3. QED BY <1>1, <1>2

\* A changed file keeps what is known of the calls, if a claim was authorized.
LEMMA NewFile ==
  ASSUME IInv, UNCHANGED <<card, closed, sent>>, rec.status \notin Terminal,
         sent = <<>> \/ rec'.status \in {"executing", "executed", "failed"},
         rec'.status = "executing" => Authorized(rec)'
  PROVE  Kept'
<1>1. \A c \in Card : closed[c] # "action_cancelled"
  BY DEF IInv, Kept, Terminal
<1>2. ConsentedPayload' /\ SentOnce'
  BY DEF IInv, Kept, ConsentedPayload, SentOnce
<1>3. QED BY <1>1, <1>2 DEF Kept

LEMMA InvStep == IInv /\ [Next]_vars => IInv'
<1> SUFFICES ASSUME IInv, [Next]_vars PROVE Hold' /\ Kept'
  BY ShapeStep DEF IInv, Hold
<1>a. \A c \in Card : card[c].verdict = "approved" => card'[c] = card[c]
  BY ApprovedStays DEF IInv
<1>b. rec \in Record /\ \A q \in Proc : Formed(me[q]) /\ Fresh(q)
  BY DEF IInv, Shape, TypeOK
<1>1. ASSUME NEW p \in Proc, NEW c \in Card,
             \/ Draw(p, c) \/ Reregister(p, c) \/ Retire(p, c) \/ Resume(p, c) \/ Press(p, c)
             \/ \E v \in Denial \cup {"approved"} : Decide(p, c, v)
             \/ \E v \in Payload : Edit(p, c, v)
      PROVE  Hold' /\ Kept'
  <2>1. UNCHANGED <<rec, closed, tx, ex, sent>>
    BY <1>1 DEF Draw, Reregister, Retire, Resume, Press, Decide, Edit
  <2>2. Hold'
    <3>1. CASE Draw(p, c)
      <4> DEFINE m == [at |-> "drawn", do |-> "none", card |-> c, rec |-> rec]
      <4>1. me' = [me EXCEPT ![p] = m] /\ m.at \in Calm
        BY <3>1 DEF Draw, Calm
      <4> HIDE DEF m
      <4>2. QED BY <2>1, <4>1, CalmStep
    <3>2. CASE Reregister(p, c) \/ Press(p, c)
      <4>1. \E place \in {"want", "start"} : \E do, d : Go(p, place, do, d)
        BY <3>2 DEF Reregister, Press
      <4>2. QED BY <2>1, <4>1, GoCalm DEF Calm
    <3>3. CASE \/ Retire(p, c) \/ Resume(p, c)
               \/ \E v \in Denial \cup {"approved"} : Decide(p, c, v)
               \/ \E v \in Payload : Edit(p, c, v)
      <4>1. Go(p, "settle", "none", c)
        BY <3>3 DEF Retire, Resume, Decide, Edit
      <4>2. QED BY <2>1, <4>1, GoCalm DEF Calm
    <3>4. QED BY <1>1, <3>1, <3>2, <3>3
  <2>3. QED BY <1>a, <2>1, <2>2, SameFile
<1>2. ASSUME NEW p \in Proc, \E do \in {"policy", "cancel", "dedupe"} : Ask(p, do)
      PROVE  Hold' /\ Kept'
  BY <1>2, <1>a, GoCalm, SameFile DEF Ask, Calm
<1>3. ASSUME NEW p \in Proc, Register(p) \/ Reconcile(p) \/ Skip(p) \/ Execute(p)
      PROVE  Hold' /\ Kept'
  <2>1. UNCHANGED <<rec, closed, tx, ex, sent>>
    BY <1>3 DEF Register, Reconcile, Skip, Execute
  <2>2. Rest(p) \/ \E do, c : Go(p, "want", do, c)
    BY <1>3 DEF Register, Reconcile, Skip, Execute
  <2>3. Hold'
    BY <2>1, <2>2, RestCalm, GoCalm DEF Calm
  <2>4. QED BY <1>a, <2>1, <2>3, SameFile
<1>4. ASSUME NEW p \in Proc, Acquire(p) \/ AcquireBoth(p) \/ AcquireResult(p)
      PROVE  Hold' /\ Kept'
  <2>1. UNCHANGED <<rec, closed, sent>>
    BY <1>4 DEF Acquire, AcquireBoth, AcquireResult
  <2>2. QED BY <1>4, <1>a, <2>1, AcquireStep, SameFile
<1>5. ASSUME NEW p \in Proc, GiveUp(p) \/ Crash(p) PROVE Hold' /\ Kept'
  <2>1. UNCHANGED <<rec, closed, sent>>
    BY <1>5 DEF GiveUp, Crash
  <2>2. QED BY <1>5, <1>a, <2>1, GiveUpStep, CrashStep, SameFile
<1>6. ASSUME NEW p \in Proc, Publish(p) PROVE Hold' /\ Kept'
  <2>1. UNCHANGED <<rec, tx, ex, sent>> /\ Rest(p) /\ me[p].card \in Card
    BY <1>6, <1>b DEF Publish, At, Formed
  <2>2. me[p].rec.status = "cancelled" => rec.status = "cancelled"
    BY <1>6, <1>b DEF Publish, At, Fresh
  <2>3. \A c \in Card : closed'[c] = "action_cancelled" =>
            closed[c] = "action_cancelled" \/ rec.status = "cancelled"
    BY <1>6, <2>1, <2>2 DEF Publish, IInv, Shape, TypeOK
  <2>4. QED BY <1>a, <2>1, <2>3, RestCalm, SameFile
<1>7. ASSUME NEW p \in Proc, Update(p) PROVE Hold' /\ Kept'
  <2>1. UNCHANGED <<card, closed, sent>>
    BY <1>7 DEF Update
  <2>2. CASE rec' = rec
    BY <1>7, <1>a, <2>1, <2>2, UpdateStep, SameFile
  <2>3. CASE rec' # rec
    <3>1. /\ Hold' /\ Open(rec) /\ sent = <<>>
          /\ rec'.status \notin {"executing", "executed", "failed"}
      BY <1>7, <2>3, UpdateStep
    <3>2. rec.status \notin Terminal
      BY <3>1 DEF Open, Waiting, Terminal
    <3>3. QED BY <2>1, <3>1, <3>2, NewFile
  <2>4. QED BY <2>2, <2>3
<1>8. ASSUME NEW p \in Proc, Claim(p) PROVE Hold' /\ Kept'
  <2>1. UNCHANGED <<card, closed, sent>>
    BY <1>8 DEF Claim
  <2>2. CASE rec' = rec
    BY <1>8, <1>a, <2>1, <2>2, ClaimStep, SameFile
  <2>3. CASE rec' # rec
    <3>1. /\ Hold' /\ rec.status = "approved" /\ sent = <<>>
          /\ \/ rec'.status = "failed"
             \/ rec' = [rec EXCEPT !.status = "executing", !.claim = p] /\ Authorized(rec)
      BY <1>8, <2>3, ClaimStep
    <3>2. rec'.status = "executing" => Authorized(rec)'
      BY <1>b, <2>1, <3>1 DEF Authorized, Record
    <3>3. QED BY <2>1, <3>1, <3>2, NewFile DEF Terminal
  <2>4. QED BY <2>2, <2>3
<1>9. ASSUME NEW p \in Proc, Dispatch(p) \/ Refuse(p) PROVE Hold' /\ Kept'
  BY <1>9, HandOver
<1>10. ASSUME NEW p \in Proc, RecordResult(p) PROVE Hold' /\ Kept'
  <2>1. UNCHANGED <<card, closed, sent>>
    BY <1>10 DEF RecordResult
  <2>2. /\ Hold' /\ rec.status = "executing" /\ rec'.status \in {"executed", "failed"}
    BY <1>10, <1>b, ResultStep DEF Record
  <2>3. QED BY <2>1, <2>2, NewFile DEF Terminal
<1>11. CASE UNCHANGED vars
  <2>1. Hold'
    BY <1>11 DEF vars, IInv, Hold, Locked, Fresh, Owns
  <2>2. QED BY <1>11, <2>1, SameFile DEF vars
<1>12. QED BY <1>1, <1>2, <1>3, <1>4, <1>5, <1>6, <1>7, <1>8, <1>9, <1>10, <1>11 DEF Next, Step

\* The inductive invariant holds in every reachable state.
THEOREM PendingInvariant == Spec => []IInv
BY InvInit, InvStep, PTL DEF Spec

-----------------------------------------------------------------------------
(* What follows from it.                                                   *)

\* No interleaving of executors, decisions, cancellations and crashes hands
\* the action to the provider twice.
THEOREM SentOnceHolds == Spec => []SentOnce
<1>1. IInv => SentOnce
  BY DEF IInv, Kept
<1>2. QED BY <1>1, PendingInvariant, PTL

\* A strict action goes out only with the payload an approved card pins.
THEOREM ConsentedPayloadHolds == Spec => []ConsentedPayload
<1>1. IInv => ConsentedPayload
  BY DEF IInv, Kept
<1>2. QED BY <1>1, PendingInvariant, PTL

\* A denied action was never handed over.
THEOREM DeniedNotRunHolds == Spec => []DeniedNotRun
<1>1. IInv => DeniedNotRun
  BY DEF IInv, Kept, DeniedNotRun
<1>2. QED BY <1>1, PendingInvariant, PTL

\* A retirement published as a cancellation is true.
THEOREM RetiredNotRunHolds == Spec => []RetiredNotRun
<1>1. IInv => RetiredNotRun
  BY DEF IInv, Kept, RetiredNotRun
<1>2. QED BY <1>1, PendingInvariant, PTL

\* An end stands, and a claimed action is left only by its own result.
THEOREM FinalStandsHolds == Spec => FinalStands
<1> DEFINE Stands ==
      /\ rec.status \in Terminal => rec' = rec
      /\ rec.status = "executing" =>
           rec' = rec \/ \E s \in {"executed", "failed"} : rec' = [rec EXCEPT !.status = s]
<1>1. IInv /\ [Next]_vars => [Stands]_vars
  <2> SUFFICES ASSUME IInv, [Next]_vars PROVE Stands
    OBVIOUS
  <2>1. ASSUME NEW p \in Proc, Update(p) PROVE Stands
    BY <2>1, UpdateStep DEF Open, Waiting, Terminal
  <2>2. ASSUME NEW p \in Proc, Claim(p) PROVE Stands
    BY <2>2, ClaimStep DEF Terminal
  <2>3. ASSUME NEW p \in Proc, RecordResult(p) PROVE Stands
    BY <2>3, ResultStep DEF Terminal
  <2>4. ASSUME NEW p \in Proc,
               \/ Register(p) \/ Reconcile(p) \/ Acquire(p) \/ GiveUp(p) \/ Publish(p)
               \/ Skip(p) \/ Execute(p)
        PROVE  Stands
    BY <2>4 DEF Register, Reconcile, Acquire, GiveUp, Publish, Skip, Execute
  <2>5. ASSUME NEW p \in Proc,
               \/ AcquireBoth(p) \/ Dispatch(p) \/ Refuse(p) \/ AcquireResult(p) \/ Crash(p)
               \/ \E do \in {"policy", "cancel", "dedupe"} : Ask(p, do)
        PROVE  Stands
    BY <2>5 DEF AcquireBoth, Dispatch, Refuse, AcquireResult, Crash, Ask
  <2>6. ASSUME NEW p \in Proc, NEW c \in Card,
               \/ Draw(p, c) \/ Reregister(p, c) \/ Retire(p, c) \/ Resume(p, c) \/ Press(p, c)
               \/ \E v \in Denial \cup {"approved"} : Decide(p, c, v)
               \/ \E v \in Payload : Edit(p, c, v)
        PROVE  Stands
    BY <2>6 DEF Draw, Reregister, Retire, Resume, Press, Decide, Edit
  <2>7. CASE UNCHANGED vars
    BY <2>7 DEF vars
  <2> HIDE DEF Stands
  <2>8. QED
    BY <2>1, <2>2, <2>3, <2>4, <2>5, <2>6, <2>7 DEF Next, Step
<1>2. QED BY <1>1, PendingInvariant, PTL DEF Spec, FinalStands
=============================================================================
