--------------------------- MODULE PendingAction ---------------------------
(***************************************************************************)
(* A prepared action waits for consent in two stores: a file that holds    *)
(* the frozen payload and its status, and a SQLite registry of approval    *)
(* cards.  Processes (the daemon and its tool servers) link cards to the   *)
(* file, commit decisions and hand edits in the registry, carry them over  *)
(* to the file, and run the action.  The file is guarded by two locks: the *)
(* transition lock, which is taken over from a dead owner, and the         *)
(* execution lock, which never is.  A claim takes both, the result of a    *)
(* run only the execution lock, every other change only the transition     *)
(* lock.  There is one action, and its cards are formal ones (a            *)
(* conversational answer has an evidence chain of its own).                *)
(***************************************************************************)
EXTENDS Naturals, Sequences

CONSTANTS
    Proc,       \* processes; a crashed one restarts with a new pid
    Card,       \* approval ids
    Payload,    \* payloads the action may carry
    First,      \* the payload it was queued with
    NoCard, NoPayload, Free, Dead,
    MaxCrash    \* bound: crashes of processes

ASSUME FirstAssumption == First \in Payload
ASSUME ValueAssumption ==
    /\ NoCard \notin Card /\ NoPayload \notin Payload
    /\ Free \notin Proc /\ Dead \notin Proc /\ Free # Dead
ASSUME BoundAssumption == MaxCrash \in Nat

VARIABLES
    rec,        \* the file of the action
    card,       \* the rows of the registry
    closed,     \* the published outcome of a retired card
    tx, ex,     \* owner of the transition lock and of the execution lock
    me,         \* where each process is, and the record it read
    sent,       \* the calls handed to the provider
    crashes

vars == <<rec, card, closed, tx, ex, me, sent, crashes>>

Status == {"queued", "approval_requested", "approved", "executing",
           "rejected", "expired", "cancelled", "executed", "failed"}
Terminal == {"rejected", "expired", "cancelled", "executed", "failed"}
Denial == {"rejected", "expired", "cancelled_by_user"}
Verdict == {"unborn", "pending", "approved", "owner_moved_on"} \cup Denial

(***************************************************************************)
(* strict: the action is an irreversible send, which only a person may     *)
(* approve.  by and proof: who approved, and the card that shows it.       *)
(***************************************************************************)
Record == [status : Status, payload : Payload, card : Card \cup {NoCard},
           by : {"none", "policy", "human"}, proof : Card \cup {NoCard},
           claim : Proc \cup {Free}, strict : BOOLEAN]
Row == [verdict : Verdict, pins : Payload, was : Payload \cup {NoPayload}]
Place == {"idle", "drawn", "settle", "want", "held", "publish", "start",
          "both", "armed", "answered", "result"}
Job == {"none", "link", "relink", "amend", "mark", "press", "policy", "deny",
        "retire", "cancel", "dedupe", "claim", "executed", "failed"}
Call == [payload : Payload, card : Card \cup {NoCard}, strict : BOOLEAN]

Queued(strict) ==
    [status |-> "queued", payload |-> First, card |-> NoCard, by |-> "none",
     proof |-> NoCard, claim |-> Free, strict |-> strict]
Idle == [at |-> "idle", do |-> "none", card |-> NoCard, rec |-> Queued(FALSE)]

Init ==
    /\ \E strict \in BOOLEAN : rec = Queued(strict)
    /\ card = [c \in Card |-> [verdict |-> "unborn", pins |-> First, was |-> NoPayload]]
    /\ closed = [c \in Card |-> "open"]
    /\ tx = Free /\ ex = Free
    /\ me = [p \in Proc |-> Idle]
    /\ sent = <<>>
    /\ crashes = 0

-----------------------------------------------------------------------------
(* What an update makes of the record it reads under the transition lock;  *)
(* an update that does not apply leaves the record as it is.               *)

Waiting(r) == r.status \in {"queued", "approval_requested"}

\* Mutant of Open: a claimed action is still open to a denial.
OpenWhileRunning(r) == Waiting(r) \/ r.status \in {"approved", "executing"}

Open(r) == Waiting(r) \/ r.status = "approved"

Relinkable(r) ==
    r.status = "approval_requested" \/ (r.status = "approved" /\ r.by # "human")

Linked(r, c) ==
    IF r.status = "queued"
    THEN [r EXCEPT !.status = "approval_requested", !.card = c] ELSE r

Relinked(r, c) == IF Relinkable(r) THEN [r EXCEPT !.card = c] ELSE r

Amended(r, c) ==
    IF Waiting(r) /\ r.card = c /\ r.payload = card[c].was
    THEN [r EXCEPT !.payload = card[c].pins] ELSE r

\* A person's approval also replaces the consent of a policy, on the record
\* of a card the registry shows approved.
Marked(r, c) ==
    IF \/ Waiting(r)
       \/ r.status = "approved" /\ r.by # "human" /\ card[c].verdict = "approved"
    THEN [r EXCEPT !.status = "approved", !.card = c, !.by = "human", !.proof = c]
    ELSE r

PolicyMarked(r) ==
    IF Waiting(r) THEN [r EXCEPT !.status = "approved", !.by = "policy"] ELSE r

\* Mutant of Denied: the card's verdict is stored as the status.
DeniedVerbatim(r, c) ==
    IF Open(r) THEN [r EXCEPT !.card = c, !.status = card[c].verdict] ELSE r

Denied(r, c) ==
    IF Open(r)
    THEN [r EXCEPT !.card = c,
                   !.status = IF card[c].verdict \in {"rejected", "expired"}
                              THEN card[c].verdict ELSE "cancelled"]
    ELSE r

Cancelled(r) == IF Open(r) THEN [r EXCEPT !.status = "cancelled"] ELSE r

Deduped(r) ==
    IF r.status = "queued" /\ r.card = NoCard
    THEN [r EXCEPT !.status = "cancelled"] ELSE r

Retired(r, c) ==
    IF /\ Waiting(r) /\ r.by = "none"
       /\ r.card \in {NoCard, c} /\ r.payload = card[c].pins
       /\ card[c].verdict = "owner_moved_on"
    THEN [r EXCEPT !.status = "cancelled"] ELSE r

Updated(do, r, c) ==
    CASE do = "link" -> Linked(r, c)
      [] do = "relink" -> Relinked(r, c)
      [] do = "amend" -> Amended(r, c)
      [] do \in {"mark", "press"} -> Marked(r, c)
      [] do = "policy" -> PolicyMarked(r)
      [] do = "deny" -> Denied(r, c)
      [] do = "cancel" -> Cancelled(r)
      [] do = "dedupe" -> Deduped(r)
      [] do = "retire" -> Retired(r, c)

\* Mutant of Authorized: any approved card linked to the action will do.
AuthorizedById(r) ==
    r.strict => /\ r.by = "human" /\ r.card # NoCard /\ r.proof = r.card
                /\ card[r.card].verdict = "approved"

\* The authority a claim asks of a strict action: the card that proves a
\* person's approval is the one linked, is approved, and pins this payload.
Authorized(r) ==
    r.strict => /\ r.by = "human" /\ r.card # NoCard /\ r.proof = r.card
                /\ card[r.card].verdict = "approved"
                /\ card[r.card].pins = r.payload

\* Mutant of Claimed: an action left executing by a dead process is retried.
ClaimedAgain(r, p) ==
    IF r.status \notin {"approved", "executing"} THEN r
    ELSE IF Authorized(r) THEN [r EXCEPT !.status = "executing", !.claim = p]
    ELSE [r EXCEPT !.status = "failed"]

Claimed(r, p) ==
    IF r.status # "approved" THEN r
    ELSE IF Authorized(r) THEN [r EXCEPT !.status = "executing", !.claim = p]
    ELSE [r EXCEPT !.status = "failed"]

Settled(r, p, s) ==
    IF r.status = "executing" /\ r.claim = p THEN [r EXCEPT !.status = s] ELSE r

\* An action that an approval or a claim took before its card was retired.
Owned(r, c) ==
    \/ r.status = "approved" /\ (r.by = "policy" \/ (r.by = "human" /\ r.proof = c))
    \/ r.status \in {"executing", "executed", "failed"} /\ r.claim # Free

-----------------------------------------------------------------------------
At(p, place) == me[p].at = place

Go(p, place, do, c) ==
    me' = [me EXCEPT ![p] = [at |-> place, do |-> do, card |-> c, rec |-> Idle.rec]]

Rest(p) == me' = [me EXCEPT ![p] = Idle]

\* Only a changed record is written.
Write(r, new) == rec' = IF new = r THEN rec ELSE new

\* Mutant of Takeable: after the wait the lock is taken from a live owner.
TakeableByForce == tx \in Proc \cup {Free, Dead}

\* The lock of a live owner is waited for, that of a dead one taken over.
Takeable == tx \in {Free, Dead}

(* Cards: the snapshot is drawn from the record, the row is committed, and *)
(* only then is the file linked to it.                                      *)

Draw(p, c) ==
    /\ At(p, "idle") /\ card[c].verdict = "unborn"
    /\ me' = [me EXCEPT ![p] = [at |-> "drawn", do |-> "none", card |-> c, rec |-> rec]]
    /\ UNCHANGED <<rec, card, closed, tx, ex, sent, crashes>>

LinkJob == IF Relinkable(rec) THEN "relink" ELSE "link"

Register(p) ==
    LET c == me[p].card IN
    /\ At(p, "drawn") /\ card[c].verdict = "unborn"
    /\ card' = [card EXCEPT ![c] = [@ EXCEPT !.verdict = "pending", !.pins = me[p].rec.payload]]
    /\ Go(p, "want", LinkJob, c)
    /\ UNCHANGED <<rec, closed, tx, ex, sent, crashes>>

\* A retried registration finds its pending row and links it again.
Reregister(p, c) ==
    /\ At(p, "idle") /\ card[c].verdict = "pending" /\ card[c].pins = rec.payload
    /\ Go(p, "want", LinkJob, c)
    /\ UNCHANGED <<rec, card, closed, tx, ex, sent, crashes>>

(* Decisions: one registry transaction decides a pending card.             *)

Decide(p, c, v) ==
    /\ At(p, "idle") /\ card[c].verdict = "pending"
    /\ v \in Denial \cup {"approved"}
    /\ card' = [card EXCEPT ![c].verdict = v]
    /\ Go(p, "settle", "none", c)
    /\ UNCHANGED <<rec, closed, tx, ex, sent, crashes>>

Edit(p, c, v) ==
    /\ At(p, "idle") /\ card[c].verdict = "pending"
    /\ Waiting(rec) /\ rec.card = c /\ card[c].pins = rec.payload /\ v # rec.payload
    /\ card' = [card EXCEPT ![c] = [verdict |-> "approved", pins |-> v, was |-> rec.payload]]
    /\ Go(p, "settle", "none", c)
    /\ UNCHANGED <<rec, closed, tx, ex, sent, crashes>>

\* A new message of the owner retires a card whose action still waits.
Retire(p, c) ==
    /\ At(p, "idle") /\ card[c].verdict = "pending"
    /\ Waiting(rec) /\ rec.by = "none"
    /\ rec.card \in {NoCard, c} /\ card[c].pins = rec.payload
    /\ card' = [card EXCEPT ![c].verdict = "owner_moved_on"]
    /\ Go(p, "settle", "none", c)
    /\ UNCHANGED <<rec, closed, tx, ex, sent, crashes>>

\* Each later message takes up the retirements that were left unfinished.
Resume(p, c) ==
    /\ At(p, "idle") /\ card[c].verdict = "owner_moved_on" /\ closed[c] = "open"
    /\ Go(p, "settle", "none", c)
    /\ UNCHANGED <<rec, card, closed, tx, ex, sent, crashes>>

\* The decision is carried over to the file, if the card is still its card.
Reconcile(p) ==
    LET c == me[p].card
        v == card[c].verdict
        edited == v = "approved" /\ card[c].was # NoPayload
    IN
    /\ At(p, "settle")
    /\ \/ v = "owner_moved_on" /\ Go(p, "want", "retire", c)
       \/ v # "owner_moved_on" /\ rec.card # c /\ Rest(p)
       \/ rec.card = c /\ v \in Denial /\ Go(p, "want", "deny", c)
       \/ /\ rec.card = c /\ v = "approved"
          /\ Go(p, "want", IF edited /\ rec.payload # card[c].pins THEN "amend" ELSE "mark", c)
    /\ UNCHANGED <<rec, card, closed, tx, ex, sent, crashes>>

(* Calls that change the file without a decision of a card.                *)

Ask(p, do) ==
    /\ At(p, "idle") /\ do \in {"policy", "cancel", "dedupe"}
    /\ Go(p, "want", do, NoCard)
    /\ UNCHANGED <<rec, card, closed, tx, ex, sent, crashes>>

\* The console's approve button on an approved card repairs the file where
\* the decision did not reach it, and then runs the action.
Press(p, c) ==
    /\ At(p, "idle") /\ card[c].verdict = "approved" /\ rec.card = c
    /\ rec.status \notin {"rejected", "expired", "cancelled"}
    /\ IF Waiting(rec) \/ (rec.status = "approved" /\ <<rec.by, rec.proof>> # <<"human", c>>)
       THEN Go(p, "want", "press", c) ELSE Go(p, "start", "none", c)
    /\ UNCHANGED <<rec, card, closed, tx, ex, sent, crashes>>

-----------------------------------------------------------------------------
(* Updates under the transition lock.                                      *)

Acquire(p) ==
    /\ At(p, "want") /\ Takeable
    /\ tx' = p
    /\ me' = [me EXCEPT ![p].at = "held", ![p].rec = rec]
    /\ UNCHANGED <<rec, card, closed, ex, sent, crashes>>

\* What the caller does with the record an update returned.
Proceed(p, r, locked) ==
    LET do == me[p].do
        c == me[p].card
    IN
    IF do = "retire"
    THEN me' = [me EXCEPT ![p].at = "publish", ![p].rec = r]
    ELSE IF do = "amend" /\ locked /\ r.payload = card[c].pins
    THEN Go(p, "want", "mark", c)
    ELSE IF do = "press"
    THEN Go(p, "start", "none", c)
    ELSE Rest(p)

Update(p) ==
    LET r == me[p].rec
        new == Updated(me[p].do, r, me[p].card)
    IN
    /\ At(p, "held") /\ me[p].do # "claim"
    /\ Write(r, new)
    /\ tx' = Free
    /\ Proceed(p, new, TRUE)
    /\ UNCHANGED <<card, closed, ex, sent, crashes>>

\* The wait for a live owner is bounded; the caller then sees the file as it is.
GiveUp(p) ==
    /\ At(p, "want") /\ tx \in Proc \ {p}
    /\ Proceed(p, rec, FALSE)
    /\ UNCHANGED <<rec, card, closed, tx, ex, sent, crashes>>

\* Mutant of Publish: whatever nobody owns counts as cancelled.
PublishUnlessOwned(p) ==
    LET c == me[p].card
        r == me[p].rec
        exact == r.card \in {NoCard, c} /\ r.payload = card[c].pins
    IN
    /\ At(p, "publish")
    /\ closed' = [closed EXCEPT ![c] =
            IF @ # "open" \/ ~exact THEN @
            ELSE IF Owned(r, c) THEN "already_owned" ELSE "action_cancelled"]
    /\ Rest(p)
    /\ UNCHANGED <<rec, card, tx, ex, sent, crashes>>

Publish(p) ==
    LET c == me[p].card
        r == me[p].rec
        exact == r.card \in {NoCard, c} /\ r.payload = card[c].pins
    IN
    /\ At(p, "publish")
    /\ closed' = [closed EXCEPT ![c] =
            IF @ # "open" \/ ~exact THEN @
            ELSE IF r.status = "cancelled" THEN "action_cancelled"
            ELSE IF Owned(r, c) THEN "already_owned" ELSE @]
    /\ Rest(p)
    /\ UNCHANGED <<rec, card, tx, ex, sent, crashes>>

-----------------------------------------------------------------------------
(* Execution.                                                              *)

\* Policy consent does not start a strict action.
Runnable(r) == r.status = "approved" /\ (r.strict => r.by = "human")

Execute(p) ==
    /\ me[p].at \in {"idle", "start"} /\ Runnable(rec)
    /\ Go(p, "want", "claim", NoCard)
    /\ UNCHANGED <<rec, card, closed, tx, ex, sent, crashes>>

Skip(p) ==
    /\ At(p, "start") /\ ~Runnable(rec)
    /\ Rest(p)
    /\ UNCHANGED <<rec, card, closed, tx, ex, sent, crashes>>

\* Inside the transition lock a claim takes the execution lock too, or stops.
AcquireBoth(p) ==
    /\ At(p, "held") /\ me[p].do = "claim"
    /\ \/ /\ ex = Free
          /\ ex' = p
          /\ me' = [me EXCEPT ![p].at = "both", ![p].rec = rec]
          /\ UNCHANGED tx
       \/ /\ ex # Free
          /\ tx' = Free
          /\ Rest(p)
          /\ UNCHANGED ex
    /\ UNCHANGED <<rec, card, closed, sent, crashes>>

Claim(p) ==
    LET r == me[p].rec
        new == Claimed(r, p)
    IN
    /\ At(p, "both")
    /\ Write(r, new)
    /\ tx' = Free /\ ex' = Free
    /\ IF new # r /\ new.status = "executing"
       THEN me' = [me EXCEPT ![p].at = "armed", ![p].rec = new]
       ELSE Rest(p)
    /\ UNCHANGED <<card, closed, sent, crashes>>

\* The stored call is handed over, or refused before the provider is reached.
Dispatch(p) ==
    LET r == me[p].rec IN
    /\ At(p, "armed")
    /\ sent' = Append(sent, [payload |-> r.payload, card |-> r.proof, strict |-> r.strict])
    /\ \E s \in {"executed", "failed"} : Go(p, "answered", s, NoCard)
    /\ UNCHANGED <<rec, card, closed, tx, ex, crashes>>

Refuse(p) ==
    /\ At(p, "armed")
    /\ Go(p, "answered", "failed", NoCard)
    /\ UNCHANGED <<rec, card, closed, tx, ex, sent, crashes>>

\* The result is written under the execution lock alone, without a retry.
AcquireResult(p) ==
    /\ At(p, "answered")
    /\ \/ /\ ex = Free
          /\ ex' = p
          /\ me' = [me EXCEPT ![p].at = "result", ![p].rec = rec]
       \/ ex # Free /\ Rest(p) /\ UNCHANGED ex
    /\ UNCHANGED <<rec, card, closed, tx, sent, crashes>>

RecordResult(p) ==
    LET r == me[p].rec IN
    /\ At(p, "result")
    /\ Write(r, Settled(r, p, me[p].do))
    /\ ex' = Free
    /\ Rest(p)
    /\ UNCHANGED <<card, closed, tx, sent, crashes>>

\* A process dies: its transition lock can be taken over, its execution lock
\* stays for good.
Crash(p) ==
    /\ crashes < MaxCrash
    /\ crashes' = crashes + 1
    /\ Rest(p)
    /\ tx' = IF tx = p THEN Dead ELSE tx
    /\ ex' = IF ex = p THEN Dead ELSE ex
    /\ UNCHANGED <<rec, card, closed, sent>>

-----------------------------------------------------------------------------
\* The steps a process takes without being asked again.
Step(p) ==
    \/ Register(p) \/ Reconcile(p) \/ Acquire(p) \/ Update(p) \/ GiveUp(p)
    \/ Publish(p) \/ Skip(p) \/ AcquireBoth(p) \/ Claim(p)
    \/ Dispatch(p) \/ Refuse(p) \/ AcquireResult(p) \/ RecordResult(p)
    \/ At(p, "start") /\ Execute(p)

Next ==
    \E p \in Proc :
        \/ Step(p)
        \/ \E c \in Card :
            \/ Draw(p, c) \/ Reregister(p, c) \/ Retire(p, c) \/ Resume(p, c) \/ Press(p, c)
            \/ \E v \in Denial \cup {"approved"} : Decide(p, c, v)
            \/ \E v \in Payload : Edit(p, c, v)
        \/ \E do \in {"policy", "cancel", "dedupe"} : Ask(p, do)
        \/ At(p, "idle") /\ Execute(p)
        \/ Crash(p)

Spec == Init /\ [][Next]_vars

\* A process that runs goes on with what it began.
FairSpec == Spec /\ \A p \in Proc : WF_vars(Step(p))

-----------------------------------------------------------------------------
TypeOK ==
    /\ rec \in Record
    /\ card \in [Card -> Row]
    /\ closed \in [Card -> {"open", "action_cancelled", "already_owned"}]
    /\ tx \in Proc \cup {Free, Dead}
    /\ ex \in Proc \cup {Free, Dead}
    /\ me \in [Proc -> [at : Place, do : Job, card : Card \cup {NoCard}, rec : Record]]
    /\ sent \in Seq(Call)
    /\ crashes \in 0..MaxCrash

\* However executors, consoles and crashes race, the provider is called at
\* most once for one action (claimPendingActionExecution).
SentOnce == Len(sent) <= 1

\* What is sent for a strict action is what a person approved: the proof
\* names an approved card that pins exactly this payload, hand edits and the
\* window between the registry's commit and the file included.
ConsentedPayload ==
    \A i \in 1..Len(sent) : sent[i].strict =>
        /\ sent[i].card \in Card
        /\ card[sent[i].card].verdict = "approved"
        /\ card[sent[i].card].pins = sent[i].payload

\* An action whose file says rejected, expired or cancelled was never run and
\* never will be (PENDING_ACTION_TRANSITIONS across both locks).
DeniedNotRun == rec.status \in {"rejected", "expired", "cancelled"} => sent = <<>>

\* A conversation told that its previous action was cancelled is told the
\* truth (publishOwnerMovedOnRetirement).
RetiredNotRun ==
    \A c \in Card : closed[c] = "action_cancelled" => rec.status = "cancelled" /\ sent = <<>>

\* No update is lost between the two locks: an end stands, and a claimed
\* action is left only by its own result, with the payload that was claimed.
FinalStands ==
    [][/\ rec.status \in Terminal => rec' = rec
       /\ rec.status = "executing" =>
            rec' = rec \/ \E s \in {"executed", "failed"} : rec' = [rec EXCEPT !.status = s]]_vars

\* "Safe to call at ingress, immediately after resolve, and on boot": a card
\* that is decided while its action is linked to it reaches the file.
DecisionReachesFile ==
    \A c \in Card :
        (card[c].verdict \in Denial \cup {"approved"} /\ rec.card = c)
            ~> (rec.card # c \/ ~Waiting(rec))
=============================================================================
