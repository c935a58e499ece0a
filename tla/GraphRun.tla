------------------------------ MODULE GraphRun ------------------------------
(***************************************************************************)
(* The admitted graph executor (runGraph in graph-executor.ts): one        *)
(* activation at a time drives a durable run to quiescence, and may crash, *)
(* be aborted, run out of a budget, or lose its journal at any await; the  *)
(* next activation replays the journal (GraphHistory) and goes on.         *)
(*                                                                         *)
(* One step per await: an append to the journal, a runner's return, the    *)
(* verification of a settlement that may be reused.  What lies between two *)
(* awaits is one step.                                                     *)
(***************************************************************************)
EXTENDS GraphHistory

CONSTANTS
  ReadNode,        \* nodes whose admitted effect class is read
  Emits,           \* Emits[n]: the patches n's runner may emit
  Output,          \* the artifacts a completion may produce, non-zero
  Outcomes,        \* what runners may answer (see RunnerOutcome)
  Said,            \* labelled edges the runner may call satisfied
  Faults,          \* what the environment does (see FaultKind)
  FreshIds,        \* activation ids never repeat (else: minted from history)
  MaxNodes, MaxWaves, MaxConcurrency,  \* the admitted budget
  MaxActivations   \* bound on the number of activations

FaultKind == {"crash", "abort", "late", "append", "artifact", "corrupt", "admitter"}

OutcomeKind == {"completed", "node", "infrastructure", "policy", "blocked", "paused",
                "cancelled"}

ASSUME RunAssumption ==
  /\ ReadNode \subseteq Node
  /\ Emits \in [Node -> SUBSET Patch]
  /\ Output \subseteq Nat \ {0}
  /\ Outcomes \subseteq OutcomeKind
  /\ Said \subseteq Edge
  /\ Faults \subseteq FaultKind
  /\ FreshIds \in BOOLEAN
  /\ MaxNodes \in Nat \ {0} /\ MaxWaves \in Nat \ {0} /\ MaxConcurrency \in Nat \ {0}
  /\ MaxExpansions \in Nat /\ MaxActivations \in Nat

VARIABLES
  activations,  \* how many activations have begun
  phase,        \* where the live activation is
  ended,        \* how the last activation ended, "no" while none has
  aborted,      \* its cancellation signal
  late,         \* its elapsed ceiling has passed
  minted,       \* the last id its id source has minted
  applied,      \* the patches in its working topology, in order
  proven,       \* the patch generations its emitters' settlements vouch for
  orphan,       \* orphan[n]: the patch a re-run n must reproduce
  trusted,      \* trusted[n]: position of the settlement it may reuse, or 0
  status,       \* status[n]: the settled status, "none" while unsettled
  output,       \* output[n]: the artifact of a completed node
  fired,        \* the edges that have fired
  wave,
  todo,         \* ready nodes of this wave whose reuse is undecided
  fresh,        \* nodes of this wave to dispatch
  retired,      \* the reuse loop has retired topology
  slice,        \* the work claimed or running now
  pos,          \* the position in the slice of the next append
  settling,     \* outcomes of this wave that are durable and not yet observed
  dispatched,   \* nodes dispatched, against MaxNodes
  expansions    \* patches admitted, against MaxExpansions

resumed   == <<applied, proven, orphan, trusted>>
observed  == <<status, output, fired>>
waveVars  == <<wave, todo, fresh, retired>>
sliceVars == <<slice, pos, settling>>
signals   == <<aborted, late>>
counters  == <<dispatched, expansions>>

vars == <<journal, activations, phase, ended, minted, signals, resumed,
          observed, waveVars, sliceVars, counters>>

NoOutcome == Stopped("none", "none")
Work(n, a, input) == [node |-> n, attempt |-> a, input |-> input, outcome |-> NoOutcome]

Topo == Topology(Elems(applied))
Settled == {n \in Node : status[n] # "none"}

(* Claimed in this wave and not yet observed: patches may not join these.  *)
InFlight == {s.node : s \in Elems(slice)} \cup {s.node : s \in Elems(settling)}

(* The fired, completed predecessors with their artifacts: what the input  *)
(* digest of n covers.                                                     *)
InputOf(n) == {<<e.source, output[e.source]>> :
                 e \in {i \in Incoming(Topo, n) \cap fired : status[i.source] = "completed"}}

(* Ids the journal has used, as the injected id source sees them.          *)
IdsIn(j) == {0} \cup {j[i].attempt : i \in At(j, "node_started")}
                \cup IF FreshIds THEN {j[i].id : i \in At(j, "run_header")} ELSE {}
(* Mutant of LastId: the id source restarts with every activation.         *)
NoIdUsed(j) == 0

LastId(j) == CHOOSE a \in IdsIn(j) : \A b \in IdsIn(j) : b <= a

(* An activation's memory before it has read the journal.                  *)
Blank ==
  /\ applied' = <<>> /\ proven' = {} /\ orphan' = [n \in Node |-> NoPatch]
  /\ trusted' = [n \in Node |-> 0]
  /\ status' = [n \in Node |-> "none"] /\ output' = [n \in Node |-> 0] /\ fired' = {}
  /\ wave' = 0 /\ todo' = <<>> /\ fresh' = <<>> /\ retired' = FALSE
  /\ slice' = <<>> /\ pos' = 1 /\ settling' = <<>>
  /\ dispatched' = 0 /\ expansions' = 0
  /\ aborted' = FALSE /\ late' = FALSE /\ minted' = 0

InitRun ==
  /\ Init
  /\ activations = 0 /\ phase = "down" /\ ended = "no" /\ minted = 0
  /\ applied = <<>> /\ proven = {} /\ orphan = [n \in Node |-> NoPatch]
  /\ trusted = [n \in Node |-> 0]
  /\ status = [n \in Node |-> "none"] /\ output = [n \in Node |-> 0] /\ fired = {}
  /\ wave = 0 /\ todo = <<>> /\ fresh = <<>> /\ retired = FALSE
  /\ slice = <<>> /\ pos = 1 /\ settling = <<>>
  /\ dispatched = 0 /\ expansions = 0
  /\ aborted = FALSE /\ late = FALSE

End(how) == phase' = "ended" /\ ended' = how

-----------------------------------------------------------------------------
(* Activation and replay.                                                  *)

(* The journal is replayed: its trusted settlements, its proven patches,   *)
(* its orphans.  The activation opens with its header.                     *)
Activate ==
  /\ phase \in {"down", "ended"}
  /\ activations < MaxActivations
  /\ Replay(journal).ok
  /\ activations' = activations + 1
  /\ phase' = "open" /\ ended' = "no"
  /\ minted' = LastId(journal) + 1
  /\ applied' \in Listings(AppliedIn(journal), LAMBDA p, q : AdmittedBefore(journal, p, q))
  /\ proven' = AppliedIn(journal)
  /\ orphan' = [n \in Node |->
                  IF \E p \in OrphansIn(journal) : Body[p].by = n
                  THEN CHOOSE p \in OrphansIn(journal) : Body[p].by = n ELSE NoPatch]
  /\ trusted' = [n \in Node |-> TrustedIn(journal, n)]
  /\ status' = [n \in Node |-> "none"] /\ output' = [n \in Node |-> 0] /\ fired' = {}
  /\ wave' = 0 /\ todo' = <<>> /\ fresh' = <<>> /\ retired' = FALSE
  /\ slice' = <<>> /\ pos' = 1 /\ settling' = <<>>
  /\ dispatched' = 0 /\ expansions' = 0
  /\ aborted' = FALSE /\ late' = FALSE
  /\ UNCHANGED journal

(* Replay refuses the journal: the activation halts before it writes.      *)
ActivateRefused ==
  /\ phase \in {"down", "ended"}
  /\ activations < MaxActivations
  /\ ~Replay(journal).ok
  /\ activations' = activations + 1
  /\ End("halted")
  /\ Blank
  /\ UNCHANGED journal

OpenHeader ==
  /\ phase = "open"
  /\ journal' = Append(journal, Header(minted))
  /\ phase' = "plan"
  /\ UNCHANGED <<activations, ended, minted, signals, resumed, observed, waveVars,
                 sliceVars, counters>>

(* An append is rejected: nothing after it is dispatched.                  *)
AppendFails ==
  /\ "append" \in Faults
  /\ phase \in {"open", "claim", "settle", "verdict"}
  /\ End("halted")
  /\ UNCHANGED <<journal, activations, minted, signals, resumed, observed, waveVars,
                 sliceVars, counters>>

-----------------------------------------------------------------------------
(* The top of the loop.                                                    *)

ReadyNow == ReadyNodes(Topo, fired, Settled)

Unreached == Topo.nodes \ Settled

(* Some route into an unreached node has an unsettled source.              *)
SomeRoutePending ==
  \E n \in Unreached : \E e \in Incoming(Topo, n) : e.source \notin Settled

Stop ==
  /\ phase = "plan"
  /\ CASE aborted -> End("cancelled")
       [] ~aborted /\ late -> End("budget_exhausted")
       [] ~aborted /\ ~late /\ ReadyNow = {} ->
            End(IF SomeRoutePending THEN "stalled" ELSE "completed")
       [] OTHER -> wave >= MaxWaves /\ End("budget_exhausted")
  /\ UNCHANGED <<journal, activations, minted, signals, resumed, observed, waveVars,
                 sliceVars, counters>>

PlanWave ==
  /\ phase = "plan"
  /\ ~aborted /\ ~late /\ ReadyNow # {} /\ wave < MaxWaves
  /\ todo' \in Listings(ReadyNow, LAMBDA m, n : DeclaredBefore(applied, m, n))
  /\ fresh' = <<>> /\ retired' = FALSE
  /\ phase' = "reuse"
  /\ UNCHANGED <<journal, activations, ended, minted, signals, resumed, observed, wave,
                 sliceVars, counters>>

-----------------------------------------------------------------------------
(* Reuse, decided at readiness, one ready node after the other.            *)

(* The generations n vouches for, and those their nodes vouch for: the     *)
(* least set that has the first and is closed under the second.            *)
Generations(n) ==
  LET own == {p \in proven : Body[p].by = n}
      from(q) == {p \in proven : Body[p].by \in Elems(Body[q].nodes)}
  IN  {p \in proven : \A S \in SUBSET proven :
         own \subseteq S /\ (\A q \in S : from(q) \subseteq S) => p \in S}

AppliedBefore(p, q) ==
  \E i, k \in DOMAIN applied : i < k /\ applied[i] = p /\ applied[k] = q

(* What is left of the applied patches, in their order.                    *)
Without(gone) == Listings(Elems(applied) \ gone, AppliedBefore)

(* Mutants of SameInput: reuse whatever the input, or never.               *)
AnyInput(n) == TRUE
NoInput(n) == FALSE

SameInput(n) == InputOf(n) = journal[trusted[n]].input

(* No settlement to reuse: the node runs.                                  *)
RunFresh ==
  /\ phase = "reuse" /\ todo # <<>> /\ trusted[Head(todo)] = 0
  /\ fresh' = Append(fresh, Head(todo)) /\ todo' = Tail(todo)
  /\ UNCHANGED <<journal, activations, phase, ended, minted, signals, resumed, observed,
                 wave, retired, sliceVars, counters>>

(* Mutant of RefuseReuse: the retired generations keep their proof.        *)
RefuseAndRetireAgain ==
  /\ phase = "reuse" /\ todo # <<>> /\ trusted[Head(todo)] # 0
  /\ ~SameInput(Head(todo))
  /\ LET gone == Generations(Head(todo))
     IN  /\ applied' \in Without(gone)
         /\ retired' = (retired \/ gone # {})
  /\ fresh' = Append(fresh, Head(todo)) /\ todo' = Tail(todo)
  /\ UNCHANGED <<journal, activations, phase, ended, minted, signals, proven, orphan,
                 trusted, observed, wave, sliceVars, counters>>

(* Its input has changed: the node runs, and the topology its old input    *)
(* emitted is retired.                                                     *)
RefuseReuse ==
  /\ phase = "reuse" /\ todo # <<>> /\ trusted[Head(todo)] # 0
  /\ ~SameInput(Head(todo))
  /\ LET gone == Generations(Head(todo))
     IN  /\ applied' \in Without(gone)
         /\ proven' = proven \ gone
         /\ trusted' = [n \in Node |->
                          IF \E p \in gone : n \in Elems(Body[p].nodes) THEN 0 ELSE trusted[n]]
         /\ retired' = (retired \/ gone # {})
  /\ fresh' = Append(fresh, Head(todo)) /\ todo' = Tail(todo)
  /\ UNCHANGED <<journal, activations, phase, ended, minted, signals, orphan, observed,
                 wave, sliceVars, counters>>

(* Identity holds and the artifacts verify: the durable verdicts replay.   *)
Reuse ==
  /\ phase = "reuse" /\ todo # <<>> /\ trusted[Head(todo)] # 0
  /\ SameInput(Head(todo))
  /\ LET n == Head(todo)
         s == journal[trusted[n]]
     IN  /\ status' = [status EXCEPT ![n] = s.status]
         /\ output' = [output EXCEPT ![n] = s.output]
         /\ fired' = fired \cup s.fired
  /\ todo' = Tail(todo)
  /\ UNCHANGED <<journal, activations, phase, ended, minted, signals, resumed, wave,
                 fresh, retired, sliceVars, counters>>

(* The artifact is missing: a read node runs again, any other halts.       *)
ArtifactMissing ==
  /\ "artifact" \in Faults
  /\ phase = "reuse" /\ todo # <<>> /\ trusted[Head(todo)] # 0
  /\ SameInput(Head(todo)) /\ journal[trusted[Head(todo)]].status = "completed"
  /\ \/ /\ Head(todo) \in ReadNode
        /\ fresh' = Append(fresh, Head(todo)) /\ todo' = Tail(todo)
        /\ UNCHANGED <<phase, ended>>
     \/ /\ Head(todo) \notin ReadNode
        /\ End("halted")
        /\ UNCHANGED <<fresh, todo>>
  /\ UNCHANGED <<journal, activations, minted, signals, resumed, observed, wave, retired,
                 sliceVars, counters>>

(* The record proves another scope, producer or store: always a halt.      *)
ArtifactForeign ==
  /\ "corrupt" \in Faults
  /\ phase = "reuse" /\ todo # <<>> /\ trusted[Head(todo)] # 0
  /\ SameInput(Head(todo)) /\ journal[trusted[Head(todo)]].status = "completed"
  /\ End("halted")
  /\ UNCHANGED <<journal, activations, minted, signals, resumed, observed, waveVars,
                 sliceVars, counters>>

(* Mutant of ReuseDecided: the wave is never held against the node budget. *)
DispatchWholeWave ==
  /\ phase = "reuse" /\ todo = <<>>
  /\ IF retired THEN phase' = "plan" /\ UNCHANGED wave
     ELSE IF fresh = <<>> THEN phase' = "plan" /\ wave' = wave + 1
     ELSE phase' = "slice" /\ UNCHANGED wave
  /\ UNCHANGED <<journal, activations, ended, minted, signals, resumed, observed, todo,
                 fresh, retired, sliceVars, counters>>

(* The loop ends: readiness again after a retirement, the next wave when   *)
(* everything was reused, a park when the wave exceeds the node budget.    *)
ReuseDecided ==
  /\ phase = "reuse" /\ todo = <<>>
  /\ CASE retired -> phase' = "plan" /\ UNCHANGED <<ended, wave>>
       [] ~retired /\ fresh = <<>> -> phase' = "plan" /\ wave' = wave + 1 /\ UNCHANGED ended
       [] ~retired /\ fresh # <<>> /\ dispatched + Len(fresh) > MaxNodes ->
            End("budget_exhausted") /\ UNCHANGED wave
       [] OTHER -> phase' = "slice" /\ UNCHANGED <<ended, wave>>
  /\ UNCHANGED <<journal, activations, minted, signals, resumed, observed, todo, fresh,
                 retired, sliceVars, counters>>

-----------------------------------------------------------------------------
(* Claims and dispatch.                                                    *)

AbortedBetweenSlices ==
  /\ phase = "slice" /\ fresh # <<>> /\ aborted
  /\ End("cancelled")
  /\ UNCHANGED <<journal, activations, minted, signals, resumed, observed, waveVars,
                 sliceVars, counters>>

TakeSlice ==
  /\ phase = "slice" /\ fresh # <<>> /\ ~aborted
  /\ LET size == IF Len(fresh) < MaxConcurrency THEN Len(fresh) ELSE MaxConcurrency
     IN  /\ slice' = [i \in 1 .. size |-> Work(fresh[i], minted + i, InputOf(fresh[i]))]
         /\ minted' = minted + size
         /\ fresh' = SubSeq(fresh, size + 1, Len(fresh))
  /\ pos' = 1
  /\ phase' = "claim"
  /\ UNCHANGED <<journal, activations, ended, signals, resumed, observed, wave, todo,
                 retired, settling, counters>>

(* Mutant of Claim: the slice is dispatched without its claims.            *)
DispatchUnclaimed ==
  /\ phase = "claim" /\ phase' = "run"
  /\ UNCHANGED <<journal, activations, ended, minted, signals, resumed, observed, waveVars,
                 sliceVars, counters>>

(* The claims of a slice are durable before any of it is dispatched.       *)
Claim ==
  /\ phase = "claim"
  /\ journal' = Append(journal, Started(slice[pos].node, slice[pos].attempt,
                                        slice[pos].input, wave))
  /\ IF pos < Len(slice) THEN pos' = pos + 1 /\ UNCHANGED phase
                         ELSE pos' = 1 /\ phase' = "run"
  /\ UNCHANGED <<activations, ended, minted, signals, resumed, observed, waveVars, slice,
                 settling, counters>>

RunnerOutcome(n) ==
  {o \in {Done(out, p) : out \in Output, p \in Emits[n] \cup {NoPatch}} : "completed" \in Outcomes}
  \cup {Failed(c) : c \in Outcomes \cap {"node", "infrastructure", "policy"}}
  \cup {Stopped(s, "none") : s \in Outcomes \cap {"blocked", "paused"}}
  \cup {Stopped("cancelled", "cancelled") : s \in Outcomes \cap {"cancelled"}}

(* Mutant of RunnerReturns: dependents observe the result at once.         *)
ObservedOnReturn(i) ==
  /\ phase = "run" /\ i \in DOMAIN slice /\ slice[i].outcome = NoOutcome
  /\ \E o \in RunnerOutcome(slice[i].node) :
       /\ slice' = [slice EXCEPT ![i].outcome = o]
       /\ status' = [status EXCEPT ![slice[i].node] = o.status]
  /\ phase' = IF \A k \in DOMAIN slice \ {i} : slice[k].outcome # NoOutcome
              THEN "settle" ELSE "run"
  /\ UNCHANGED <<journal, activations, ended, minted, signals, resumed, output, fired,
                 waveVars, pos, settling, counters>>

(* A runner returns; the last one of a slice ends the wait for all.        *)
RunnerReturns(i) ==
  /\ phase = "run" /\ i \in DOMAIN slice /\ slice[i].outcome = NoOutcome
  /\ \E o \in RunnerOutcome(slice[i].node) :
       slice' = [slice EXCEPT ![i].outcome = IF aborted THEN OutcomeAfterAbort(o) ELSE o]
  /\ phase' = IF \A k \in DOMAIN slice \ {i} : slice[k].outcome # NoOutcome
              THEN "settle" ELSE "run"
  /\ UNCHANGED <<journal, activations, ended, minted, signals, resumed, observed, waveVars,
                 pos, settling, counters>>

-----------------------------------------------------------------------------
(* Settlement: the patch first, then the verdicts.                         *)

Emitted == slice[pos].outcome.patch

(* The patches that pass what applyPatch checks before the ceiling and the *)
(* authority.                                                              *)
Fitting ==
  {p \in Patch : /\ ValidPatch(Topo, p)
                 /\ \A n \in JoinTargets(p) : JoinOpen(Topo, fired, Settled \cup InFlight, n)
                 /\ orphan[slice[pos].node] \in {NoPatch, p}}

Historical(p) == orphan[slice[pos].node] = p

Outcome(o) == slice' = [slice EXCEPT ![pos].outcome = o]

(* An inadmissible emission fails its emitter as node logic.               *)
PatchRefused ==
  /\ phase = "settle" /\ Emitted # NoPatch
  /\ \/ Emitted \notin Fitting
     \/ /\ Emitted \in Fitting /\ ~Historical(Emitted)
        /\ expansions >= MaxExpansions \/ "admitter" \in Faults
  /\ Outcome(Failed("node"))
  /\ phase' = "verdict"
  /\ UNCHANGED <<journal, activations, ended, minted, signals, resumed, observed, waveVars,
                 pos, settling, counters>>

(* Mutant of AdmitPatch: a re-emission is journaled again.                 *)
JournalEveryPatch ==
  /\ phase = "settle" /\ Emitted # NoPatch
  /\ Emitted \in Fitting
  /\ Historical(Emitted) \/ expansions < MaxExpansions
  /\ applied' = Append(applied, Emitted)
  /\ orphan' = [orphan EXCEPT ![slice[pos].node] = NoPatch]
  /\ expansions' = IF Historical(Emitted) THEN expansions ELSE expansions + 1
  /\ journal' = Append(journal, PatchAdmitted(Emitted, slice[pos].attempt))
  /\ phase' = "verdict"
  /\ UNCHANGED <<activations, ended, minted, signals, proven, trusted, observed, waveVars,
                 sliceVars, dispatched>>

(* Admitted, durable unless the journal has it, and only then settled.     *)
AdmitPatch ==
  /\ phase = "settle" /\ Emitted # NoPatch
  /\ Emitted \in Fitting
  /\ Historical(Emitted) \/ expansions < MaxExpansions
  /\ applied' = Append(applied, Emitted)
  /\ orphan' = [orphan EXCEPT ![slice[pos].node] = NoPatch]
  /\ expansions' = IF Historical(Emitted) THEN expansions ELSE expansions + 1
  /\ journal' = IF Emitted \in PatchesOf(journal) THEN journal
                ELSE Append(journal, PatchAdmitted(Emitted, slice[pos].attempt))
  /\ phase' = "verdict"
  /\ UNCHANGED <<activations, ended, minted, signals, proven, trusted, observed, waveVars,
                 sliceVars, dispatched>>

(* A completion that left its orphan unreproduced is a failure.            *)
FinalOutcome ==
  LET s == slice[pos]
  IN  IF s.outcome.status = "completed" /\ orphan[s.node] # NoPatch
      THEN Failed("node") ELSE s.outcome

(* The settlement with its verdicts is durable before anybody observes it. *)
Settle ==
  /\ \/ phase = "verdict"
     \/ phase = "settle" /\ Emitted = NoPatch
  /\ \E said \in SUBSET Said :
       LET edges == EdgeVerdict(Topo, slice[pos].node, FinalOutcome, said)
           entry == SettledBy(slice[pos], wave, FinalOutcome, edges)
       IN  /\ journal' = Append(journal, entry)
           /\ settling' = Append(settling, entry)
  /\ IF pos < Len(slice) THEN pos' = pos + 1 /\ phase' = "settle" /\ UNCHANGED slice
                         ELSE pos' = 1 /\ phase' = "slice" /\ slice' = <<>>
  /\ UNCHANGED <<activations, ended, minted, signals, resumed, observed, waveVars, counters>>

(* Every slice of the wave is durable: its settlements are observed.       *)
EndWave ==
  /\ phase = "slice" /\ fresh = <<>>
  /\ LET of(n) == {s \in Elems(settling) : s.node = n}
     IN  /\ status' = [n \in Node |-> IF of(n) = {} THEN status[n]
                                      ELSE (CHOOSE s \in of(n) : TRUE).status]
         /\ output' = [n \in Node |-> IF of(n) = {} THEN output[n]
                                      ELSE (CHOOSE s \in of(n) : TRUE).output]
  /\ fired' = fired \cup UNION {s.fired : s \in Elems(settling)}
  /\ dispatched' = dispatched + Len(settling)
  /\ settling' = <<>>
  /\ IF \E s \in Elems(settling) : s.status = "paused"
     THEN End("paused") /\ UNCHANGED wave
     ELSE phase' = "plan" /\ wave' = wave + 1 /\ UNCHANGED ended
  /\ UNCHANGED <<journal, activations, minted, signals, resumed, todo, fresh, retired,
                 slice, pos, expansions>>

-----------------------------------------------------------------------------
(* The environment.                                                        *)

Running == phase \notin {"down", "ended"}

Crash ==
  /\ "crash" \in Faults /\ Running
  /\ phase' = "down"
  /\ Blank
  /\ UNCHANGED <<journal, activations, ended>>

Abort ==
  /\ "abort" \in Faults /\ Running /\ ~aborted
  /\ aborted' = TRUE
  /\ UNCHANGED <<journal, activations, phase, ended, minted, late, resumed, observed,
                 waveVars, sliceVars, counters>>

Elapse ==
  /\ "late" \in Faults /\ Running /\ ~late
  /\ late' = TRUE
  /\ UNCHANGED <<journal, activations, phase, ended, minted, aborted, resumed, observed,
                 waveVars, sliceVars, counters>>

-----------------------------------------------------------------------------
Planning == \/ Stop \/ PlanWave \/ RunFresh \/ RefuseReuse \/ Reuse
            \/ ArtifactMissing \/ ArtifactForeign \/ ReuseDecided

Working == \/ AbortedBetweenSlices \/ TakeSlice \/ Claim
           \/ (\E i \in 1 .. MaxConcurrency : RunnerReturns(i))
           \/ PatchRefused \/ AdmitPatch \/ Settle \/ EndWave

Step == OpenHeader \/ Planning \/ Working

NextRun == \/ Activate \/ ActivateRefused \/ Step
           \/ AppendFails \/ Crash \/ Abort \/ Elapse

SpecRun == InitRun /\ [][NextRun]_vars

(* The event loop runs a live activation; runners answer.                  *)
FairSpecRun == SpecRun /\ WF_vars(Step)

-----------------------------------------------------------------------------
(* Properties.                                                             *)

Phase == {"down", "open", "plan", "reuse", "slice", "claim", "run", "settle", "verdict",
          "ended"}
Ending == {"no", "completed", "stalled", "paused", "cancelled", "budget_exhausted", "halted"}

TypeOK ==
  /\ activations \in 0 .. MaxActivations
  /\ phase \in Phase /\ ended \in Ending
  /\ aborted \in BOOLEAN /\ late \in BOOLEAN /\ retired \in BOOLEAN
  /\ minted \in Nat /\ wave \in Nat /\ pos \in Nat /\ dispatched \in Nat /\ expansions \in Nat
  /\ applied \in Seq(Patch) /\ proven \subseteq Patch
  /\ orphan \in [Node -> Patch \cup {NoPatch}]
  /\ trusted \in [Node -> 0 .. Len(journal)]
  /\ status \in [Node -> {"none", "completed", "failed", "blocked", "paused", "cancelled"}]
  /\ output \in [Node -> Output \cup {0}]
  /\ fired \subseteq Edge
  /\ todo \in Seq(Node) /\ fresh \in Seq(Node)
  /\ \A s \in Elems(slice) : s.node \in Node /\ s.attempt \in Nat
  /\ \A s \in Elems(settling) : s \in Elems(journal)

(* Replay accepts every journal the executor can leave behind: what a      *)
(* crash or an ending leaves is this run's history (graph-resume.ts        *)
(* refuses only history the executor could not have produced).             *)
ReplayAccepts == phase \in {"down", "ended"} => Replayable(journal)

(* The header e repeats the id of an activation that claimed nothing, nor  *)
(* did any activation since.                                               *)
RepeatsIdle(j, e) ==
  /\ e.type = "run_header"
  /\ \E h \in At(j, "run_header") :
       j[h].id = e.id /\ \A i \in At(j, "node_started") : i < h

(* e starts an any-join in the wave in which one of its routes was fired.  *)
JoinsLate(j, e) ==
  /\ e.type = "node_started" /\ e.node \in AnyJoin
  /\ \E i \in Segment(j) \cap At(j, "node_settled") :
       j[i].wave = e.wave /\ Incoming(TopologyAt(j), e.node) \cap j[i].fired # {}

(* Of a run that admits no patch, whatever replay refuses is due to one of *)
(* two entries: a header whose id nextAttemptIdFromHistory minted twice    *)
(* because nothing was claimed in between, or an any-join dispatched in a  *)
(* later slice of the wave of one of its sources.                          *)
RefusalsExplained ==
  \/ ReplayAccepts
  \/ \E i \in DOMAIN journal :
       LET before == SubSeq(journal, 1, i - 1)
       IN  RepeatsIdle(before, journal[i]) \/ JoinsLate(before, journal[i])

(* The executor implements the journal that replay believes in: every      *)
(* append is admissible after what is durable before it.                   *)
ImplementsHistory == Spec

(* Nothing is observed before it is durable: the edges that fired, and the *)
(* status and artifact of every settled node, are those of one durable     *)
(* settlement.                                                             *)
DurableBeforeObserved ==
  /\ fired \subseteq FiredIn(journal)
  /\ \A n \in Settled : \E i \in At(journal, "node_settled") :
       /\ journal[i].node = n /\ journal[i].status = status[n]
       /\ journal[i].output = output[n] /\ journal[i].fired \subseteq fired

(* No runner is dispatched without a durable claim of its exact work, and  *)
(* no work is in flight under an attempt that has settled.                 *)
ClaimBeforeDispatch ==
  phase \in {"run", "settle", "verdict"} =>
    \A k \in DOMAIN slice :
      /\ \E i \in StartsOf(journal, slice[k].attempt) :
           journal[i].node = slice[k].node /\ journal[i].input = slice[k].input
      /\ k >= pos => slice[k].attempt \notin SettledAttempts(journal)

(* What completed rests on current evidence: the settlement of a completed *)
(* all-join was made from the artifacts its predecessors have now.         *)
NoStaleEvidence ==
  \A n \in Settled \ AnyJoin : status[n] = "completed" =>
    \E i \in At(journal, "node_settled") :
      /\ journal[i].node = n /\ journal[i].output = output[n]
      /\ journal[i].input = InputOf(n)

(* The fired, completed predecessors of n with their artifacts, by their   *)
(* newest settlements in the journal.                                      *)
EvidenceIn(j, n) ==
  LET newest(e) == j[TrustedIn(j, e.source)]
  IN  {<<e.source, newest(e).output>> :
         e \in {i \in Incoming(TopologyAt(j), n) :
                  /\ TrustedIn(j, i.source) # 0
                  /\ newest(i).status = "completed" /\ i \in newest(i).fired}}

(* Settled work is not done twice: a node whose newest settlement routes   *)
(* runs again only if it is a read node (its artifact may be missing), or  *)
(* what it would consume now is not what that settlement consumed.  (An    *)
(* any-join may be refused while one of its routes is still to be reused.) *)
SettledWorkIsKept ==
  [][\A i \in DOMAIN journal' \ DOMAIN journal :
       LET n == journal'[i].node
           k == TrustedIn(journal, n)
       IN  journal'[i].type = "node_started" /\ k # 0 =>
             \/ n \in ReadNode \cup AnyJoin
             \/ journal[k].input # EvidenceIn(journal, n)]_vars

(* An activation claims at most MaxNodes nodes, and holds at most          *)
(* MaxConcurrency claims that have not settled.                            *)
BudgetRespected ==
  phase # "down" =>
    LET claims == Segment(journal) \cap At(journal, "node_started")
    IN  /\ Cardinality(claims) <= MaxNodes
        /\ Cardinality({i \in claims : journal[i].attempt \notin SettledAttempts(journal)})
              <= MaxConcurrency

(* Every activation ends, whatever its runners answer and however much of  *)
(* its topology is retired.                                                *)
ActivationEnds == (phase = "plan") ~> (phase \in {"down", "ended"})
=============================================================================
