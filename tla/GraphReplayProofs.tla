-------------------------- MODULE GraphReplayProofs --------------------------
(***************************************************************************)
(* What the executor leaves in its journal is what replay believes in.     *)
(* The theorems are about the runs the code starts today: no patch is      *)
(* admitted (MaxExpansions = 0, admitted-construct-run.ts:2868), so memory *)
(* and journal imply one topology.  The inductive invariant relates the    *)
(* wave being scheduled, the slice in flight, the settlements not yet      *)
(* observed and the activation's memory to the journal.                    *)
(***************************************************************************)
EXTENDS GraphRunProofs

Graph == Topology({})

SliceNodes == {slice[k].node : k \in DOMAIN slice}
SettlingNodes == {settling[k].node : k \in DOMAIN settling}

(* No patch is journaled, applied, owed or carried by a settlement.        *)
NoGrowth ==
  /\ At(journal, "patch_admitted") = {}
  /\ applied = <<>> /\ proven = {}
  /\ \A n \in Node : orphan[n] = NoPatch
  /\ \A i \in At(journal, "node_settled") : journal[i].patch = NoPatch
  /\ phase = "verdict" => Emitted = NoPatch

(* Past its opening the activation has a header, under an id of its own.   *)
Opened ==
  /\ Live /\ phase # "open" => At(journal, "run_header") # {}
  /\ FreshIds /\ phase = "open" =>
       \A h \in At(journal, "run_header") : journal[h].id < minted

Mid == phase \in {"reuse", "slice", "claim", "run", "settle", "verdict"}

InWave == Elems(todo) \cup Elems(fresh) \cup SliceNodes \cup SettlingNodes

(* The nodes of the wave are ready nodes of the graph, not yet observed.   *)
Scheduled ==
  Mid => \A n \in InWave :
    n \in Graph.nodes /\ n \notin Settled /\ Ready(Graph, fired, n)

(* Each of them is at one place of the wave.                               *)
Once(s) == \A i, k \in DOMAIN s : s[i] = s[k] => i = k
OncePerNode(s) == \A i, k \in DOMAIN s : s[i].node = s[k].node => i = k
Apart ==
  Mid =>
    /\ Once(todo) /\ Once(fresh) /\ OncePerNode(slice) /\ OncePerNode(settling)
    /\ Elems(todo) \cap Elems(fresh) = {}
    /\ (SliceNodes \cup SettlingNodes) \cap Elems(fresh) = {}
    /\ \A k \in DOMAIN slice : (Settling => k >= pos) => slice[k].node \notin SettlingNodes

(* A settlement fires edges of its own node, and only if it routes.        *)
OwnEdges ==
  \A i \in At(journal, "node_settled") :
    \A e \in journal[i].fired : e.source = journal[i].node /\ Routes(journal[i])

(* What has fired was fired by settled nodes, and joins are complete.      *)
Sourced == \A e \in fired : e.source \in Settled
Joins == \A n \in Settled \ AnyJoin : Incoming(Graph, n) \subseteq fired

(* The evidence for n: the artifacts of its fired, completed predecessors. *)
InputAt(st, out, f, n) ==
  {<<e.source, out[e.source]>> :
     e \in {i \in Incoming(Graph, n) \cap f : st[i.source] = "completed"}}

(* The work of the wave was given the evidence there is now.               *)
Evident ==
  Mid =>
    /\ \A k \in DOMAIN slice :
         slice[k].node \notin AnyJoin =>
           slice[k].input = InputAt(status, output, fired, slice[k].node)
    /\ \A k \in DOMAIN settling :
         settling[k].node \notin AnyJoin =>
           settling[k].input = InputAt(status, output, fired, settling[k].node)

(* And so was what completed.                                              *)
Rested ==
  \A n \in Settled \ AnyJoin : status[n] = "completed" =>
    \E i \in At(journal, "node_settled") :
      /\ journal[i].node = n /\ journal[i].output = output[n]
      /\ journal[i].input = InputAt(status, output, fired, n)

SettledHere(j) == Segment(j) \cap At(j, "node_settled")

(* The settlements of the open segment are of earlier waves, or of this.   *)
Waves ==
  Live /\ phase # "open" =>
    \A i \in SettledHere(journal) :
      journal[i].wave < wave \/ (journal[i].wave = wave /\ journal[i] \in Elems(settling))

(* The claims of the slice are of this wave.                               *)
WaveClaimed ==
  phase \in {"claim", "run", "settle", "verdict"} =>
    \A k \in DOMAIN slice : (phase = "claim" => k < pos) =>
      \E i \in At(journal, "node_started") : ClaimOf(i, slice[k]) /\ journal[i].wave = wave

(* A wave that the budget fits in one slice is dispatched in one.          *)
OneSlice ==
  MaxNodes <= MaxConcurrency =>
    /\ phase \in {"claim", "run", "settle", "verdict"} => fresh = <<>>
    /\ phase \in {"claim", "run"} => settling = <<>>
    /\ phase = "slice" /\ fresh # <<>> => settling = <<>>

Rooted ==
  \A i \in At(journal, "node_started") \cup At(journal, "node_settled") :
    journal[i].node \in Graph.nodes /\ Ready(Graph, FiredIn(journal), journal[i].node)

Recorded == \A i \in DOMAIN journal : Admissible(SubSeq(journal, 1, i - 1), journal[i])

(* Activation ids follow the claims that were durable before them: none is *)
(* ahead of the ids in use by more than one, and none is reached by an     *)
(* attempt of an earlier activation.                                       *)
IdsNear ==
  \A h \in At(journal, "run_header") : \E b \in IdsIn(journal) : journal[h].id <= b + 1
IdsOrdered ==
  \A h \in At(journal, "run_header"), i \in At(journal, "node_started") :
    h < i => journal[h].id < journal[i].attempt
Numbered ==
  /\ IdsNear /\ IdsOrdered
  /\ phase = "open" => minted = LastId(journal) + 1
  /\ Live /\ phase # "open" =>
       \A h \in At(journal, "run_header") : journal[h].id <= minted - Len(slice)

(* Each entry is admissible, or one of those that replay refuses.          *)
Explained(j, e) == Admissible(j, e) \/ RepeatsIdle(j, e) \/ JoinsLate(j, e)
Judged == \A i \in DOMAIN journal : Explained(SubSeq(journal, 1, i - 1), journal[i])

(* What the activation trusts of a node is what the journal says of it     *)
(* until the node settles anew.                                            *)
Trust ==
  Live => \A n \in Node :
    \/ trusted[n] = TrustedIn(journal, n) \/ n \in Settled
    \/ \E k \in DOMAIN settling : settling[k].node = n /\ Routes(settling[k])

Current ==
  /\ \A e \in fired :
       LET k == TrustedIn(journal, e.source)
       IN  /\ k # 0 /\ e \in journal[k].fired
           /\ journal[k].status = status[e.source] /\ journal[k].output = output[e.source]
  /\ Mid => \A k \in DOMAIN settling : Routes(settling[k]) =>
       LET i == TrustedIn(journal, settling[k].node)
       IN  i # 0 /\ journal[i] = settling[k]

Refused ==
  Mid => \A n \in Elems(fresh) \cup SliceNodes :
    \/ trusted[n] = 0 \/ n \in ReadNode \cup AnyJoin
    \/ journal[trusted[n]].input # InputAt(status, output, fired, n)

-----------------------------------------------------------------------------
(* The steps of a run without patches, by what they change.                *)

(* Nothing that the journal, the wave or the evidence is made of.          *)
Same ==
  /\ UNCHANGED <<journal, applied, proven, orphan, trusted, status, output, fired, wave, todo,
                 fresh, settling, pos, minted>>
  /\ Len(slice') = Len(slice) /\ DOMAIN slice' = DOMAIN slice
  /\ \A k \in DOMAIN slice : /\ slice'[k].attempt = slice[k].attempt
                             /\ slice'[k].node = slice[k].node
                             /\ slice'[k].input = slice[k].input
  /\ \/ phase' \in {phase, "ended"}
     \/ phase = "run" /\ phase' = "settle"
     \/ phase = "settle" /\ phase' = "verdict"

(* Memory is lost or rebuilt.                                              *)
Restarts ==
  /\ journal' = journal /\ phase' \in {"down", "ended", "open"}
  /\ applied' = <<>> /\ slice' = <<>> /\ settling' = <<>> /\ fired' = {}
  /\ proven' = {} /\ orphan' = [n \in Node |-> NoPatch] /\ status' = [n \in Node |-> "none"]
  /\ phase' = "open" => Activate

(* The head of todo is to be dispatched.                                   *)
Chosen ==
  /\ phase = "reuse" /\ phase' = "reuse" /\ todo # <<>>
  /\ fresh' = Append(fresh, Head(todo)) /\ todo' = Tail(todo)
  /\ UNCHANGED <<journal, applied, proven, orphan, trusted, status, output, fired, wave, slice,
                 settling, pos>>
  /\ trusted[Head(todo)] = 0 \/ Head(todo) \in ReadNode \/ ~SameInput(Head(todo))

LEMMA GraphsAgree ==
  ASSUME NoGrowth
  PROVE  /\ PatchesOf(journal) = {} /\ AppliedIn(journal) = {} /\ OrphansIn(journal) = {}
         /\ TopologyAt(journal) = Graph /\ Topo = Graph /\ Elems(applied) = {}
<1>1. PatchesOf(journal) = {}  BY DEF NoGrowth, PatchesOf
<1> QED  BY <1>1, NoElems DEF NoGrowth, AppliedIn, OrphansIn, TopologyAt, Graph, Topo

LEMMA NoPatchAdmitted == ASSUME Typed, NoGrowth, MaxExpansions = 0 PROVE ~AdmitPatch
<1> SUFFICES ASSUME AdmitPatch PROVE FALSE
  OBVIOUS
<1>1. Emitted \in Patch /\ phase = "settle"  BY PatchTyped
<1>2. slice[pos].node \in Node  BY <1>1, AtPos DEF WorkSet
<1>3. ~Historical(Emitted)  BY <1>1, <1>2, TopologyAssumption DEF Historical, NoGrowth, TopologyAssumption
<1>4. ~(expansions < MaxExpansions)  BY DEF Typed, TypeOK
<1> QED  BY <1>3, <1>4 DEF AdmitPatch

(* Nothing is listed of nothing.                                           *)
LEMMA EmptyListing ==
  ASSUME NEW s, NEW T, T = {}, s \in [1 .. Cardinality(T) -> T]
  PROVE  s = <<>>
<1>1. Cardinality(T) = 0  BY FS_EmptySet
<1>2. s \in [1 .. 0 -> {}]  BY <1>1
<1>3. DOMAIN s = {} /\ DOMAIN <<>> = {}  BY <1>2
<1>4. s \in Seq({}) /\ <<>> \in Seq({}) /\ Len(s) = 0  BY <1>2, <1>3, SeqDef, LenProperties
<1> QED  BY <1>4, EmptySeq

LEMMA RestartsAre ==
  ASSUME NoGrowth, Crash \/ ActivateRefused \/ Activate PROVE Restarts
<1>1. CASE Crash \/ ActivateRefused  BY <1>1 DEF Crash, ActivateRefused, End, Blank, Restarts
<1>2. CASE Activate
  <2>1. applied' \in [1 .. Cardinality(AppliedIn(journal)) -> AppliedIn(journal)]
    BY <1>2 DEF Activate, Listings
  <2>2. applied' = <<>>  BY <2>1, GraphsAgree, EmptyListing
  <2>3. proven' = {} /\ orphan' = [n \in Node |-> NoPatch]
    BY <1>2, GraphsAgree DEF Activate, Listings
  <2> QED  BY <1>2, <2>2, <2>3 DEF Activate, Listings, Restarts
<1> QED  BY <1>1, <1>2

LEMMA ChoosesAre ==
  ASSUME Typed, NoGrowth, RunFresh \/ RefuseReuse \/ ArtifactMissing PROVE Chosen \/ Same
<1>1. CASE RunFresh  BY <1>1 DEF RunFresh, resumed, observed, sliceVars, Chosen
<1>2. CASE RefuseReuse
  <2>1. Generations(Head(todo)) = {}  BY DEF Generations, NoGrowth
  <2>2. Without({}) \subseteq [1 .. Cardinality(Elems(applied)) -> Elems(applied)]
    BY DEF Without, Listings
  <2>3. applied' \in Without({})  BY <1>2, <2>1 DEF RefuseReuse
  <2>4. applied' = applied  BY <2>2, <2>3, GraphsAgree, EmptyListing DEF NoGrowth
  <2>5. trusted' = trusted
    <3>1. trusted' = [n \in Node |-> trusted[n]]  BY <1>2, <2>1 DEF RefuseReuse
    <3>2. trusted \in [Node -> 0 .. Len(journal)]  BY DEF Typed, TypeOK
    <3> QED  BY <3>1, <3>2
  <2> QED  BY <1>2, <2>1, <2>4, <2>5 DEF RefuseReuse, observed, sliceVars, Chosen
<1>3. CASE ArtifactMissing
  <2>1. CASE Head(todo) \in ReadNode
    BY <1>3, <2>1 DEF ArtifactMissing, resumed, observed, sliceVars, Chosen
  <2>2. CASE Head(todo) \notin ReadNode
    BY <1>3, <2>2 DEF ArtifactMissing, End, resumed, observed, sliceVars, Same
  <2> QED  BY <2>1, <2>2
<1> QED  BY <1>1, <1>2, <1>3

LEMMA SamesAre ==
  ASSUME Typed,
         AppendFails \/ Stop \/ ArtifactForeign \/ AbortedBetweenSlices \/ Abort \/ Elapse
           \/ UNCHANGED vars \/ PatchRefused \/ (\E i \in 1 .. MaxConcurrency : RunnerReturns(i))
  PROVE  Same
<1>1. CASE AppendFails \/ Stop \/ ArtifactForeign \/ AbortedBetweenSlices
  BY <1>1 DEF AppendFails, Stop, ArtifactForeign, AbortedBetweenSlices, End, resumed, observed,
              waveVars, sliceVars, Same
<1>2. CASE Abort \/ Elapse \/ UNCHANGED vars
  BY <1>2 DEF Abort, Elapse, vars, resumed, observed, waveVars, sliceVars, Same
<1>3. CASE PatchRefused
  BY <1>3, SameWork DEF PatchRefused, resumed, observed, waveVars, Same
<1>4. CASE \E i \in 1 .. MaxConcurrency : RunnerReturns(i)
  BY <1>4, SameWork DEF RunnerReturns, resumed, observed, waveVars, Same
<1> QED  BY <1>1, <1>2, <1>3, <1>4

LEMMA PlainSteps ==
  ASSUME Typed, NoGrowth, MaxExpansions = 0, [NextRun]_vars
  PROVE  \/ Same \/ Restarts \/ Chosen \/ OpenHeader \/ PlanWave \/ Reuse \/ ReuseDecided
         \/ TakeSlice \/ Claim \/ Settle \/ EndWave
BY Steps, NoPatchAdmitted, RestartsAre, ChoosesAre, SamesAre DEF Quiet, Plans

-----------------------------------------------------------------------------
(* What the other steps do.                                                *)

LEMMA DeclaredOnce ==
  ASSUME NEW n, applied = <<>>, DeclaredBefore(applied, n, n) PROVE FALSE
<1>1. Len(applied) = 0  BY NoElems
<1>2. PICK k \in {0} : \E l \in {0} :
        \E i \in DOMAIN (IF k = 0 THEN Base.nodes ELSE Body[applied[k]].nodes),
           j \in DOMAIN (IF l = 0 THEN Base.nodes ELSE Body[applied[l]].nodes) :
          /\ (IF k = 0 THEN Base.nodes ELSE Body[applied[k]].nodes)[i] = n
          /\ (IF l = 0 THEN Base.nodes ELSE Body[applied[l]].nodes)[j] = n
          /\ k = l => i < j
  <2>1. 0 .. Len(applied) = {0} /\ \A k \in {0} : k .. Len(applied) = {0}  BY <1>1
  <2> QED  BY <2>1 DEF DeclaredBefore
<1>4. PICK i \in DOMAIN Base.nodes, j \in DOMAIN Base.nodes :
        Base.nodes[i] = n /\ Base.nodes[j] = n /\ i < j
  BY <1>2
<1>5. Base.nodes \in Seq(Node) /\ i = j  BY <1>4, TopologyAssumption DEF TopologyAssumption
<1>6. i \in Nat  BY <1>5
<1> QED  BY <1>4, <1>5, <1>6

LEMMA PlanIs ==
  ASSUME Typed, NoGrowth, PlanWave
  PROVE  /\ phase = "plan" /\ phase' = "reuse" /\ fresh' = <<>> /\ slice' = <<>> /\ settling' = <<>>
         /\ Once(todo') /\ Elems(todo') \subseteq ReadyNodes(Graph, fired, Settled)
         /\ UNCHANGED <<journal, applied, proven, orphan, trusted, status, output, fired, wave>>
<1>1. /\ phase = "plan" /\ phase' = "reuse" /\ fresh' = <<>>
      /\ UNCHANGED <<journal, applied, proven, orphan, trusted, status, output, fired, wave, slice,
                     settling>>
  BY DEF PlanWave, Listings, resumed, observed, sliceVars
<1>2. slice = <<>> /\ settling = <<>>  BY <1>1 DEF Typed, Shape
<1>3. ReadyNow = ReadyNodes(Graph, fired, Settled)  BY GraphsAgree DEF ReadyNow
<1>4. /\ todo' \in [1 .. Cardinality(ReadyNow) -> ReadyNow]
      /\ \A i, j \in DOMAIN todo' : i < j => DeclaredBefore(applied, todo'[i], todo'[j])
  BY DEF PlanWave, Listings
<1>5. Elems(todo') \subseteq ReadyNow  BY <1>4 DEF Elems
<1>6. Once(todo')
  <2> SUFFICES ASSUME NEW i \in DOMAIN todo', NEW j \in DOMAIN todo', todo'[i] = todo'[j], i # j
               PROVE  FALSE
    BY DEF Once
  <2>1. i \in Int /\ j \in Int  BY <1>4
  <2>2. i < j \/ j < i  BY <2>1
  <2>3. DeclaredBefore(applied, todo'[i], todo'[i])  BY <1>4, <2>2
  <2> QED  BY <2>3, DeclaredOnce DEF NoGrowth
<1> QED  BY <1>1, <1>2, <1>3, <1>5, <1>6

LEMMA ReuseIs ==
  ASSUME Typed, TrustedShown, Reuse
  PROVE  LET n == Head(todo)
             s == journal[trusted[n]]
         IN  /\ n \in Node /\ trusted[n] \in At(journal, "node_settled") /\ s.node = n
             /\ InputOf(n) = s.input
             /\ status' = [status EXCEPT ![n] = s.status]
             /\ output' = [output EXCEPT ![n] = s.output]
             /\ status'[n] = s.status /\ output'[n] = s.output
             /\ \A m \in Node : m # n => status'[m] = status[m] /\ output'[m] = output[m]
             /\ fired' = fired \cup s.fired /\ todo # <<>> /\ todo' = Tail(todo)
             /\ phase = "reuse" /\ phase' = "reuse"
             /\ UNCHANGED <<journal, applied, proven, orphan, trusted, wave, fresh, slice, pos,
                            settling>>
<1> DEFINE n == Head(todo)
           s == journal[trusted[n]]
<1>1. n \in Node  BY HeadTailProperties DEF Reuse, Typed, TypeOK
<1>2. /\ status' = [status EXCEPT ![n] = s.status]
      /\ output' = [output EXCEPT ![n] = s.output]
      /\ fired' = fired \cup s.fired /\ todo # <<>> /\ todo' = Tail(todo)
      /\ phase = "reuse" /\ phase' = "reuse" /\ InputOf(n) = s.input /\ trusted[n] # 0
      /\ UNCHANGED <<journal, applied, proven, orphan, trusted, wave, fresh, slice, pos, settling>>
  BY DEF Reuse, SameInput, resumed, sliceVars
<1>3. trusted[n] \in At(journal, "node_settled") /\ s.node = n
  BY <1>1, <1>2 DEF TrustedShown
<1>4. status \in [Node -> StatusKind] /\ output \in [Node -> Artifact]
  BY DEF Typed, TypeOK, StatusKind, Artifact
<1> HIDE DEF n, s
<1>5. /\ status'[n] = s.status /\ output'[n] = s.output
      /\ \A m \in Node : m # n => status'[m] = status[m] /\ output'[m] = output[m]
  BY <1>1, <1>2, <1>4
<1> QED  BY <1>1, <1>2, <1>3, <1>5 DEF n, s

LEMMA ReuseDecidedIs ==
  ASSUME ReuseDecided
  PROVE  /\ phase = "reuse" /\ phase' \in {"plan", "ended", "slice"} /\ todo = <<>>
         /\ wave' = wave \/ (phase' = "plan" /\ wave' = wave + 1)
         /\ UNCHANGED <<journal, applied, proven, orphan, trusted, status, output, fired, todo,
                        fresh, slice, pos, settling>>
BY DEF ReuseDecided, End, resumed, observed, sliceVars

LEMMA SettlementOf ==
  ASSUME NEW s, NEW w, NEW o, NEW edges, NEW g, NEW said,
         edges = EdgeVerdict(g, s.node, o, said)
  PROVE  LET e == SettledBy(s, w, o, edges)
         IN  /\ e.type = "node_settled" /\ e.node = s.node /\ e.attempt = s.attempt
             /\ e.input = s.input /\ e.wave = w /\ e.patch = o.patch /\ e.status = o.status
             /\ e.fired = EdgeVerdict(g, e.node, e, said)
BY DEF SettledBy, EdgeVerdict, Routes, RouteOf

LEMMA SettleIs ==
  ASSUME Typed, NoGrowth, Settle
  PROVE  \E e \in SettledSet, said \in SUBSET Said :
           /\ journal' = Append(journal, e) /\ settling' = Append(settling, e)
           /\ e.type = "node_settled" /\ e.node = slice[pos].node /\ e.attempt = slice[pos].attempt
           /\ e.input = slice[pos].input /\ e.wave = wave /\ e.patch = NoPatch
           /\ e.fired = EdgeVerdict(Graph, e.node, e, said)
<1>1. phase \in {"settle", "verdict"}  BY DEF Settle
<1>2. slice[pos] \in WorkSet  BY <1>1, AtPos
<1>3. orphan[slice[pos].node] = NoPatch /\ Emitted = NoPatch
  BY <1>2 DEF NoGrowth, WorkSet, Settle
<1>4. FinalOutcome = slice[pos].outcome /\ FinalOutcome.patch = NoPatch
  BY <1>3 DEF FinalOutcome, Emitted
<1>5. PICK said \in SUBSET Said :
        LET e == SettledBy(slice[pos], wave, FinalOutcome,
                           EdgeVerdict(Topo, slice[pos].node, FinalOutcome, said))
        IN  journal' = Append(journal, e) /\ settling' = Append(settling, e)
  BY DEF Settle
<1> DEFINE edges == EdgeVerdict(Topo, slice[pos].node, FinalOutcome, said)
           e == SettledBy(slice[pos], wave, FinalOutcome, edges)
<1>6. edges \subseteq Edge  BY TopoTyped DEF EdgeVerdict
<1>7. FinalOutcome \in OutcomeSet  BY <1>2, <1>4 DEF WorkSet
<1> HIDE DEF edges
<1>8. e \in SettledSet
  BY <1>2, <1>6, <1>7 DEF SettledBy, SettledSet, WorkSet, OutcomeSet, Typed, TypeOK
<1>9. edges = EdgeVerdict(Graph, slice[pos].node, FinalOutcome, said)
  BY GraphsAgree DEF edges
<1> HIDE DEF e
<1>10. journal' = Append(journal, e) /\ settling' = Append(settling, e)
  BY <1>5 DEF e, edges
<1>11. /\ e.type = "node_settled" /\ e.node = slice[pos].node /\ e.attempt = slice[pos].attempt
       /\ e.input = slice[pos].input /\ e.wave = wave /\ e.patch = NoPatch
       /\ e.fired = EdgeVerdict(Graph, e.node, e, said)
  BY <1>4, <1>9, SettlementOf DEF e
<1> QED  BY <1>8, <1>10, <1>11

LEMMA TakeSliceIs ==
  ASSUME Typed, TakeSlice
  PROVE  /\ phase = "slice" /\ phase' = "claim" /\ slice = <<>> /\ pos' = 1
         /\ Len(slice') \in Nat \ {0} /\ Len(fresh) \in Nat /\ Len(slice') <= Len(fresh)
         /\ DOMAIN slice' = 1 .. Len(slice') /\ DOMAIN fresh = 1 .. Len(fresh)
         /\ DOMAIN fresh' = 1 .. Len(fresh) - Len(slice')
         /\ \A k \in DOMAIN slice' : slice'[k].node = fresh[k] /\ slice'[k].input = InputOf(fresh[k])
         /\ \A i \in DOMAIN fresh' : fresh'[i] = fresh[Len(slice') + i]
         /\ Len(fresh) <= MaxConcurrency => fresh' = <<>>
         /\ UNCHANGED <<journal, applied, proven, orphan, trusted, status, output, fired, wave, todo,
                        settling>>
<1> DEFINE size == IF Len(fresh) < MaxConcurrency THEN Len(fresh) ELSE MaxConcurrency
<1>1. /\ size \in Nat \ {0} /\ size <= Len(fresh) /\ fresh \in Seq(Node) /\ Len(fresh) \in Nat
  BY RunAssumption, LenProperties, EmptySeq DEF RunAssumption, TakeSlice, Typed, TypeOK
<1>0. /\ DOMAIN fresh = 1 .. Len(fresh)
      /\ Len(fresh) <= MaxConcurrency => size = Len(fresh)
  BY <1>1, RunAssumption, LenProperties DEF RunAssumption
<1>2. /\ slice' = [i \in 1 .. size |-> Work(fresh[i], minted + i, InputOf(fresh[i]))]
      /\ fresh' = SubSeq(fresh, size + 1, Len(fresh))
  BY DEF TakeSlice
<1> HIDE DEF size
<1>3. slice' \in Seq(WorkSet)  BY TypedTakeSlice DEF Typed
<1>4. /\ DOMAIN slice' = 1 .. size
      /\ \A k \in 1 .. size : slice'[k].node = fresh[k] /\ slice'[k].input = InputOf(fresh[k])
  BY <1>2 DEF Work
<1>5. Len(slice') = size  BY <1>1, <1>3, <1>4, LenProperties, SameInterval
<1>6. /\ fresh' \in Seq(Node) /\ Len(fresh') = Len(fresh) - size
      /\ \A i \in 1 .. Len(fresh) - size : fresh'[i] = fresh[size + i]
  <2>1. \A i \in size + 1 .. Len(fresh) : fresh[i] \in Node  BY <1>1, ElementOfSeq
  <2> QED  BY <1>1, <1>2, <2>1, SubSeqProperties
<1>7. DOMAIN fresh' = 1 .. Len(fresh) - size  BY <1>6, LenProperties
<1>8. Len(fresh) <= MaxConcurrency => fresh' = <<>>
  <2>1. Len(fresh) <= MaxConcurrency => Len(fresh') = 0  BY <1>0, <1>1, <1>6
  <2> QED  BY <1>6, <2>1, EmptySeq
<1>9. /\ phase = "slice" /\ phase' = "claim" /\ pos' = 1
      /\ UNCHANGED <<journal, applied, proven, orphan, trusted, status, output, fired, wave, todo,
                     settling>>
  BY DEF TakeSlice, resumed, observed
<1>10. slice = <<>>  BY <1>9 DEF Typed, Shape
<1> QED  BY <1>0, <1>1, <1>4, <1>5, <1>6, <1>7, <1>8, <1>9, <1>10

(* The slice and what stays fresh are parts of what was fresh.             *)
LEMMA TakeSliceSplits ==
  ASSUME Typed, TakeSlice
  PROVE  /\ SliceNodes' \cup Elems(fresh') \subseteq Elems(fresh)
         /\ Once(fresh) => /\ Once(fresh') /\ OncePerNode(slice')
                           /\ SliceNodes' \cap Elems(fresh') = {}
<1> DEFINE size == Len(slice')
<1>1. /\ size \in Nat \ {0} /\ Len(fresh) \in Nat /\ size <= Len(fresh)
      /\ DOMAIN slice' = 1 .. size /\ DOMAIN fresh = 1 .. Len(fresh)
      /\ DOMAIN fresh' = 1 .. Len(fresh) - size
      /\ \A k \in DOMAIN slice' : slice'[k].node = fresh[k]
      /\ \A i \in DOMAIN fresh' : fresh'[i] = fresh[size + i]
  BY TakeSliceIs
<1> HIDE DEF size
<1>2. /\ \A k \in DOMAIN slice' : k \in DOMAIN fresh
      /\ \A i \in DOMAIN fresh' : size + i \in DOMAIN fresh
      /\ \A i \in DOMAIN fresh', k \in DOMAIN slice' : size + i # k
      /\ \A i, k \in DOMAIN fresh' : size + i = size + k => i = k
  BY <1>1
<1>3. SliceNodes' \cup Elems(fresh') \subseteq Elems(fresh)
  BY <1>1, <1>2, Zenon DEF SliceNodes, Elems
<1>4. ASSUME Once(fresh) PROVE Once(fresh')  BY <1>1, <1>2, <1>4, Zenon DEF Once
<1>5. ASSUME Once(fresh) PROVE OncePerNode(slice')
  BY <1>1, <1>2, <1>5, Zenon DEF Once, OncePerNode
<1>6. ASSUME Once(fresh), NEW n, n \in SliceNodes', n \in Elems(fresh') PROVE FALSE
  <2>1. PICK k \in DOMAIN slice' : slice'[k].node = n  BY <1>6, Zenon DEF SliceNodes
  <2>2. PICK i \in DOMAIN fresh' : fresh'[i] = n  BY <1>6, Zenon DEF Elems
  <2>3. fresh[k] = fresh[size + i]  BY <1>1, <2>1, <2>2
  <2>4. k = size + i  BY <1>2, <1>6, <2>1, <2>2, <2>3, Zenon DEF Once
  <2> QED  BY <1>2, <2>1, <2>2, <2>4
<1> QED  BY <1>3, <1>4, <1>5, <1>6

LEMMA EndWaveIs ==
  ASSUME Typed, EndWave
  PROVE  /\ phase = "slice" /\ phase' \in {"plan", "ended"} /\ fresh = <<>> /\ settling' = <<>>
         /\ phase' = "plan" => wave' = wave + 1
         /\ \A n \in Node \ SettlingNodes : status'[n] = status[n] /\ output'[n] = output[n]
         /\ OncePerNode(settling) =>
              \A k \in DOMAIN settling : /\ status'[settling[k].node] = settling[k].status
                                         /\ output'[settling[k].node] = settling[k].output
         /\ fired' = fired \cup UNION {settling[k].fired : k \in DOMAIN settling}
         /\ UNCHANGED <<journal, applied, proven, orphan, trusted, todo, fresh, slice>>
<1> DEFINE of(n) == {s \in Elems(settling) : s.node = n}
<1>1. /\ status' = [n \in Node |-> IF of(n) = {} THEN status[n] ELSE (CHOOSE s \in of(n) : TRUE).status]
      /\ output' = [n \in Node |-> IF of(n) = {} THEN output[n] ELSE (CHOOSE s \in of(n) : TRUE).output]
      /\ fired' = fired \cup UNION {s.fired : s \in Elems(settling)}
  BY DEF EndWave
<1>2. /\ phase = "slice" /\ phase' \in {"plan", "ended"} /\ fresh = <<>> /\ settling' = <<>>
      /\ phase' = "plan" => wave' = wave + 1
      /\ UNCHANGED <<journal, applied, proven, orphan, trusted, todo, fresh, slice>>
  BY DEF EndWave, End, resumed
<1>3. UNION {s.fired : s \in Elems(settling)} = UNION {settling[k].fired : k \in DOMAIN settling}
  BY DEF Elems
<1>4. ASSUME NEW n \in Node \ SettlingNodes PROVE status'[n] = status[n] /\ output'[n] = output[n]
  <2>1. of(n) = {}  BY DEF Elems, SettlingNodes
  <2> HIDE DEF of
  <2> QED  BY <1>1, <2>1
<1>5. ASSUME OncePerNode(settling), NEW k \in DOMAIN settling
      PROVE  status'[settling[k].node] = settling[k].status
             /\ output'[settling[k].node] = settling[k].output
  <2> DEFINE n == settling[k].node
  <2>1. settling[k] \in of(n)  BY DEF Elems
  <2>2. \A s \in of(n) : s = settling[k]  BY <1>5 DEF OncePerNode, Elems
  <2>3. n \in Node
    <3>1. settling[k] \in SettledSet  BY DEF Typed
    <3> QED  BY <3>1 DEF SettledSet
  <2> HIDE DEF of, n
  <2>4. (CHOOSE s \in of(n) : TRUE) = settling[k]  BY <2>1, <2>2
  <2>5. of(n) # {}  BY <2>1
  <2>6. status'[n] = settling[k].status /\ output'[n] = settling[k].output
    BY <1>1, <2>3, <2>4, <2>5
  <2> QED  BY <2>6 DEF n
<1> HIDE DEF of
<1> QED  BY <1>1, <1>2, <1>3, <1>4, <1>5

(* A settlement joins the settlements of the wave.                         *)
LEMMA SettlingGrows ==
  ASSUME Typed, NEW e \in SettledSet, settling' = Append(settling, e)
  PROVE  /\ Len(settling) \in Nat /\ DOMAIN settling = 1 .. Len(settling)
         /\ Len(settling) + 1 \notin DOMAIN settling
         /\ DOMAIN settling' = DOMAIN settling \cup {Len(settling) + 1}
         /\ \A k \in DOMAIN settling : settling'[k] = settling[k]
         /\ settling'[Len(settling) + 1] = e
         /\ SettlingNodes' = SettlingNodes \cup {e.node}
<1>1. settling \in Seq(SettledSet)  BY DEF Typed
<1>2. /\ settling' \in Seq(SettledSet) /\ Len(settling') = Len(settling) + 1
      /\ \A i \in 1 .. Len(settling) : settling'[i] = settling[i]
      /\ settling'[Len(settling) + 1] = e /\ Len(settling) \in Nat
  BY <1>1, AppendProperties, LenProperties
<1>3. DOMAIN settling = 1 .. Len(settling) /\ DOMAIN settling' = 1 .. Len(settling) + 1
  BY <1>1, <1>2, LenProperties
<1>4. /\ DOMAIN settling' = DOMAIN settling \cup {Len(settling) + 1}
      /\ \A k \in DOMAIN settling : settling'[k] = settling[k]
      /\ Len(settling) + 1 \notin DOMAIN settling
  BY <1>2, <1>3
<1>5. SettlingNodes' = {settling'[k].node : k \in DOMAIN settling'}  BY DEF SettlingNodes
<1>6. SettlingNodes' = {settling[k].node : k \in DOMAIN settling} \cup {e.node}
  BY <1>2, <1>4, <1>5
<1> QED  BY <1>2, <1>3, <1>4, <1>6 DEF SettlingNodes

(* The slice goes on, or is done.                                          *)
LEMMA SettleMoves ==
  ASSUME Typed, Settle
  PROVE  /\ Settling /\ pos \in 1 .. Len(slice) /\ Len(slice) \in Nat /\ DOMAIN slice = 1 .. Len(slice)
         /\ \/ pos' = pos + 1 /\ phase' = "settle" /\ slice' = slice
            \/ phase' = "slice" /\ slice' = <<>>
         /\ UNCHANGED <<applied, proven, orphan, trusted, status, output, fired, wave, todo, fresh>>
<1>1. phase \in {"settle", "verdict"}  BY DEF Settle
<1> QED
  BY <1>1, AtPos DEF Settle, Settling, resumed, observed, waveVars

LEMMA ClaimMoves ==
  ASSUME Typed, Claim
  PROVE  /\ phase = "claim" /\ phase' \in {"claim", "run"}
         /\ pos \in 1 .. Len(slice) /\ Len(slice) \in Nat /\ DOMAIN slice = 1 .. Len(slice)
         /\ phase' = "claim" => pos' = pos + 1
         /\ phase' = "run" => pos = Len(slice) /\ pos' = 1
         /\ Started(slice[pos].node, slice[pos].attempt, slice[pos].input, wave) \in StartedSet
         /\ journal' = Append(journal, Started(slice[pos].node, slice[pos].attempt,
                                               slice[pos].input, wave))
         /\ UNCHANGED <<applied, proven, orphan, trusted, status, output, fired, wave, todo, fresh,
                        slice, settling>>
<1>1. phase = "claim"  BY DEF Claim
<1>2. pos \in 1 .. Len(slice) /\ Len(slice) \in Nat /\ DOMAIN slice = 1 .. Len(slice)  BY <1>1, AtPos
<1>3. pos < Len(slice) \/ pos = Len(slice)
  <2>1. pos \in Nat /\ pos <= Len(slice) /\ Len(slice) \in Nat  BY <1>2
  <2> QED  BY <2>1
<1> QED
  BY <1>1, <1>2, <1>3, ClaimTyped DEF Claim, resumed, observed, waveVars

LEMMA OpenHeaderIs ==
  ASSUME Typed, OpenHeader
  PROVE  /\ phase = "open" /\ phase' = "plan" /\ slice = <<>> /\ settling = <<>>
         /\ Header(minted) \in HeaderSet /\ journal' = Append(journal, Header(minted))
         /\ UNCHANGED <<applied, proven, orphan, trusted, status, output, fired, wave, todo, fresh,
                        slice, settling>>
<1>1. phase = "open"  BY DEF OpenHeader
<1>2. slice = <<>> /\ settling = <<>>  BY <1>1 DEF Typed, Shape
<1>3. Header(minted) \in HeaderSet  BY HeaderTyped DEF Typed, TypeOK
<1> QED
  BY <1>1, <1>2, <1>3 DEF OpenHeader, resumed, observed, waveVars, sliceVars

-----------------------------------------------------------------------------
(* Without expansions there is no growth.                                  *)

LEMMA TopoIs == ASSUME applied = <<>> PROVE Topo = Graph
BY NoElems DEF Topo, Graph

LEMMA TopoStays == ASSUME applied' = <<>> PROVE Topo' = Graph
BY NoElems DEF Topo, Graph

LEMMA NoGrowthFirst == InitRun => NoGrowth
<1> SUFFICES ASSUME InitRun PROVE NoGrowth
  OBVIOUS
<1>1. \A t : At(journal, t) = {}  BY DEF InitRun, Init, At
<1> QED  BY <1>1 DEF InitRun, NoGrowth

LEMMA VerdictNext ==
  ASSUME Typed, NoGrowth, MaxExpansions = 0, [NextRun]_vars, phase' = "verdict"
  PROVE  Emitted' = NoPatch
<1>1. CASE Idle
  <2>1. phase = "verdict" /\ slice' = slice /\ pos' = pos  BY <1>1, IdleStep
  <2> QED  BY <2>1 DEF NoGrowth, Emitted
<1>2. CASE PatchRefused
  <2>1. slice' = [slice EXCEPT ![pos].outcome = Failed("node")] /\ pos' = pos /\ phase = "settle"
    BY <1>2 DEF PatchRefused, Outcome
  <2>2. pos \in DOMAIN slice /\ slice[pos] \in WorkSet  BY <2>1, AtPos
  <2>3. slice'[pos].outcome = Failed("node")  BY <2>1, <2>2 DEF WorkSet
  <2> QED  BY <2>1, <2>3 DEF Emitted, Failed
<1>3. CASE Crash \/ ActivateRefused  BY <1>3 DEF Crash, ActivateRefused, End
<1>4. CASE Activate  BY <1>4 DEF Activate, Listings
<1>5. CASE OpenHeader \/ TakeSlice \/ Claim \/ Settle \/ EndWave
  BY <1>5 DEF OpenHeader, TakeSlice, Claim, Settle, EndWave, End
<1>6. CASE \E i \in 1 .. MaxConcurrency : RunnerReturns(i)  BY <1>6 DEF RunnerReturns
<1> QED  BY <1>1, <1>2, <1>3, <1>4, <1>5, <1>6, Steps, NoPatchAdmitted DEF Idle

LEMMA NoGrowthStep ==
  ASSUME Typed, NoGrowth, MaxExpansions = 0, [NextRun]_vars
  PROVE  NoGrowth'
<1> DEFINE Kept == journal' = journal
                   \/ \E e \in Entry : /\ journal' = Append(journal, e)
                                       /\ e.type # "patch_admitted"
                                       /\ e.type = "node_settled" => e.patch = NoPatch
           Memory == applied' = <<>> /\ proven' = {} /\ \A n \in Node : orphan'[n] = NoPatch
<1>2. Kept /\ Memory
  <2>1. CASE Same \/ Restarts \/ Chosen
    BY <2>1 DEF Same, Restarts, Chosen, NoGrowth
  <2>2. CASE OpenHeader
    <3>1. Header(minted) \in Entry /\ Header(minted).type = "run_header"
      BY <2>2, OpenHeaderIs DEF Entry, Header
    <3> QED  BY <2>2, <3>1, OpenHeaderIs DEF NoGrowth
  <2>3. CASE PlanWave  BY <2>3, PlanIs DEF NoGrowth
  <2>4. CASE Reuse  BY <2>4 DEF Reuse, resumed, NoGrowth
  <2>5. CASE ReuseDecided  BY <2>5, ReuseDecidedIs DEF NoGrowth
  <2>6. CASE TakeSlice  BY <2>6, TakeSliceIs DEF NoGrowth
  <2>7. CASE Claim
    <3> DEFINE e == Started(slice[pos].node, slice[pos].attempt, slice[pos].input, wave)
    <3>1. e \in Entry /\ e.type = "node_started"  BY <2>7, ClaimMoves DEF Entry, Started
    <3>2. journal' = Append(journal, e)  BY <2>7, ClaimMoves
    <3> HIDE DEF e
    <3> QED  BY <2>7, <3>1, <3>2, ClaimMoves DEF NoGrowth
  <2>8. CASE Settle
    <3>1. PICK e \in SettledSet :
            journal' = Append(journal, e) /\ e.type = "node_settled" /\ e.patch = NoPatch
      BY <2>8, SettleIs
    <3>2. e \in Entry  BY DEF Entry
    <3> QED  BY <2>8, <3>1, <3>2, SettleMoves DEF NoGrowth
  <2>9. CASE EndWave  BY <2>9, EndWaveIs DEF NoGrowth
  <2> QED
    BY <2>1, <2>2, <2>3, <2>4, <2>5, <2>6, <2>7, <2>8, <2>9, PlainSteps
<1>3. /\ At(journal', "patch_admitted") = {}
      /\ \A i \in At(journal', "node_settled") : journal'[i].patch = NoPatch
  <2>1. CASE journal' = journal  BY <2>1 DEF NoGrowth
  <2>2. ASSUME NEW e \in Entry, journal' = Append(journal, e), e.type # "patch_admitted",
               e.type = "node_settled" => e.patch = NoPatch
        PROVE  /\ At(journal', "patch_admitted") = {}
               /\ \A i \in At(journal', "node_settled") : journal'[i].patch = NoPatch
    <3>1. /\ \A i \in DOMAIN journal : journal'[i] = journal[i]
          /\ journal'[Len(journal) + 1] = e
          /\ At(journal', "patch_admitted") = At(journal, "patch_admitted")
          /\ At(journal', "node_settled") = IF e.type = "node_settled"
               THEN At(journal, "node_settled") \cup {Len(journal) + 1}
               ELSE At(journal, "node_settled")
      BY <2>2, JournalAppended
    <3>2. At(journal, "node_settled") \subseteq DOMAIN journal  BY DEF At
    <3> QED  BY <2>2, <3>1, <3>2 DEF NoGrowth
  <2> QED  BY <1>2, <2>1, <2>2
<1>4. phase' = "verdict" => Emitted' = NoPatch  BY VerdictNext
<1> QED  BY <1>2, <1>3, <1>4 DEF NoGrowth

-----------------------------------------------------------------------------
(* The header of the open activation.                                      *)

LEMMA OpenedFirst == InitRun => Opened
BY DEF InitRun, Opened, Live

LEMMA OpenedStep ==
  ASSUME Typed, NoGrowth, MaxExpansions = 0, Newest, Opened, [NextRun]_vars
  PROVE  Opened'
<1>1. At(journal, "run_header") \subseteq At(journal', "run_header")  BY EntriesKept
<1>2. CASE Restarts
  <2>1. CASE phase' \in {"down", "ended"}  BY <2>1 DEF Opened, Live
  <2>2. CASE phase' = "open"
    <3>1. Activate  BY <1>2, <2>2 DEF Restarts
    <3>2. minted' = LastId(journal) + 1 /\ journal' = journal  BY <3>1 DEF Activate, Listings
    <3>3. LastId(journal) \in Nat /\ \A b \in IdsIn(journal) : b <= LastId(journal)
      BY ReplayTyped
    <3>4. FreshIds => \A h \in At(journal, "run_header") : journal[h].id \in IdsIn(journal)
      BY DEF IdsIn
    <3>5. \A h \in At(journal, "run_header") : journal[h].id \in Nat
      BY EntriesOf DEF Typed, At, HeaderSet
    <3>6. FreshIds => \A h \in At(journal, "run_header") : journal[h].id < minted'
      BY <3>2, <3>3, <3>4, <3>5
    <3> QED  BY <2>2, <3>2, <3>6 DEF Opened
  <2> QED  BY <1>2, <2>1, <2>2 DEF Restarts
<1>3. CASE OpenHeader
  <2>1. Header(minted) \in Entry /\ Header(minted).type = "run_header"
    BY <1>3, OpenHeaderIs DEF Entry, Header
  <2>2. At(journal', "run_header") # {}  BY <1>3, <2>1, OpenHeaderIs, JournalAppended
  <2> QED  BY <1>3, <2>2, OpenHeaderIs DEF Opened
<1>4. CASE Same
  <2>1. journal' = journal /\ minted' = minted /\ (Live' => Live)
        /\ (phase' = "open" <=> phase = "open" /\ Live')
    BY <1>4 DEF Same, Live
  <2> QED  BY <2>1 DEF Opened
<1>5. CASE Chosen \/ PlanWave \/ Reuse \/ ReuseDecided \/ TakeSlice \/ Claim \/ Settle \/ EndWave
  <2>1. Live /\ phase # "open" /\ phase' # "open"
    BY <1>5, PlanIs, ReuseDecidedIs, TakeSliceIs, ClaimMoves, SettleMoves, EndWaveIs
       DEF Chosen, Reuse, Live, Settling
  <2> QED  BY <1>1, <2>1 DEF Opened
<1> QED  BY <1>2, <1>3, <1>4, <1>5, PlainSteps

-----------------------------------------------------------------------------
(* The wave: ready nodes, each at one place.                               *)

LEMMA TailOf ==
  ASSUME NEW S, NEW s \in Seq(S), s # <<>>
  PROVE  /\ Head(s) \in Elems(s) /\ Elems(Tail(s)) \subseteq Elems(s)
         /\ Once(s) => Once(Tail(s)) /\ Head(s) \notin Elems(Tail(s))
<1>1. /\ Len(s) \in Nat \ {0} /\ DOMAIN s = 1 .. Len(s) /\ Head(s) = s[1]
      /\ Tail(s) \in Seq(S) /\ Len(Tail(s)) = Len(s) - 1
      /\ \A i \in 1 .. Len(Tail(s)) : Tail(s)[i] = s[i + 1]
  BY HeadTailProperties, LenProperties, EmptySeq
<1>2. DOMAIN Tail(s) = 1 .. Len(s) - 1  BY <1>1, LenProperties
<1>3. 1 \in DOMAIN s  BY <1>1
<1>4. /\ \A i \in DOMAIN Tail(s) : i + 1 \in DOMAIN s /\ Tail(s)[i] = s[i + 1] /\ i + 1 # 1
      /\ \A i, k \in DOMAIN Tail(s) : i + 1 = k + 1 => i = k
  BY <1>1, <1>2
<1>5. Head(s) \in Elems(s)  BY <1>1, <1>3 DEF Elems
<1>6. Elems(Tail(s)) \subseteq Elems(s)  BY <1>4, Zenon DEF Elems
<1>7. Once(s) => Once(Tail(s))  BY <1>4, Zenon DEF Once
<1>8. ASSUME Once(s), Head(s) \in Elems(Tail(s)) PROVE FALSE
  <2>1. PICK i \in DOMAIN Tail(s) : Tail(s)[i] = Head(s)  BY <1>8, Zenon DEF Elems
  <2>2. s[i + 1] = s[1] /\ i + 1 \in DOMAIN s /\ i + 1 # 1  BY <1>1, <1>4, <2>1
  <2> QED  BY <1>3, <1>8, <2>2, Zenon DEF Once
<1> QED  BY <1>5, <1>6, <1>7, <1>8

LEMMA AppendedTo ==
  ASSUME NEW S, NEW s \in Seq(S), NEW x \in S
  PROVE  /\ Elems(Append(s, x)) = Elems(s) \cup {x}
         /\ Once(s) /\ x \notin Elems(s) => Once(Append(s, x))
<1>1. /\ Append(s, x) \in Seq(S) /\ Len(Append(s, x)) = Len(s) + 1 /\ Len(s) \in Nat
      /\ \A i \in 1 .. Len(s) : Append(s, x)[i] = s[i]
      /\ Append(s, x)[Len(s) + 1] = x
  BY AppendProperties, LenProperties
<1>2. DOMAIN s = 1 .. Len(s) /\ DOMAIN Append(s, x) = 1 .. Len(s) + 1
  BY <1>1, LenProperties
<1>3. DOMAIN Append(s, x) = DOMAIN s \cup {Len(s) + 1}  BY <1>1, <1>2
<1> DEFINE L == Len(s) + 1
<1>4. /\ \A i \in DOMAIN s : Append(s, x)[i] = s[i]
      /\ Append(s, x)[L] = x /\ DOMAIN Append(s, x) = DOMAIN s \cup {L}
  BY <1>1, <1>2, <1>3
<1> HIDE DEF L
<1>5. Elems(Append(s, x)) = Elems(s) \cup {x}  BY <1>4 DEF Elems
<1>6. Once(s) /\ x \notin Elems(s) => Once(Append(s, x))  BY <1>4, Zenon DEF Elems, Once
<1> QED  BY <1>5, <1>6

LEMMA ReadyStays ==
  ASSUME NEW g, NEW n, NEW old, NEW new, old \subseteq new, Ready(g, old, n)
  PROVE  Ready(g, new, n)
BY DEF Ready, Joined

LEMMA NothingYet == InitRun => Scheduled /\ Apart /\ OwnEdges /\ Sourced /\ Joins
<1> SUFFICES ASSUME InitRun PROVE Scheduled /\ Apart /\ OwnEdges /\ Sourced /\ Joins
  OBVIOUS
<1>1. At(journal, "node_settled") = {} /\ ~Mid  BY DEF InitRun, Init, At, Mid
<1>2. fired = {} /\ Settled = {}  BY DEF InitRun, Settled
<1> QED  BY <1>1, <1>2 DEF Scheduled, Apart, OwnEdges, Sourced, Joins

(* The moves of todo and fresh in the reuse loop.                          *)
LEMMA HeadMoves ==
  ASSUME Typed, todo # <<>>
  PROVE  /\ Head(todo) \in Elems(todo) /\ Head(todo) \in Node /\ Elems(Tail(todo)) \subseteq Elems(todo)
         /\ Elems(Append(fresh, Head(todo))) = Elems(fresh) \cup {Head(todo)}
         /\ Once(todo) => Once(Tail(todo)) /\ Head(todo) \notin Elems(Tail(todo))
         /\ Once(fresh) /\ Head(todo) \notin Elems(fresh) => Once(Append(fresh, Head(todo)))
<1>1. todo \in Seq(Node) /\ fresh \in Seq(Node)  BY DEF Typed, TypeOK
<1>2. Head(todo) \in Node  BY <1>1, HeadTailProperties
<1> QED  BY <1>1, <1>2, TailOf, AppendedTo

LEMMA SliceIn == ASSUME NEW k \in DOMAIN slice PROVE slice[k].node \in SliceNodes
BY DEF SliceNodes

LEMMA WaveEmpty ==
  /\ slice = <<>> => SliceNodes = {}
  /\ settling = <<>> => SettlingNodes = {}
  /\ slice' = <<>> => SliceNodes' = {}
  /\ settling' = <<>> => SettlingNodes' = {}
BY DEF SliceNodes, SettlingNodes

(* Outside of planning the wave only shrinks, and only a reuse or its end  *)
(* observes some of it.                                                    *)
LEMMA WaveMoves ==
  ASSUME Typed, NoGrowth, MaxExpansions = 0, [NextRun]_vars, Mid'
  PROVE  \/ PlanWave
         \/ Mid /\ Reuse /\ InWave' \subseteq InWave
         \/ Mid /\ ~Reuse /\ InWave' \subseteq InWave /\ UNCHANGED observed
<1>1. CASE Same
  <2>1. SliceNodes' = SliceNodes /\ SettlingNodes' = SettlingNodes
    BY <1>1 DEF Same, SliceNodes, SettlingNodes
  <2> QED  BY <1>1, <2>1 DEF Same, Mid, InWave, observed
<1>2. CASE Restarts \/ OpenHeader \/ EndWave
  BY <1>2, OpenHeaderIs, EndWaveIs DEF Restarts, Mid
<1>3. CASE Chosen
  BY <1>3, HeadMoves DEF Chosen, Mid, InWave, SliceNodes, SettlingNodes, observed
<1>4. CASE Reuse
  <2>1. /\ todo # <<>> /\ todo' = Tail(todo) /\ UNCHANGED <<fresh, slice, settling>>
        /\ phase = "reuse"
    BY <1>4 DEF Reuse, sliceVars
  <2> QED  BY <1>4, <2>1, HeadMoves DEF Mid, InWave, SliceNodes, SettlingNodes
<1>5. CASE ReuseDecided
  BY <1>5, ReuseDecidedIs DEF Mid, InWave, SliceNodes, SettlingNodes, observed
<1>6. CASE TakeSlice
  <2>1. SliceNodes' \cup Elems(fresh') \subseteq Elems(fresh)  BY <1>6, TakeSliceSplits
  <2> QED  BY <1>6, <2>1, TakeSliceIs DEF Mid, InWave, SettlingNodes, observed
<1>7. CASE Claim
  BY <1>7, ClaimMoves DEF Mid, InWave, SliceNodes, SettlingNodes, observed
<1>8. CASE Settle
  <2>1. PICK e \in SettledSet : settling' = Append(settling, e) /\ e.node = slice[pos].node
    BY <1>8, SettleIs
  <2>2. SettlingNodes' = SettlingNodes \cup {e.node}  BY <2>1, SettlingGrows
  <2>3. e.node \in SliceNodes  BY <1>8, <2>1, SettleMoves, SliceIn
  <2>4. SliceNodes' \subseteq SliceNodes  BY <1>8, SettleMoves, WaveEmpty DEF SliceNodes
  <2>5. UNCHANGED <<todo, fresh, status, output, fired>> /\ Settling  BY <1>8, SettleMoves
  <2> QED  BY <2>2, <2>3, <2>4, <2>5 DEF InWave, observed, Mid, Settling
<1> QED
  BY <1>1, <1>2, <1>3, <1>4, <1>5, <1>6, <1>7, <1>8, PlainSteps DEF Reuse, observed

LEMMA ScheduledStep ==
  ASSUME Typed, TrustedShown, NoGrowth, MaxExpansions = 0, Scheduled, Apart, [NextRun]_vars
  PROVE  Scheduled'
<1> SUFFICES ASSUME Mid', NEW n \in InWave'
             PROVE  n \in Graph.nodes /\ n \notin Settled' /\ Ready(Graph, fired', n)
  BY DEF Scheduled
<1>1. CASE PlanWave
  <2>1. n \in Elems(todo')
    BY <1>1, PlanIs, NoElems, WaveEmpty DEF InWave
  <2>2. n \in ReadyNodes(Graph, fired, Settled) /\ Settled' = Settled /\ fired' = fired
    BY <1>1, <2>1, PlanIs DEF Settled
  <2> QED  BY <2>2 DEF ReadyNodes
<1>2. CASE Mid /\ Reuse /\ InWave' \subseteq InWave
  <2> DEFINE h == Head(todo)
  <2>1. /\ n \in Graph.nodes /\ n \notin Settled /\ Ready(Graph, fired, n)
    BY <1>2 DEF Scheduled
  <2>2. /\ fired \subseteq fired' /\ todo # <<>> /\ todo' = Tail(todo) /\ phase = "reuse"
        /\ UNCHANGED <<fresh, slice, settling>>
        /\ \A m \in Node : m # h => status'[m] = status[m]
    BY <1>2, ReuseIs
  <2>3. slice = <<>> /\ settling = <<>>  BY <2>2 DEF Typed, Shape
  <2>4. n \in Elems(todo') \cup Elems(fresh)  BY <2>2, <2>3, WaveEmpty DEF InWave
  <2>5. n # h
    BY <1>2, <2>2, <2>4, HeadMoves DEF Apart
  <2>6. n \notin Settled'  BY <2>1, <2>2, <2>5 DEF Settled
  <2> QED  BY <2>1, <2>2, <2>6, ReadyStays
<1>3. CASE Mid /\ InWave' \subseteq InWave /\ UNCHANGED observed
  BY <1>3 DEF Scheduled, observed, Settled
<1> QED  BY <1>1, <1>2, <1>3, WaveMoves

LEMMA ApartStep ==
  ASSUME Typed, NoGrowth, MaxExpansions = 0, Apart, [NextRun]_vars
  PROVE  Apart'
<1> SUFFICES ASSUME Mid' PROVE Apart'
  BY DEF Apart
<1>1. CASE Same
  <2>1. Mid /\ SliceNodes' = SliceNodes /\ SettlingNodes' = SettlingNodes
    BY <1>1 DEF Same, Mid, SliceNodes, SettlingNodes
  <2>2. ASSUME NEW k \in DOMAIN slice, Settling' => k >= pos PROVE slice[k].node \notin SettlingNodes
    <3>1. Settling => Settling'  BY <1>1 DEF Same, Mid, Settling
    <3> QED  BY <2>1, <2>2, <3>1 DEF Apart
  <2>3. OncePerNode(slice')  BY <1>1, <2>1 DEF Same, Apart, OncePerNode
  <2> QED  BY <1>1, <2>1, <2>2, <2>3 DEF Same, Apart
<1>2. CASE Restarts \/ OpenHeader \/ EndWave
  BY <1>2, OpenHeaderIs, EndWaveIs DEF Restarts, Mid
<1>3. CASE Chosen
  <2>1. /\ phase = "reuse" /\ phase' = "reuse" /\ todo # <<>>
        /\ fresh' = Append(fresh, Head(todo)) /\ todo' = Tail(todo)
        /\ slice' = slice /\ settling' = settling
    BY <1>3 DEF Chosen
  <2>2. slice = <<>> /\ settling = <<>> /\ Mid  BY <2>1 DEF Typed, Shape, Mid
  <2>3. /\ Once(todo) /\ Once(fresh) /\ Elems(todo) \cap Elems(fresh) = {}
    BY <2>2 DEF Apart
  <2>4. Once(todo') /\ Once(fresh') /\ Elems(todo') \cap Elems(fresh') = {}
    BY <2>1, <2>3, HeadMoves
  <2>5. OncePerNode(slice') /\ OncePerNode(settling') /\ DOMAIN slice' = {}
    BY <2>1, <2>2 DEF OncePerNode
  <2> QED  BY <2>1, <2>2, <2>4, <2>5, WaveEmpty DEF Apart
<1>4. CASE PlanWave
  <2>1. fresh' = <<>> /\ slice' = <<>> /\ settling' = <<>> /\ Once(todo')  BY <1>4, PlanIs
  <2>2. Once(fresh') /\ OncePerNode(slice') /\ OncePerNode(settling')
        /\ Elems(fresh') = {} /\ DOMAIN slice' = {}
    BY <2>1, NoElems DEF Once, OncePerNode
  <2> QED  BY <2>1, <2>2, WaveEmpty DEF Apart
<1>5. CASE Reuse
  <2>1. /\ phase = "reuse" /\ todo # <<>> /\ todo' = Tail(todo)
        /\ UNCHANGED <<fresh, slice, settling, pos>> /\ phase' = phase
    BY <1>5 DEF Reuse, sliceVars
  <2>2. Mid /\ slice = <<>>  BY <2>1 DEF Mid, Typed, Shape
  <2>3. Once(todo') /\ Elems(todo') \subseteq Elems(todo)  BY <2>1, <2>2, HeadMoves DEF Apart
  <2>4. SliceNodes' = SliceNodes /\ SettlingNodes' = SettlingNodes
    BY <2>1 DEF SliceNodes, SettlingNodes
  <2> QED  BY <2>1, <2>2, <2>3, <2>4 DEF Apart
<1>6. CASE ReuseDecided
  <2>1. /\ phase = "reuse" /\ phase' = "slice"
        /\ UNCHANGED <<todo, fresh, slice, settling, pos>>
    BY <1>6, ReuseDecidedIs DEF Mid
  <2>2. SliceNodes' = SliceNodes /\ SettlingNodes' = SettlingNodes /\ Mid /\ ~Settling /\ ~Settling'
    BY <2>1 DEF SliceNodes, SettlingNodes, Mid, Settling
  <2> QED  BY <2>1, <2>2 DEF Apart
<1>7. CASE TakeSlice
  <2>1. Mid  BY <1>7, TakeSliceIs DEF Mid
  <2>2. /\ SliceNodes' \cup Elems(fresh') \subseteq Elems(fresh)
        /\ Once(fresh') /\ OncePerNode(slice') /\ SliceNodes' \cap Elems(fresh') = {}
    BY <1>7, <2>1, TakeSliceSplits DEF Apart
  <2>3. todo' = todo /\ settling' = settling  BY <1>7, TakeSliceIs
  <2>4. SettlingNodes' = SettlingNodes  BY <2>3 DEF SettlingNodes
  <2>5. \A k \in DOMAIN slice' : slice'[k].node \in SliceNodes'  BY DEF SliceNodes
  <2> QED  BY <2>1, <2>2, <2>3, <2>4, <2>5 DEF Apart
<1>8. CASE Claim
  <2>1. /\ UNCHANGED <<todo, fresh, slice, settling>> /\ Mid /\ ~Settling /\ ~Settling'
    BY <1>8, ClaimMoves DEF Mid, Settling
  <2>2. SliceNodes' = SliceNodes /\ SettlingNodes' = SettlingNodes
    BY <2>1 DEF SliceNodes, SettlingNodes
  <2> QED  BY <2>1, <2>2 DEF Apart
<1>9. CASE Settle
  <2>1. PICK e \in SettledSet : settling' = Append(settling, e) /\ e.node = slice[pos].node
    BY <1>9, SettleIs
  <2>2. /\ Settling /\ pos \in DOMAIN slice /\ pos \in Nat /\ DOMAIN slice \subseteq Nat
        /\ UNCHANGED <<todo, fresh>>
        /\ \/ pos' = pos + 1 /\ phase' = "settle" /\ slice' = slice
           \/ phase' = "slice" /\ slice' = <<>>
    BY <1>9, SettleMoves
  <2>3. Mid  BY <2>2 DEF Mid, Settling
  <2>4. SettlingNodes' = SettlingNodes \cup {e.node}  BY <2>1, SettlingGrows
  <2>5. e.node \in SliceNodes /\ e.node \notin SettlingNodes
    BY <2>1, <2>2, <2>3, SliceIn DEF Apart
  <2>6. OncePerNode(settling')
    <3> DEFINE L == Len(settling) + 1
    <3>1. /\ DOMAIN settling' = DOMAIN settling \cup {L} /\ settling'[L] = e
          /\ \A k \in DOMAIN settling : settling'[k] = settling[k]
      BY <2>1, SettlingGrows
    <3> HIDE DEF L
    <3>2. \A k \in DOMAIN settling : settling[k].node # e.node  BY <2>5 DEF SettlingNodes
    <3> QED  BY <2>3, <3>1, <3>2 DEF OncePerNode, Apart
  <2>7. SliceNodes' \subseteq SliceNodes  BY <2>2, WaveEmpty DEF SliceNodes
  <2>8. OncePerNode(slice')
    <3>1. CASE slice' = slice  BY <2>3, <3>1 DEF Apart
    <3>2. CASE slice' = <<>>  BY <3>2 DEF OncePerNode
    <3> QED  BY <2>2, <3>1, <3>2
  <2>9. ASSUME NEW k \in DOMAIN slice', Settling' => k >= pos'
        PROVE  slice'[k].node \notin SettlingNodes'
    <3>1. slice' = slice /\ k >= pos + 1 /\ k \in Nat
      BY <2>2, <2>9 DEF Settling
    <3>2. k >= pos /\ k # pos  BY <2>2, <3>1
    <3>3. slice[k].node \notin SettlingNodes  BY <2>3, <2>9, <3>1, <3>2 DEF Apart
    <3>4. slice[k].node # e.node  BY <2>1, <2>2, <2>3, <2>9, <3>1, <3>2 DEF Apart, OncePerNode
    <3> QED  BY <2>4, <3>1, <3>3, <3>4
  <2> QED  BY <2>2, <2>3, <2>4, <2>5, <2>6, <2>7, <2>8, <2>9 DEF Apart
<1> QED
  BY <1>1, <1>2, <1>3, <1>4, <1>5, <1>6, <1>7, <1>8, <1>9, PlainSteps

-----------------------------------------------------------------------------
(* What is observed was fired by what settled, and joins are complete.     *)

LEMMA OwnEdgesStep ==
  ASSUME Typed, NoGrowth, MaxExpansions = 0, OwnEdges, [NextRun]_vars
  PROVE  OwnEdges'
<1>1. CASE journal' = journal  BY <1>1 DEF OwnEdges
<1>2. ASSUME NEW e \in Entry, journal' = Append(journal, e),
             e.type = "node_settled" => \A f \in e.fired : f.source = e.node /\ Routes(e)
      PROVE  OwnEdges'
  <2>1. /\ \A i \in DOMAIN journal : journal'[i] = journal[i]
        /\ journal'[Len(journal) + 1] = e
        /\ At(journal', "node_settled") = IF e.type = "node_settled"
             THEN At(journal, "node_settled") \cup {Len(journal) + 1}
             ELSE At(journal, "node_settled")
    BY <1>2, JournalAppended
  <2>2. At(journal, "node_settled") \subseteq DOMAIN journal  BY DEF At
  <2> QED  BY <1>2, <2>1, <2>2 DEF OwnEdges
<1>3. CASE OpenHeader
  <2>1. Header(minted) \in Entry /\ Header(minted).type = "run_header"
    BY <1>3, OpenHeaderIs DEF Entry, Header
  <2> QED  BY <1>2, <1>3, <2>1, OpenHeaderIs
<1>4. CASE Claim
  <2> DEFINE e == Started(slice[pos].node, slice[pos].attempt, slice[pos].input, wave)
  <2>1. e \in Entry /\ e.type = "node_started"  BY <1>4, ClaimMoves DEF Entry, Started
  <2>2. journal' = Append(journal, e)  BY <1>4, ClaimMoves
  <2> QED  BY <1>2, <2>1, <2>2
<1>5. CASE Settle
  <2>1. PICK e \in SettledSet, said \in SUBSET Said :
          journal' = Append(journal, e) /\ e.fired = EdgeVerdict(Graph, e.node, e, said)
    BY <1>5, SettleIs
  <2>2. e \in Entry  BY DEF Entry
  <2>3. \A f \in e.fired : f.source = e.node /\ Routes(e)  BY <2>1 DEF EdgeVerdict
  <2> QED  BY <1>2, <2>1, <2>2, <2>3
<1> QED  BY <1>1, <1>3, <1>4, <1>5, Steps, JournalKept, NoPatchAdmitted

LEMMA RoutesSettle == ASSUME NEW o, Routes(o) PROVE o.status # "none"
BY DEF Routes

(* The settlements of the wave are in the journal.                         *)
LEMMA SettlingDurable ==
  ASSUME Typed, OwnEdges, NEW k \in DOMAIN settling
  PROVE  /\ settling[k] \in SettledSet /\ settling[k].node \in Node
         /\ settling[k].node \in SettlingNodes
         /\ \E i \in At(journal, "node_settled") : journal[i] = settling[k]
         /\ \A e \in settling[k].fired : e.source = settling[k].node /\ Routes(settling[k])
<1>1. settling[k] \in SettledSet  BY DEF Typed
<1>2. settling[k] \in Elems(journal)  BY DEF Typed, TypeOK, Elems
<1>3. PICK i \in DOMAIN journal : journal[i] = settling[k]  BY <1>2 DEF Elems
<1>4. i \in At(journal, "node_settled")  BY <1>1, <1>3 DEF At, SettledSet
<1> QED  BY <1>1, <1>3, <1>4 DEF OwnEdges, SettledSet, SettlingNodes

(* Observation only adds: of the wave's nodes, and of their edges.         *)
LEMMA ObservedGrows ==
  ASSUME Typed, TrustedShown, Scheduled, Reuse \/ EndWave
  PROVE  /\ fired \subseteq fired'
         /\ \A n \in Settled : status'[n] = status[n] /\ output'[n] = output[n]
         /\ Settled \subseteq Settled'
         /\ \A n \in Settled' : n \in Settled \/ n \in InWave
<1>1. CASE Reuse
  <2> DEFINE h == Head(todo)
  <2>1. /\ fired \subseteq fired' /\ todo # <<>> /\ phase = "reuse" /\ h \in Node
        /\ \A m \in Node : m # h => status'[m] = status[m] /\ output'[m] = output[m]
    BY <1>1, ReuseIs
  <2>2. h \in InWave  BY <2>1, HeadMoves DEF InWave
  <2>3. h \notin Settled  BY <2>1, <2>2 DEF Scheduled, Mid
  <2> QED  BY <2>1, <2>2, <2>3 DEF Settled
<1>2. CASE EndWave
  <2>1. /\ fired \subseteq fired' /\ phase = "slice"
        /\ \A m \in Node \ SettlingNodes : status'[m] = status[m] /\ output'[m] = output[m]
    BY <1>2, EndWaveIs
  <2>2. \A m \in SettlingNodes : m \notin Settled /\ m \in InWave
    BY <2>1 DEF Scheduled, Mid, InWave
  <2> QED  BY <2>1, <2>2 DEF Settled
<1> QED  BY <1>1, <1>2

LEMMA SourcedStep ==
  ASSUME Typed, TrustedShown, Scheduled, Apart, OwnEdges, Sourced, [NextRun]_vars
  PROVE  Sourced'
<1>1. CASE UNCHANGED observed  BY <1>1 DEF Sourced, Settled, observed
<1>2. CASE fired' = {}  BY <1>2 DEF Sourced
<1>3. CASE Reuse
  <2> DEFINE h == Head(todo)
             s == journal[trusted[h]]
  <2>1. /\ h \in Node /\ trusted[h] \in At(journal, "node_settled") /\ s.node = h
        /\ status'[h] = s.status /\ fired' = fired \cup s.fired
    BY <1>3, ReuseIs
  <2>2. ASSUME NEW e \in s.fired PROVE e.source = h /\ status'[h] # "none"
    BY <2>1, RoutesSettle DEF OwnEdges
  <2>3. \A e \in s.fired : e.source \in Settled'  BY <2>1, <2>2 DEF Settled
  <2> QED  BY <1>3, <2>1, <2>3, ObservedGrows DEF Sourced
<1>4. CASE EndWave
  <2>1. OncePerNode(settling)  BY <1>4, EndWaveIs DEF Apart, Mid
  <2>2. ASSUME NEW k \in DOMAIN settling, NEW e \in settling[k].fired
        PROVE  e.source \in Settled'
    <3>1. e.source = settling[k].node /\ Routes(settling[k]) /\ settling[k].node \in Node
      BY SettlingDurable
    <3>2. status'[settling[k].node] = settling[k].status  BY <1>4, <2>1, EndWaveIs
    <3> QED  BY <3>1, <3>2, RoutesSettle DEF Settled
  <2>3. fired' = fired \cup UNION {settling[k].fired : k \in DOMAIN settling}
    BY <1>4, EndWaveIs
  <2> QED  BY <1>4, <2>2, <2>3, ObservedGrows DEF Sourced
<1> QED  BY <1>1, <1>2, <1>3, <1>4, ObservedMoves

LEMMA JoinsStep ==
  ASSUME Typed, TrustedShown, Scheduled, Joins, [NextRun]_vars
  PROVE  Joins'
<1>1. CASE UNCHANGED observed  BY <1>1 DEF Joins, Settled, observed
<1>2. CASE status' = [n \in Node |-> "none"]
  <2>1. Settled' = {}  BY <1>2 DEF Settled
  <2> QED  BY <2>1 DEF Joins
<1>3. CASE Reuse \/ EndWave
  <2>1. /\ fired \subseteq fired' /\ \A n \in Settled' : n \in Settled \/ n \in InWave
    BY <1>3, ObservedGrows
  <2>2. Mid  BY <1>3, EndWaveIs DEF Reuse, Mid
  <2>3. \A n \in InWave \ AnyJoin : Incoming(Graph, n) \subseteq fired
    BY <2>2 DEF Scheduled, Ready, Joined
  <2> QED  BY <2>1, <2>3 DEF Joins
<1> QED  BY <1>1, <1>2, <1>3, ObservedMoves

-----------------------------------------------------------------------------
(* The evidence.                                                           *)

LEMMA InputIs ==
  ASSUME NoGrowth, NEW n PROVE InputOf(n) = InputAt(status, output, fired, n)
<1>1. Topo = Graph  BY TopoIs DEF NoGrowth
<1> QED  BY <1>1 DEF InputOf, InputAt

(* What a complete join consumes stays as it is while the rest settles.    *)
LEMMA InputKept ==
  ASSUME Sourced, NEW n, Incoming(Graph, n) \subseteq fired,
         NEW st, NEW out, NEW f, fired \subseteq f,
         \A m \in Settled : st[m] = status[m] /\ out[m] = output[m]
  PROVE  InputAt(st, out, f, n) = InputAt(status, output, fired, n)
<1> DEFINE in == Incoming(Graph, n)
<1>1. in \cap f = in /\ in \cap fired = in  OBVIOUS
<1>2. \A e \in in : st[e.source] = status[e.source] /\ out[e.source] = output[e.source]
  BY DEF Sourced
<1> HIDE DEF in
<1>3. {i \in in : st[i.source] = "completed"} = {i \in in : status[i.source] = "completed"}
  BY <1>2
<1>4. {<<e.source, out[e.source]>> : e \in {i \in in : status[i.source] = "completed"}}
        = {<<e.source, output[e.source]>> : e \in {i \in in : status[i.source] = "completed"}}
  BY <1>2
<1> QED  BY <1>1, <1>3, <1>4 DEF InputAt, in

LEMMA EvidentStep ==
  ASSUME Typed, NoGrowth, MaxExpansions = 0, TrustedShown, Evident, [NextRun]_vars
  PROVE  Evident'
<1> SUFFICES ASSUME Mid' PROVE Evident'
  BY DEF Evident
<1>1. CASE Same
  <2>1. Mid  BY <1>1 DEF Same, Mid
  <2> QED  BY <1>1, <2>1 DEF Same, Evident
<1>2. CASE Restarts \/ OpenHeader \/ EndWave
  BY <1>2, OpenHeaderIs, EndWaveIs DEF Restarts, Mid
<1>3. CASE PlanWave
  <2>1. DOMAIN slice' = {} /\ DOMAIN settling' = {}  BY <1>3, PlanIs
  <2> QED  BY <2>1 DEF Evident
<1>4. CASE Chosen \/ Reuse \/ ReuseDecided
  <2>1. phase = "reuse" /\ slice' = slice /\ settling' = settling
    BY <1>4, ReuseDecidedIs DEF Chosen, Reuse, sliceVars
  <2>2. DOMAIN slice' = {} /\ DOMAIN settling' = {}  BY <2>1 DEF Typed, Shape
  <2> QED  BY <2>2 DEF Evident
<1>5. CASE TakeSlice
  <2>1. /\ \A k \in DOMAIN slice' : slice'[k].node = fresh[k] /\ slice'[k].input = InputOf(fresh[k])
        /\ UNCHANGED <<status, output, fired, settling>> /\ Mid
    BY <1>5, TakeSliceIs DEF Mid
  <2> QED  BY <2>1, InputIs DEF Evident
<1>6. CASE Claim
  BY <1>6, ClaimMoves DEF Evident, Mid
<1>7. CASE Settle
  <2>1. PICK e \in SettledSet :
          settling' = Append(settling, e) /\ e.node = slice[pos].node /\ e.input = slice[pos].input
    BY <1>7, SettleIs
  <2> DEFINE L == Len(settling) + 1
  <2>2. /\ DOMAIN settling' = DOMAIN settling \cup {L} /\ settling'[L] = e
        /\ \A k \in DOMAIN settling : settling'[k] = settling[k]
    BY <2>1, SettlingGrows
  <2> HIDE DEF L
  <2>3. /\ pos \in DOMAIN slice /\ Mid /\ UNCHANGED <<status, output, fired>>
        /\ slice' = slice \/ slice' = <<>>
    BY <1>7, SettleMoves DEF Settling, Mid
  <2>4. \A k \in DOMAIN slice' : slice' = slice  BY <2>3
  <2> QED  BY <2>1, <2>2, <2>3, <2>4 DEF Evident
<1> QED
  BY <1>1, <1>2, <1>3, <1>4, <1>5, <1>6, <1>7, PlainSteps

LEMMA RestedStep ==
  ASSUME Typed, NoGrowth, TrustedShown, Scheduled, Apart, OwnEdges, Sourced, Joins,
         Evident, Rested, [NextRun]_vars
  PROVE  Rested'
<1>0. \A i \in At(journal, "node_settled") :
        i \in At(journal', "node_settled") /\ journal'[i] = journal[i]
  BY EntriesKept DEF At
<1>1. CASE UNCHANGED observed  BY <1>0, <1>1 DEF Rested, Settled, observed
<1>2. CASE status' = [n \in Node |-> "none"]
  <2>1. Settled' = {}  BY <1>2 DEF Settled
  <2> QED  BY <2>1 DEF Rested
<1>3. CASE Reuse \/ EndWave
  <2> SUFFICES ASSUME NEW n \in Settled' \ AnyJoin, status'[n] = "completed"
               PROVE  \E i \in At(journal, "node_settled") :
                        /\ journal[i].node = n /\ journal[i].output = output'[n]
                        /\ journal[i].input = InputAt(status', output', fired', n)
    BY <1>0 DEF Rested
  <2>1. /\ fired \subseteq fired'
        /\ \A m \in Settled : status'[m] = status[m] /\ output'[m] = output[m]
        /\ n \in Settled \/ n \in InWave
    BY <1>3, ObservedGrows
  <2>2. Mid  BY <1>3, EndWaveIs DEF Reuse, Mid
  <2>3. Incoming(Graph, n) \subseteq fired
    BY <2>1, <2>2 DEF Scheduled, Ready, Joined, Joins
  <2>4. InputAt(status', output', fired', n) = InputAt(status, output, fired, n)
    BY <2>1, <2>3, InputKept
  <2>5. CASE n \in Settled
    BY <2>1, <2>4, <2>5 DEF Rested
  <2>6. CASE Reuse /\ n \notin Settled
    <3> DEFINE h == Head(todo)
               s == journal[trusted[h]]
    <3>1. /\ trusted[h] \in At(journal, "node_settled") /\ s.node = h /\ InputOf(h) = s.input
          /\ output'[h] = s.output /\ \A m \in Node : m # h => status'[m] = status[m]
      BY <2>6, ReuseIs
    <3>2. n = h  BY <2>6, <3>1 DEF Settled
    <3> QED  BY <2>4, <3>1, <3>2, InputIs
  <2>7. CASE EndWave /\ n \notin Settled
    <3>1. /\ \A m \in Node \ SettlingNodes : status'[m] = status[m]
          /\ OncePerNode(settling)
      BY <2>2, <2>7, EndWaveIs DEF Apart
    <3>2. n \in SettlingNodes  BY <2>7, <3>1 DEF Settled
    <3>3. PICK k \in DOMAIN settling : settling[k].node = n  BY <3>2 DEF SettlingNodes
    <3>4. output'[n] = settling[k].output  BY <2>7, <3>1, <3>3, EndWaveIs
    <3>5. PICK i \in At(journal, "node_settled") : journal[i] = settling[k]  BY SettlingDurable
    <3>6. settling[k].input = InputAt(status, output, fired, n)  BY <2>2, <3>3 DEF Evident
    <3> QED  BY <2>4, <3>3, <3>4, <3>5, <3>6
  <2> QED  BY <1>3, <2>5, <2>6, <2>7
<1> QED  BY <1>1, <1>2, <1>3, ObservedMoves

LEMMA NothingGiven == InitRun => Evident /\ Rested
<1> SUFFICES ASSUME InitRun PROVE Evident /\ Rested
  OBVIOUS
<1>1. Settled = {} /\ ~Mid  BY DEF InitRun, Settled, Mid
<1> QED  BY <1>1 DEF Evident, Rested

(* What every theorem of this module needs of the wave and the evidence.   *)
Wave ==
  /\ Typed /\ TrustedShown /\ Newest /\ NoGrowth
  /\ Scheduled /\ Apart /\ OwnEdges /\ Sourced /\ Joins /\ Evident

LEMMA WaveFirst == InitRun => Wave
BY TypedInit, FirstReplay, NoGrowthFirst, NothingYet, NothingGiven DEF Wave

LEMMA WaveStep == ASSUME MaxExpansions = 0, Wave, [NextRun]_vars PROVE Wave'
<1>1. /\ Typed /\ TrustedShown /\ Newest /\ NoGrowth
      /\ Scheduled /\ Apart /\ OwnEdges /\ Sourced /\ Joins /\ Evident
  BY DEF Wave
<1>2. Typed' /\ TrustedShown' /\ Newest' /\ NoGrowth'
  BY <1>1, TypedStep, TrustedStep, NewestStep, NoGrowthStep
<1>3. Scheduled' /\ Apart' /\ OwnEdges' /\ Sourced' /\ Joins' /\ Evident'
  BY <1>1, ScheduledStep, ApartStep, OwnEdgesStep, SourcedStep, JoinsStep, EvidentStep
<1> QED  BY <1>2, <1>3 DEF Wave

(* However a run is interrupted, resumed and partly reused: what an        *)
(* all-join completed with was made from the artifacts that the nodes      *)
(* before it have now.                                                     *)
THEOREM NoStaleEvidenceHolds ==
  ASSUME MaxExpansions = 0 PROVE SpecRun => []NoStaleEvidence
<1> DEFINE Inv == Wave /\ Rested
<1>1. InitRun => Inv  BY WaveFirst, NothingGiven
<1>2. Inv /\ [NextRun]_vars => Inv'
  BY WaveStep, RestedStep DEF Wave
<1>3. Inv => NoStaleEvidence
  BY InputIs DEF Wave, Rested, NoStaleEvidence
<1> QED  BY <1>1, <1>2, <1>3, PTL DEF SpecRun

-----------------------------------------------------------------------------
(* The waves of the open segment.                                          *)

LEMMA SettledHereGrows ==
  ASSUME Typed, NEW e \in Entry, journal' = Append(journal, e)
  PROVE  /\ e.type = "run_header" => SettledHere(journal') = {}
         /\ e.type = "node_settled" => SettledHere(journal') = SettledHere(journal) \cup {Len(journal) + 1}
         /\ e.type \notin {"run_header", "node_settled"} => SettledHere(journal') = SettledHere(journal)
<1> DEFINE L == Len(journal) + 1
<1>1. /\ DOMAIN journal' = DOMAIN journal \cup {L} /\ L \notin DOMAIN journal
      /\ \A i \in DOMAIN journal : i < L
      /\ \A t : At(journal', t) = IF e.type = t THEN At(journal, t) \cup {L} ELSE At(journal, t)
  <2>1. /\ Len(journal) \in Nat /\ DOMAIN journal = 1 .. Len(journal)
        /\ DOMAIN journal' = 1 .. Len(journal) + 1
    BY JournalAppended
  <2> QED  BY <2>1, JournalAppended
<1>2. \A t : At(journal, t) \subseteq DOMAIN journal  BY DEF At
<1>3. DOMAIN journal \subseteq Int /\ L \in Int  BY JournalAppended
<1> HIDE DEF L
<1>4. CASE e.type = "run_header"
  <2>1. /\ At(journal', "run_header") = At(journal, "run_header") \cup {L}
        /\ At(journal', "node_settled") = At(journal, "node_settled")
    BY <1>1, <1>4
  <2>2. Segment(journal') \subseteq {L}  BY <1>1, <1>3, <2>1 DEF Segment
  <2> QED  BY <1>1, <1>2, <1>4, <2>1, <2>2 DEF SettledHere
<1>5. CASE e.type # "run_header"
  <2>1. At(journal', "run_header") = At(journal, "run_header")  BY <1>1, <1>5
  <2>2. Segment(journal') = Segment(journal) \cup {L}
    BY <1>1, <1>2, <1>3, <2>1 DEF Segment
  <2>3. CASE e.type = "node_settled"
    <3>1. At(journal', "node_settled") = At(journal, "node_settled") \cup {L}  BY <1>1, <2>3
    <3> QED  BY <1>1, <1>2, <2>2, <2>3, <3>1 DEF SettledHere, Segment, L
  <2>4. CASE e.type # "node_settled"
    <3>1. At(journal', "node_settled") = At(journal, "node_settled")  BY <1>1, <2>4
    <3> QED  BY <1>1, <1>2, <1>5, <2>2, <2>4, <3>1 DEF SettledHere, Segment
  <2> QED  BY <1>5, <2>3, <2>4
<1> QED  BY <1>4, <1>5

LEMMA WavesStep ==
  ASSUME Typed, NoGrowth, MaxExpansions = 0, TrustedShown, Waves, [NextRun]_vars
  PROVE  Waves'
<1> SUFFICES ASSUME Live', phase' # "open"
             PROVE  \A i \in SettledHere(journal') :
                      \/ journal'[i].wave < wave'
                      \/ journal'[i].wave = wave' /\ journal'[i] \in Elems(settling')
  BY DEF Waves
<1>0. wave \in Nat /\ \A i \in SettledHere(journal) : journal[i].wave \in Nat
  BY EntriesOf DEF Typed, TypeOK, SettledHere, At, SettledSet
<1>1. CASE Restarts  BY <1>1 DEF Restarts, Live
<1>2. CASE OpenHeader
  <2>1. Header(minted) \in Entry /\ Header(minted).type = "run_header"
    BY <1>2, OpenHeaderIs DEF Entry, Header
  <2>2. SettledHere(journal') = {}  BY <1>2, <2>1, OpenHeaderIs, SettledHereGrows
  <2> QED  BY <2>2
<1>3. CASE Same
  <2>1. Live /\ phase # "open" /\ UNCHANGED <<journal, wave, settling>>  BY <1>3 DEF Same, Live
  <2> QED  BY <2>1 DEF Waves
<1>4. CASE Chosen \/ PlanWave \/ Reuse \/ TakeSlice
  <2>1. /\ Live /\ phase # "open" /\ UNCHANGED <<journal, wave>>
        /\ settling' = settling \/ settling = <<>>
    BY <1>4, PlanIs, ReuseIs, TakeSliceIs DEF Chosen, Live, Typed, Shape
  <2>2. settling = <<>> => Elems(settling) = {}  BY NoElems
  <2> QED  BY <2>1, <2>2 DEF Waves
<1>5. CASE ReuseDecided
  <2>1. phase = "reuse" /\ UNCHANGED journal /\ wave' \in {wave, wave + 1}
    BY <1>5, ReuseDecidedIs
  <2>2. Elems(settling) = {}  BY <2>1, NoElems DEF Typed, Shape
  <2>3. \A i \in SettledHere(journal) : journal[i].wave < wave  BY <2>1, <2>2 DEF Waves, Live
  <2> QED  BY <1>0, <2>1, <2>3
<1>6. CASE EndWave
  <2>1. phase = "slice" /\ UNCHANGED journal /\ wave' = wave + 1
    BY <1>6, EndWaveIs DEF Live
  <2>2. \A i \in SettledHere(journal) : journal[i].wave < wave \/ journal[i].wave = wave
    BY <2>1 DEF Waves, Live
  <2> QED  BY <1>0, <2>1, <2>2
<1>7. CASE Claim
  <2> DEFINE e == Started(slice[pos].node, slice[pos].attempt, slice[pos].input, wave)
  <2>1. e \in Entry /\ e.type = "node_started"  BY <1>7, ClaimMoves DEF Entry, Started
  <2>2. journal' = Append(journal, e) /\ UNCHANGED <<wave, settling>> /\ phase = "claim"
    BY <1>7, ClaimMoves
  <2> HIDE DEF e
  <2>3. SettledHere(journal') = SettledHere(journal)  BY <2>1, <2>2, SettledHereGrows
  <2>4. \A i \in SettledHere(journal) : journal'[i] = journal[i]
    BY <2>1, <2>2, JournalAppended DEF SettledHere, Segment
  <2> QED  BY <2>2, <2>3, <2>4 DEF Waves, Live
<1>8. CASE Settle
  <2>1. PICK e \in SettledSet : /\ journal' = Append(journal, e) /\ settling' = Append(settling, e)
                                /\ e.type = "node_settled" /\ e.wave = wave
    BY <1>8, SettleIs
  <2>2. e \in Entry  BY DEF Entry
  <2> DEFINE L == Len(journal) + 1
             M == Len(settling) + 1
  <2>3. SettledHere(journal') = SettledHere(journal) \cup {L} /\ journal'[L] = e
    BY <2>1, <2>2, SettledHereGrows, JournalAppended
  <2>4. \A i \in SettledHere(journal) : journal'[i] = journal[i]
    BY <2>1, <2>2, JournalAppended DEF SettledHere, Segment
  <2>5. /\ DOMAIN settling' = DOMAIN settling \cup {M} /\ settling'[M] = e
        /\ \A k \in DOMAIN settling : settling'[k] = settling[k]
    BY <2>1, SettlingGrows
  <2>6. wave' = wave /\ Live /\ phase # "open"  BY <1>8, SettleMoves DEF Settling, Live
  <2> HIDE DEF L, M
  <2>7. e \in Elems(settling') /\ Elems(settling) \subseteq Elems(settling')
    BY <2>5 DEF Elems
  <2> QED  BY <2>1, <2>3, <2>4, <2>6, <2>7 DEF Waves
<1> QED
  BY <1>1, <1>2, <1>3, <1>4, <1>5, <1>6, <1>7, <1>8, PlainSteps

LEMMA WaveClaimedStep ==
  ASSUME Typed, NoGrowth, MaxExpansions = 0, WaveClaimed, [NextRun]_vars
  PROVE  WaveClaimed'
<1> DEFINE Busy == {"claim", "run", "settle", "verdict"}
           Dated(k) == \E i \in At(journal, "node_started") :
                        /\ ClaimOf(i, slice[k]) /\ journal[i].wave = wave
<1> SUFFICES ASSUME phase' \in Busy,
                    NEW k \in DOMAIN slice', phase' = "claim" => k < pos'
             PROVE  \E i \in At(journal', "node_started") :
                      /\ journal'[i].attempt = slice'[k].attempt /\ journal'[i].node = slice'[k].node
                      /\ journal'[i].input = slice'[k].input /\ journal'[i].wave = wave'
  BY DEF WaveClaimed, ClaimOf
<1>0. \A i \in At(journal, "node_started") :
        i \in At(journal', "node_started") /\ journal'[i] = journal[i]
  BY EntriesKept DEF At
<1>1. CASE Same
  <2>1. /\ phase \in Busy /\ (phase = "claim" => phase' = "claim") /\ UNCHANGED <<pos, wave>>
        /\ k \in DOMAIN slice
        /\ slice'[k].attempt = slice[k].attempt /\ slice'[k].node = slice[k].node
        /\ slice'[k].input = slice[k].input
    BY <1>1 DEF Same
  <2>2. Dated(k)  BY <2>1 DEF WaveClaimed
  <2> QED  BY <1>0, <2>1, <2>2 DEF ClaimOf
<1>2. CASE Restarts \/ Chosen \/ OpenHeader \/ PlanWave \/ Reuse \/ ReuseDecided \/ EndWave
  BY <1>2, OpenHeaderIs, PlanIs, ReuseDecidedIs, EndWaveIs DEF Restarts, Chosen, Reuse
<1>3. CASE TakeSlice
  <2>1. k \in Nat \ {0} /\ pos' = 1 /\ phase' = "claim"  BY <1>3, TakeSliceIs
  <2> QED  BY <2>1
<1>4. CASE Claim
  <2> DEFINE e == Started(slice[pos].node, slice[pos].attempt, slice[pos].input, wave)
             L == Len(journal) + 1
  <2>1. /\ e \in Entry /\ e.type = "node_started" /\ e.attempt = slice[pos].attempt /\ e.wave = wave
        /\ e.node = slice[pos].node /\ e.input = slice[pos].input
    BY <1>4, ClaimMoves DEF Entry, Started
  <2>2. /\ journal' = Append(journal, e) /\ phase = "claim" /\ UNCHANGED <<slice, wave>>
        /\ k \in 1 .. Len(slice) /\ pos \in 1 .. Len(slice) /\ Len(slice) \in Nat
        /\ phase' = "claim" => pos' = pos + 1
        /\ phase' = "run" => pos = Len(slice)
        /\ phase' \in {"claim", "run"}
    BY <1>4, ClaimMoves
  <2> HIDE DEF e
  <2>3. L \in At(journal', "node_started") /\ journal'[L] = e  BY <2>1, <2>2, JournalAppended
  <2> HIDE DEF L
  <2>4. k <= pos  BY <2>2
  <2>5. CASE k = pos  BY <2>1, <2>2, <2>3, <2>5
  <2>6. CASE k # pos
    <3>1. k < pos  BY <2>2, <2>4, <2>6
    <3>2. Dated(k)  BY <2>2, <3>1 DEF WaveClaimed
    <3> QED  BY <1>0, <2>2, <3>2 DEF ClaimOf
  <2> QED  BY <2>5, <2>6
<1>5. CASE Settle
  <2>1. Settling /\ slice' = slice /\ wave' = wave  BY <1>5, SettleMoves
  <2>2. Dated(k)  BY <2>1 DEF WaveClaimed, Settling
  <2> QED  BY <1>0, <2>1, <2>2 DEF ClaimOf
<1> QED  BY <1>1, <1>2, <1>3, <1>4, <1>5, PlainSteps

LEMMA OneSliceStep ==
  ASSUME Typed, NoGrowth, MaxExpansions = 0, TrustedShown, Counted, OneSlice, [NextRun]_vars
  PROVE  OneSlice'
<1> SUFFICES ASSUME MaxNodes <= MaxConcurrency PROVE OneSlice'
  BY DEF OneSlice
<1>1. CASE Same
  BY <1>1 DEF Same, OneSlice
<1>2. CASE Restarts \/ OpenHeader \/ PlanWave \/ EndWave \/ Chosen \/ Reuse
  BY <1>2, OpenHeaderIs, PlanIs, EndWaveIs DEF Restarts, Chosen, Reuse, OneSlice
<1>3. CASE ReuseDecided
  <2>1. settling = <<>>  BY <1>3, ReuseDecidedIs DEF Typed, Shape
  <2> QED  BY <1>3, <2>1, ReuseDecidedIs DEF OneSlice
<1>4. CASE TakeSlice
  <2>1. /\ phase = "slice" /\ slice = <<>> /\ Len(fresh) \in Nat
        /\ phase' = "claim" /\ settling' = settling
        /\ Len(fresh) <= MaxConcurrency => fresh' = <<>>
    BY <1>4, TakeSliceIs
  <2>2. fresh # <<>>  BY <1>4 DEF TakeSlice
  <2>3. dispatched + Len(settling) + Len(slice) + Len(fresh) <= MaxNodes
    BY <2>1 DEF Counted, Unfinished, Settling
  <2>4. /\ Len(slice) \in Nat /\ Len(settling) \in Nat /\ dispatched \in Nat
        /\ MaxNodes \in Nat /\ MaxConcurrency \in Nat
    BY LenProperties, RunAssumption DEF Typed, TypeOK, RunAssumption
  <2>5. Len(fresh) <= MaxConcurrency  BY <2>1, <2>3, <2>4
  <2> QED  BY <2>1, <2>2, <2>5 DEF OneSlice
<1>5. CASE Claim
  BY <1>5, ClaimMoves DEF OneSlice
<1>6. CASE Settle
  BY <1>6, SettleMoves DEF OneSlice, Settling
<1> QED  BY <1>1, <1>2, <1>3, <1>4, <1>5, <1>6, PlainSteps

LEMMA NoWaveYet == InitRun => Waves /\ WaveClaimed /\ OneSlice
BY DEF InitRun, Waves, Live, WaveClaimed, OneSlice

-----------------------------------------------------------------------------
(* Every append is admissible.                                             *)

LEMMA HeaderAdmissible ==
  ASSUME Typed, FreshIds, Opened, OpenHeader PROVE Admissible(journal, Header(minted))
<1>1. \A h \in At(journal, "run_header") : journal[h].id < minted
  BY OpenHeaderIs DEF Opened
<1>2. \A h \in At(journal, "run_header") : journal[h].id \in Nat
  BY EntriesOf DEF Typed, At, HeaderSet
<1>3. minted \in Nat  BY DEF Typed, TypeOK
<1>4. \A h \in At(journal, "run_header") : journal[h].id # minted  BY <1>1, <1>2, <1>3
<1> QED  BY <1>4 DEF Admissible, HeaderOK, Header

(* What a claim claims is ready, by the edges the journal has fired.       *)
LEMMA ClaimReady ==
  ASSUME Wave, DurableBeforeObserved, Mid, NEW n \in InWave
  PROVE  n \in Graph.nodes /\ Ready(Graph, fired, n) /\ Ready(Graph, FiredIn(journal), n)
BY ReadyStays DEF Wave, Scheduled, DurableBeforeObserved

(* No settlement of the wave has fired a route into a node of the slice.   *)
LEMMA EarlierWaves ==
  ASSUME Wave, Waves, OneSlice, phase = "claim",
         NEW n \in SliceNodes, NEW i \in SettledHere(journal),
         NEW e \in Incoming(Graph, n), e \in journal[i].fired,
         n \notin AnyJoin \/ MaxNodes <= MaxConcurrency \/ journal[i].wave # wave
  PROVE  journal[i].wave < wave
<1>1. Mid /\ Live  BY DEF Mid, Live
<1>2. SUFFICES ASSUME journal[i].wave = wave, journal[i] \in Elems(settling) PROVE FALSE
  BY <1>1 DEF Waves
<1>3. PICK k \in DOMAIN settling : settling[k] = journal[i]  BY <1>2 DEF Elems
<1>4. n \notin AnyJoin
  <2>1. settling # <<>>  BY <1>3
  <2> QED  BY <1>2, <2>1 DEF OneSlice
<1>5. Incoming(Graph, n) \subseteq fired
  BY <1>1, <1>4 DEF Wave, Scheduled, InWave, Ready, Joined
<1>6. e.source \in Settled  BY <1>5 DEF Wave, Sourced
<1>7. e.source = settling[k].node /\ settling[k].node \in SettlingNodes
  BY <1>3, SettlingDurable DEF Wave
<1>8. e.source \notin Settled  BY <1>1, <1>7 DEF Wave, Scheduled, InWave
<1> QED  BY <1>6, <1>8

(* A claim is one that replay admits, unless it starts an any-join late.   *)
LEMMA ClaimAdmissible ==
  ASSUME Wave, Attempts, DurableBeforeObserved, Opened, Waves, OneSlice, Claim,
         slice[pos].node \notin AnyJoin \/ MaxNodes <= MaxConcurrency
         \/ ~JoinsLate(journal, Started(slice[pos].node, slice[pos].attempt, slice[pos].input, wave))
  PROVE  Admissible(journal, Started(slice[pos].node, slice[pos].attempt, slice[pos].input, wave))
<1> DEFINE e == Started(slice[pos].node, slice[pos].attempt, slice[pos].input, wave)
           n == slice[pos].node
<1>1. /\ phase = "claim" /\ pos \in 1 .. Len(slice) /\ Len(slice) \in Nat
      /\ DOMAIN slice = 1 .. Len(slice)
  BY ClaimMoves DEF Wave
<1>2. e.type = "node_started" /\ e.node = n /\ e.attempt = slice[pos].attempt /\ e.wave = wave
  BY DEF Started
<1>3. TopologyAt(journal) = Graph  BY GraphsAgree DEF Wave
<1>4. Mid /\ Live /\ n \in SliceNodes /\ n \in InWave
  BY <1>1, SliceIn DEF Mid, Live, InWave
<1>5. n \in Graph.nodes /\ Ready(Graph, FiredIn(journal), n)  BY <1>4, ClaimReady
<1>6. StartsOf(journal, slice[pos].attempt) = {}
  <2>1. /\ slice[pos].attempt = minted - Len(slice) + pos
        /\ \A a \in StartedAttempts(journal) : a <= minted - Len(slice) + pos - 1
    BY <1>1, <1>4 DEF Attempts
  <2>2. StartedAttempts(journal) \subseteq Nat /\ minted \in Nat
    BY AttemptsTyped DEF Wave, Typed, TypeOK
  <2>3. slice[pos].attempt \notin StartedAttempts(journal)  BY <1>1, <2>1, <2>2
  <2> QED  BY <2>3 DEF StartsOf, StartedAttempts
<1>7. At(journal, "run_header") # {}  BY <1>1, <1>4 DEF Opened
<1>8. LaterWave(journal, e)
  <2> SUFFICES ASSUME NEW i \in SettledHere(journal),
                      NEW edge \in Incoming(Graph, n), edge \in journal[i].fired
               PROVE  journal[i].wave < wave
    BY <1>2, <1>3 DEF LaterWave, SettledHere
  <2>1. n \notin AnyJoin \/ MaxNodes <= MaxConcurrency \/ journal[i].wave # wave
    BY <1>2, <1>3 DEF JoinsLate, SettledHere
  <2> QED  BY <1>1, <1>4, <2>1, EarlierWaves
<1> HIDE DEF e, n
<1>9. StartOK(journal, e)  BY <1>2, <1>3, <1>5, <1>6, <1>8 DEF StartOK
<1>10. Admissible(journal, e)  BY <1>2, <1>7, <1>9 DEF Admissible
<1> QED  BY <1>10 DEF e

LEMMA RoutingFits ==
  ASSUME NEW g, NEW e, NEW said, e.fired = EdgeVerdict(g, e.node, e, said) PROVE RoutingOK(g, e)
BY DEF RoutingOK, EdgeVerdict

LEMMA SettlementAdmissible ==
  ASSUME Wave, Attempts, Opened, WaveClaimed, Settle
  PROVE  \E e \in SettledSet : journal' = Append(journal, e) /\ Admissible(journal, e)
<1>1. PICK e \in SettledSet, said \in SUBSET Said :
        /\ journal' = Append(journal, e) /\ e.type = "node_settled" /\ e.node = slice[pos].node
        /\ e.attempt = slice[pos].attempt /\ e.input = slice[pos].input /\ e.wave = wave
        /\ e.patch = NoPatch /\ e.fired = EdgeVerdict(Graph, e.node, e, said)
  BY SettleIs DEF Wave
<1>2. /\ Settling /\ pos \in 1 .. Len(slice) /\ Len(slice) \in Nat /\ DOMAIN slice = 1 .. Len(slice)
      /\ phase \in {"settle", "verdict"}
  BY SettleMoves DEF Wave, Settling
<1>3. PICK i \in At(journal, "node_started") : ClaimOf(i, slice[pos]) /\ journal[i].wave = wave
  BY <1>2 DEF WaveClaimed
<1>4. i \in StartsOf(journal, e.attempt) /\ journal[i].node = e.node
      /\ journal[i].input = e.input /\ journal[i].wave = e.wave
  BY <1>1, <1>3 DEF ClaimOf, StartsOf
<1>5. e.attempt \notin SettledAttempts(journal)
  <2>1. /\ slice[pos].attempt = minted - Len(slice) + pos
        /\ \A a \in SettledAttempts(journal) : a <= minted - Len(slice) + pos - 1
    BY <1>2 DEF Attempts, Live
  <2>2. SettledAttempts(journal) \subseteq Nat /\ minted \in Nat
    BY AttemptsTyped DEF Wave, Typed, TypeOK
  <2> QED  BY <1>1, <1>2, <2>1, <2>2
<1>6. RoutingOK(TopologyAt(journal), e)  BY <1>1, GraphsAgree, RoutingFits DEF Wave
<1>7. At(journal, "run_header") # {}  BY <1>2 DEF Opened, Live
<1>8. SettlementOK(journal, e)  BY <1>1, <1>4, <1>5, <1>6 DEF SettlementOK
<1> QED  BY <1>1, <1>7, <1>8 DEF Admissible

(* The state in which the executor's next append is judged.                *)
History ==
  /\ Wave /\ Attempts /\ Claimed /\ Counted /\ DurableBeforeObserved
  /\ Opened /\ Waves /\ WaveClaimed /\ OneSlice

LEMMA HistoryFirst == InitRun => History
BY WaveFirst, FirstAttempts, FirstCounted, DurableFirst, OpenedFirst, NoWaveYet DEF History

LEMMA HistoryStep == ASSUME MaxExpansions = 0, History, [NextRun]_vars PROVE History'
<1>1. /\ Wave /\ Attempts /\ Claimed /\ Counted /\ DurableBeforeObserved
      /\ Opened /\ Waves /\ WaveClaimed /\ OneSlice
  BY DEF History
<1>2. Typed /\ TrustedShown /\ Newest /\ NoGrowth  BY <1>1 DEF Wave
<1>3. Wave' /\ Attempts' /\ Claimed' /\ Counted' /\ DurableBeforeObserved'
  BY <1>1, <1>2, WaveStep, AttemptsStep, ClaimedStep, CountedStep, DurableStep
<1>4. Opened' /\ Waves' /\ WaveClaimed' /\ OneSlice'
  BY <1>1, <1>2, OpenedStep, WavesStep, WaveClaimedStep, OneSliceStep
<1> QED  BY <1>3, <1>4 DEF History

LEMMA AppendsAdmissible ==
  ASSUME MaxExpansions = 0, FreshIds, AnyJoin = {} \/ MaxNodes <= MaxConcurrency,
         History, [NextRun]_vars
  PROVE  \/ journal' = journal
         \/ \E e \in Entry : journal' = Append(journal, e) /\ Admissible(journal, e)
<1>1. Typed /\ NoGrowth  BY DEF History, Wave
<1>2. CASE OpenHeader
  <2>1. Header(minted) \in Entry  BY <1>1, <1>2, OpenHeaderIs DEF Entry
  <2> QED  BY <1>1, <1>2, <2>1, OpenHeaderIs, HeaderAdmissible DEF History
<1>3. CASE Claim
  <2> DEFINE e == Started(slice[pos].node, slice[pos].attempt, slice[pos].input, wave)
  <2>1. e \in Entry /\ journal' = Append(journal, e)  BY <1>1, <1>3, ClaimMoves DEF Entry
  <2>2. Admissible(journal, e)  BY <1>3, ClaimAdmissible DEF History
  <2> QED  BY <2>1, <2>2
<1>4. CASE Settle  BY <1>4, SettlementAdmissible DEF History, Entry
<1> QED  BY <1>1, <1>2, <1>3, <1>4, Steps, JournalKept, NoPatchAdmitted

LEMMA PrefixKept ==
  ASSUME NEW S, NEW s \in Seq(S), NEW x \in S, NEW n \in 0 .. Len(s)
  PROVE  SubSeq(Append(s, x), 1, n) = SubSeq(s, 1, n)
<1> DEFINE t == Append(s, x)
<1>1. /\ t \in Seq(S) /\ Len(t) = Len(s) + 1 /\ Len(s) \in Nat /\ n \in Nat
      /\ \A i \in 1 .. Len(s) : t[i] = s[i] /\ s[i] \in S
      /\ \A i \in 1 .. Len(t) : t[i] \in S
  BY AppendProperties, LenProperties
<1> HIDE DEF t
<1>2. \A i \in 1 .. n : t[i] = s[i] /\ s[i] \in S /\ t[i] \in S  BY <1>1
<1>3. /\ SubSeq(t, 1, n) \in Seq(S) /\ Len(SubSeq(t, 1, n)) = n
      /\ \A i \in 1 .. n : SubSeq(t, 1, n)[i] = t[i]
  BY <1>1, <1>2, SubSeqProperties
<1>4. /\ SubSeq(s, 1, n) \in Seq(S) /\ Len(SubSeq(s, 1, n)) = n
      /\ \A i \in 1 .. n : SubSeq(s, 1, n)[i] = s[i]
  BY <1>1, <1>2, SubSeqProperties
<1>5. SubSeq(t, 1, n) = SubSeq(s, 1, n)  BY <1>2, <1>3, <1>4, SeqEqual
<1> QED  BY <1>5 DEF t

LEMMA AppendIsNext ==
  ASSUME Typed, NEW e \in Entry, journal' = Append(journal, e), Admissible(journal, e)
  PROVE  Next
<1>1. /\ Len(journal') = Len(journal) + 1 /\ Len(journal) \in Nat /\ journal \in Seq(Entry)
      /\ journal' \in Seq(Entry) /\ journal'[Len(journal) + 1] = e
      /\ DOMAIN journal = 1 .. Len(journal) /\ DOMAIN journal' = 1 .. Len(journal) + 1
      /\ \A i \in DOMAIN journal : journal'[i] = journal[i]
  BY JournalAppended DEF Typed
<1>2. SubSeq(journal', 1, Len(journal)) = journal
  <2>1. Len(journal) \in 0 .. Len(journal)  BY <1>1
  <2>2. SubSeq(journal', 1, Len(journal)) = SubSeq(journal, 1, Len(journal))
    BY <1>1, <2>1, PrefixKept
  <2> QED  BY <1>1, <2>2, SubSeqFull
<1> QED  BY <1>1, <1>2 DEF Next

(* The executor implements the journal that replay believes in: whatever   *)
(* crashes and faults do, and with whatever is reused, each entry it adds  *)
(* is one that replay admits after those that were durable before it.      *)
THEOREM ImplementsHistoryHolds ==
  ASSUME MaxExpansions = 0, FreshIds, AnyJoin = {} \/ MaxNodes <= MaxConcurrency
  PROVE  SpecRun => ImplementsHistory
<1>1. InitRun => History /\ Init  BY HistoryFirst DEF InitRun
<1>2. History /\ [NextRun]_vars => History'  BY HistoryStep
<1>3. History /\ [NextRun]_vars => [Next]_journal
  BY AppendsAdmissible, AppendIsNext DEF History, Wave
<1> QED  BY <1>1, <1>2, <1>3, PTL DEF SpecRun, ImplementsHistory, Spec

-----------------------------------------------------------------------------
(* The whole journal.                                                      *)

LEMMA FiredGrows ==
  ASSUME Typed, [NextRun]_vars PROVE FiredIn(journal) \subseteq FiredIn(journal')
BY EntriesKept, At(journal, "node_settled") \subseteq DOMAIN journal DEF FiredIn, At

(* Work is ready in the graph, by what the journal has fired since.        *)
LEMMA RootedStep ==
  ASSUME History, Rooted, MaxExpansions = 0, [NextRun]_vars
  PROVE  Rooted'
<1> DEFINE Fit(n) == n \in Graph.nodes /\ Ready(Graph, FiredIn(journal), n)
<1>0. Typed /\ NoGrowth  BY DEF History, Wave
<1>1. CASE journal' = journal  BY <1>1 DEF Rooted
<1>2. ASSUME NEW e \in Entry, journal' = Append(journal, e),
             e.type \in {"node_started", "node_settled"} => Fit(e.node)
      PROVE  Rooted'
  <2> DEFINE L == Len(journal) + 1
             Nodes(j) == At(j, "node_started") \cup At(j, "node_settled")
  <2>1. /\ \A i \in DOMAIN journal : journal'[i] = journal[i]
        /\ journal'[L] = e
        /\ \A t : At(journal', t) = IF e.type = t THEN At(journal, t) \cup {L} ELSE At(journal, t)
    BY <1>0, <1>2, JournalAppended
  <2> HIDE DEF L
  <2>2. At(journal, "node_started") \cup At(journal, "node_settled") \subseteq DOMAIN journal
    BY DEF At
  <2>3. ASSUME NEW i \in At(journal', "node_started") \cup At(journal', "node_settled")
        PROVE  Fit(journal'[i].node)
    <3>1. CASE i \in At(journal, "node_started") \cup At(journal, "node_settled")
      BY <2>1, <2>2, <3>1 DEF Rooted
    <3>2. CASE i \notin At(journal, "node_started") \cup At(journal, "node_settled")
      BY <1>2, <2>1, <2>3, <3>2
    <3> QED  BY <3>1, <3>2
  <2>4. FiredIn(journal) \subseteq FiredIn(journal')  BY <1>0, FiredGrows
  <2> QED  BY <2>3, <2>4, ReadyStays DEF Rooted
<1>3. CASE OpenHeader
  <2>1. Header(minted) \in Entry /\ Header(minted).type = "run_header"
    BY <1>0, <1>3, OpenHeaderIs DEF Entry, Header
  <2> QED  BY <1>0, <1>2, <1>3, <2>1, OpenHeaderIs
<1>4. ASSUME Mid, pos \in DOMAIN slice PROVE Fit(slice[pos].node)
  BY <1>4, SliceIn, ClaimReady DEF InWave, History
<1>5. CASE Claim
  <2> DEFINE e == Started(slice[pos].node, slice[pos].attempt, slice[pos].input, wave)
  <2>1. e \in Entry /\ e.node = slice[pos].node  BY <1>0, <1>5, ClaimMoves DEF Entry, Started
  <2>2. journal' = Append(journal, e) /\ Mid /\ pos \in DOMAIN slice
    BY <1>0, <1>5, ClaimMoves DEF Mid
  <2> HIDE DEF e
  <2> QED  BY <1>2, <1>4, <2>1, <2>2
<1>6. CASE Settle
  <2>1. PICK e \in SettledSet : journal' = Append(journal, e) /\ e.node = slice[pos].node
    BY <1>0, <1>6, SettleIs
  <2>2. e \in Entry /\ Mid /\ pos \in DOMAIN slice
    BY <1>0, <1>6, SettleMoves DEF Entry, Mid, Settling
  <2> QED  BY <1>2, <1>4, <2>1, <2>2
<1> QED  BY <1>0, <1>1, <1>3, <1>5, <1>6, Steps, JournalKept, NoPatchAdmitted

(* What an entry follows stays as it is.                                   *)
LEMMA PrefixesKept ==
  ASSUME Typed, NEW e \in Entry, journal' = Append(journal, e)
  PROVE  \A i \in DOMAIN journal' :
           \/ /\ i \in DOMAIN journal /\ journal'[i] = journal[i]
              /\ SubSeq(journal', 1, i - 1) = SubSeq(journal, 1, i - 1)
           \/ journal'[i] = e /\ SubSeq(journal', 1, i - 1) = journal
<1>1. /\ Len(journal) \in Nat /\ journal \in Seq(Entry)
      /\ DOMAIN journal = 1 .. Len(journal) /\ DOMAIN journal' = 1 .. Len(journal) + 1
      /\ journal'[Len(journal) + 1] = e
      /\ \A i \in DOMAIN journal : journal'[i] = journal[i]
  BY JournalAppended DEF Typed
<1>2. ASSUME NEW i \in DOMAIN journal
      PROVE  SubSeq(journal', 1, i - 1) = SubSeq(journal, 1, i - 1)
  <2>1. i - 1 \in 0 .. Len(journal)  BY <1>1
  <2> QED  BY <1>1, <2>1, PrefixKept
<1>3. ASSUME NEW i \in DOMAIN journal', i \notin DOMAIN journal
      PROVE  journal'[i] = e /\ SubSeq(journal', 1, i - 1) = journal
  <2>1. i = Len(journal) + 1 /\ i - 1 = Len(journal) /\ Len(journal) \in 0 .. Len(journal)
    BY <1>1, <1>3
  <2>2. SubSeq(journal', 1, Len(journal)) = SubSeq(journal, 1, Len(journal))
    BY <1>1, <2>1, PrefixKept
  <2> QED  BY <1>1, <2>1, <2>2, SubSeqFull
<1> QED  BY <1>1, <1>2, <1>3

(* Each entry stays admissible after those before it.                      *)
LEMMA RecordedStep ==
  ASSUME Typed, Recorded,
         \/ journal' = journal
         \/ \E e \in Entry : journal' = Append(journal, e) /\ Admissible(journal, e)
  PROVE  Recorded'
BY PrefixesKept DEF Recorded

LEMMA BlankJournal == InitRun => Rooted /\ Recorded
<1> SUFFICES ASSUME InitRun PROVE Rooted /\ Recorded
  OBVIOUS
<1>1. DOMAIN journal = {} /\ \A t : At(journal, t) = {}  BY DEF InitRun, Init, At
<1> QED  BY <1>1 DEF Rooted, Recorded

LEMMA RecordedReplays ==
  ASSUME Wave, Rooted, Recorded PROVE Replayable(journal)
<1>1. Typed /\ Newest /\ NoGrowth  BY DEF Wave
<1>2. OrphansIn(journal) = {} /\ Topology(AppliedIn(journal)) = Graph
  BY <1>1, GraphsAgree DEF Graph
<1>3. OrphansOK(journal)  BY <1>2 DEF OrphansOK
<1>4. ASSUME NEW n \in Node, TrustedIn(journal, n) # 0
      PROVE  n \in Graph.nodes /\ Ready(Graph, FiredIn(journal), n)
  <2>1. /\ TrustedIn(journal, n) \in At(journal, "node_settled")
        /\ journal[TrustedIn(journal, n)].node = n
    BY <1>1, <1>4, ReplayTyped
  <2> QED  BY <2>1 DEF Rooted
<1>5. ClosureOK(journal)  BY <1>2, <1>4 DEF ClosureOK
<1> QED  BY <1>3, <1>5 DEF Replayable, Recorded

(* Whatever a crash, an ended activation or a refused append leaves in the *)
(* journal, the next activation's replay accepts it.                       *)
THEOREM ReplayAcceptsHolds ==
  ASSUME MaxExpansions = 0, FreshIds, AnyJoin = {} \/ MaxNodes <= MaxConcurrency
  PROVE  SpecRun => []ReplayAccepts
<1> DEFINE Inv == History /\ Rooted /\ Recorded
<1>1. InitRun => Inv  BY HistoryFirst, BlankJournal
<1>2. Inv /\ [NextRun]_vars => Inv'
  <2>1. Inv /\ [NextRun]_vars => Recorded'
    BY AppendsAdmissible, RecordedStep DEF History, Wave
  <2> QED  BY <2>1, HistoryStep, RootedStep
<1>3. Inv => ReplayAccepts
  BY RecordedReplays DEF History, ReplayAccepts
<1> QED  BY <1>1, <1>2, <1>3, PTL DEF SpecRun


-----------------------------------------------------------------------------
(* What replay refuses, with the activation ids and the budget as they are *)
(* in the daemon.                                                          *)

LEMMA AnyJoinOrNot ==
  ASSUME MaxExpansions = 0, History, Claim
  PROVE  \E e \in Entry : journal' = Append(journal, e) /\ (Admissible(journal, e) \/ JoinsLate(journal, e))
<1> DEFINE e == Started(slice[pos].node, slice[pos].attempt, slice[pos].input, wave)
<1>1. e \in Entry /\ journal' = Append(journal, e)
  BY ClaimMoves DEF History, Wave, Entry
<1>2. Admissible(journal, e) \/ JoinsLate(journal, e)
  BY ClaimAdmissible DEF History
<1> QED  BY <1>1, <1>2

LEMMA IdsKept ==
  ASSUME Typed, [NextRun]_vars PROVE IdsIn(journal) \subseteq IdsIn(journal')
<1>1. /\ \A i \in At(journal, "node_started") :
           i \in At(journal', "node_started") /\ journal'[i] = journal[i]
      /\ \A i \in At(journal, "run_header") :
           i \in At(journal', "run_header") /\ journal'[i] = journal[i]
  BY EntriesKept DEF At
<1> QED  BY <1>1 DEF IdsIn

LEMMA IdsTyped ==
  ASSUME Typed
  PROVE  /\ IdsIn(journal) \subseteq Nat
         /\ \A h \in At(journal, "run_header") : h \in Nat /\ journal[h].id \in Nat
         /\ \A i \in At(journal, "node_started") : i \in Nat /\ journal[i].attempt \in Nat
BY EntriesOf DEF IdsIn, Typed, At, StartedSet, HeaderSet

LEMMA NearAndOrdered ==
  ASSUME Typed, IdsNear, IdsOrdered, [NextRun]_vars,
         NEW e \in Entry, journal' = Append(journal, e),
         e.type = "run_header" => \E b \in IdsIn(journal) : e.id <= b + 1,
         e.type = "node_started" => \A h \in At(journal, "run_header") : journal[h].id < e.attempt
  PROVE  IdsNear' /\ IdsOrdered'
<1> DEFINE L == Len(journal) + 1
<1>1. /\ journal'[L] = e /\ L \in Nat
      /\ \A i \in DOMAIN journal : journal'[i] = journal[i] /\ i \in Nat /\ i < L
      /\ \A t : At(journal', t) = IF e.type = t THEN At(journal, t) \cup {L} ELSE At(journal, t)
  BY JournalAppended
<1> HIDE DEF L
<1>2. \A t : At(journal, t) \subseteq DOMAIN journal  BY DEF At
<1>3. IdsNear'
  <2> SUFFICES ASSUME NEW h \in At(journal', "run_header")
               PROVE  \E b \in IdsIn(journal') : journal'[h].id <= b + 1
    BY DEF IdsNear
  <2>1. CASE h \in At(journal, "run_header")  BY <1>1, <1>2, <2>1, IdsKept DEF IdsNear
  <2>2. CASE h \notin At(journal, "run_header")
    <3>1. e.type = "run_header" /\ journal'[h] = e  BY <1>1, <2>2
    <3> QED  BY <3>1, IdsKept
  <2> QED  BY <2>1, <2>2
<1>4. IdsOrdered'
  <2> SUFFICES ASSUME NEW h \in At(journal', "run_header"), NEW i \in At(journal', "node_started"),
                      h < i
               PROVE  journal'[h].id < journal'[i].attempt
    BY DEF IdsOrdered
  <2>1. \A k \in At(journal', "node_started") : k \in DOMAIN journal \/ k = L
    BY <1>1, <1>2
  <2>2. h # L
    <3>1. SUFFICES ASSUME h = L PROVE FALSE
      OBVIOUS
    <3> QED  BY <1>1, <2>1, <3>1
  <2>3. h \in At(journal, "run_header") /\ journal'[h] = journal[h]
    BY <1>1, <1>2, <2>2
  <2>4. CASE i \in At(journal, "node_started")
    <3>1. journal'[i] = journal[i]  BY <1>1, <1>2, <2>4
    <3> QED  BY <2>3, <2>4, <3>1 DEF IdsOrdered
  <2>5. CASE i \notin At(journal, "node_started")
    <3>1. e.type = "node_started" /\ journal'[i] = e  BY <1>1, <2>5
    <3> QED  BY <2>3, <3>1
  <2> QED  BY <2>4, <2>5
<1> QED  BY <1>3, <1>4

LEMMA NumberedFirst == InitRun => Numbered
<1> SUFFICES ASSUME InitRun PROVE Numbered
  OBVIOUS
<1>1. \A t : At(journal, t) = {}  BY DEF InitRun, Init, At
<1>2. phase = "down"  BY DEF InitRun
<1> QED  BY <1>1, <1>2 DEF Numbered, IdsNear, IdsOrdered, Live

LEMMA NumberedStep ==
  ASSUME Typed, NoGrowth, MaxExpansions = 0, Newest, Attempts, Numbered, [NextRun]_vars
  PROVE  Numbered'
<1>0. /\ minted \in Nat /\ pos \in Nat /\ Len(slice) \in Nat
      /\ IdsNear /\ IdsOrdered
  BY LenProperties DEF Typed, TypeOK, Numbered
<1>1. ASSUME journal' = journal PROVE IdsNear' /\ IdsOrdered'
  BY <1>0, <1>1 DEF IdsNear, IdsOrdered, IdsIn, At
<1>2. ASSUME journal' = journal, Live, phase # "open", phase' # "open",
             minted' - Len(slice') = minted - Len(slice)
      PROVE  Numbered'
  BY <1>1, <1>2 DEF Numbered
<1>3. CASE Idle
  <2>1. UNCHANGED <<journal, slice, minted>>  BY <1>3, IdleStep
  <2>2. /\ Live' /\ phase' # "open" => Live /\ phase # "open"
        /\ phase' = "open" => phase = "open"
    BY <1>3, IdleStep DEF Live
  <2> QED  BY <1>1, <2>1, <2>2 DEF Numbered
<1>4. CASE Crash \/ ActivateRefused
  <2>1. journal' = journal /\ phase' \in {"down", "ended"}
    BY <1>4 DEF Crash, ActivateRefused, End
  <2> QED  BY <1>1, <2>1 DEF Numbered, Live
<1>5. CASE Activate
  <2>1. journal' = journal /\ phase' = "open" /\ minted' = LastId(journal) + 1
    BY <1>5 DEF Activate, Listings
  <2> QED  BY <1>1, <2>1 DEF Numbered
<1>6. CASE OpenHeader
  <2> DEFINE e == Header(minted)
  <2>1. /\ e \in Entry /\ e.type = "run_header" /\ e.id = minted /\ journal' = Append(journal, e)
        /\ phase = "open" /\ phase' = "plan" /\ slice' = <<>>
    BY <1>6, OpenHeaderIs DEF Entry, Header
  <2>2. minted' = minted  BY <1>6 DEF OpenHeader
  <2> HIDE DEF e
  <2>3. /\ minted = LastId(journal) + 1 /\ LastId(journal) \in IdsIn(journal)
        /\ \A b \in IdsIn(journal) : b <= LastId(journal)
    BY <2>1, ReplayTyped DEF Numbered
  <2>4. \E b \in IdsIn(journal) : e.id <= b + 1  BY <1>0, <2>1, <2>3
  <2>5. IdsNear' /\ IdsOrdered'  BY <1>0, <2>1, <2>4, NearAndOrdered
  <2>6. Len(slice') = 0  BY <2>1, NoElems
  <2>7. ASSUME NEW h \in At(journal', "run_header") PROVE journal'[h].id <= minted
    <3>1. (h \in At(journal, "run_header") /\ journal'[h] = journal[h]) \/ journal'[h] = e
      BY <2>1, JournalAppended DEF At
    <3>2. CASE h \in At(journal, "run_header") /\ journal'[h] = journal[h]
      <4>1. PICK b \in IdsIn(journal) : journal[h].id <= b + 1  BY <1>0, <3>2 DEF IdsNear
      <4> QED  BY <2>3, <3>2, <4>1, IdsTyped
    <3>3. CASE journal'[h] = e  BY <1>0, <2>1, <3>3
    <3> QED  BY <3>1, <3>2, <3>3
  <2>8. minted' - Len(slice') = minted  BY <1>0, <2>2, <2>6
  <2>9. phase' # "open"  BY <2>1
  <2> QED  BY <2>5, <2>7, <2>8, <2>9 DEF Numbered
<1>7. CASE TakeSlice
  <2>1. /\ journal' = journal /\ phase = "slice" /\ phase' = "claim" /\ slice = <<>>
        /\ Len(slice') \in Nat /\ minted' = minted + Len(slice')
    BY <1>7, TakeSliceIs, SliceTaken
  <2>2. minted' - Len(slice') = minted - Len(slice)  BY <1>0, <2>1, NoElems
  <2> QED  BY <1>2, <2>1, <2>2 DEF Live
<1>8. CASE Claim
  <2> DEFINE e == Started(slice[pos].node, slice[pos].attempt, slice[pos].input, wave)
  <2>1. /\ e \in Entry /\ e.type = "node_started" /\ e.attempt = slice[pos].attempt
        /\ journal' = Append(journal, e) /\ phase = "claim" /\ phase' \in {"claim", "run"}
        /\ pos \in 1 .. Len(slice) /\ DOMAIN slice = 1 .. Len(slice) /\ slice' = slice
    BY <1>8, ClaimMoves DEF Entry, Started
  <2>2. minted' = minted  BY <1>8 DEF Claim
  <2> HIDE DEF e
  <2>3. slice[pos].attempt = minted - Len(slice) + pos  BY <2>1 DEF Attempts, Live
  <2>4. \A h \in At(journal, "run_header") : journal[h].id <= minted - Len(slice)
    BY <2>1 DEF Numbered, Live
  <2>5. \A h \in At(journal, "run_header") : journal[h].id < e.attempt
    BY <1>0, <2>1, <2>3, <2>4, IdsTyped
  <2>6. IdsNear' /\ IdsOrdered'  BY <1>0, <2>1, <2>5, NearAndOrdered
  <2>7. \A h \in At(journal', "run_header") : journal'[h].id <= minted' - Len(slice')
    BY <2>1, <2>2, <2>4, JournalAppended DEF At
  <2> QED  BY <2>1, <2>6, <2>7 DEF Numbered
<1>9. CASE \E i \in 1 .. MaxConcurrency : RunnerReturns(i)
  <2>1. /\ journal' = journal /\ phase = "run" /\ phase' \in {"run", "settle"} /\ minted' = minted
    BY <1>9 DEF RunnerReturns
  <2>2. Len(slice') = Len(slice)  BY <1>9, SameWork
  <2> QED  BY <1>2, <2>1, <2>2 DEF Live
<1>10. CASE PatchRefused
  <2>1. /\ journal' = journal /\ phase = "settle" /\ phase' = "verdict" /\ minted' = minted
    BY <1>10 DEF PatchRefused
  <2>2. Len(slice') = Len(slice)  BY <1>10, SameWork
  <2> QED  BY <1>2, <2>1, <2>2 DEF Live
<1>11. CASE Settle
  <2>1. PICK e \in SettledSet : journal' = Append(journal, e)  BY <1>11, SettleIs
  <2>2. e \in Entry /\ e.type = "node_settled"  BY DEF Entry, SettledSet
  <2>3. /\ Live /\ phase # "open" /\ phase' \in {"settle", "slice"}
        /\ slice' = slice \/ slice' = <<>>
    BY <1>11, SettleMoves DEF Live, Settling
  <2>4. minted' = minted  BY <1>11 DEF Settle
  <2>5. IdsNear' /\ IdsOrdered'  BY <1>0, <2>1, <2>2, NearAndOrdered
  <2>6. Len(slice') \in Nat /\ Len(slice') <= Len(slice)  BY <1>0, <2>3, NoElems
  <2>7. ASSUME NEW h \in At(journal', "run_header") PROVE journal'[h].id <= minted' - Len(slice')
    <3>1. h \in At(journal, "run_header") /\ journal'[h] = journal[h]
      BY <2>1, <2>2, JournalAppended DEF At
    <3>2. journal[h].id <= minted - Len(slice)  BY <2>3, <3>1 DEF Numbered
    <3> QED  BY <1>0, <2>4, <2>6, <3>1, <3>2, IdsTyped
  <2> QED  BY <2>3, <2>5, <2>7 DEF Numbered
<1>12. CASE EndWave
  <2>1. /\ journal' = journal /\ phase = "slice" /\ phase' \in {"plan", "ended"} /\ slice' = slice
    BY <1>12, EndWaveIs
  <2>2. minted' = minted  BY <1>12 DEF EndWave
  <2> QED  BY <1>2, <2>1, <2>2 DEF Live
<1> QED
  BY <1>3, <1>4, <1>5, <1>6, <1>7, <1>8, <1>9, <1>10, <1>11, <1>12, Steps, NoPatchAdmitted
     DEF Idle

(* A header that replay refuses follows an activation that claimed nothing.*)
LEMMA HeaderExplained ==
  ASSUME Typed, Newest, Numbered, OpenHeader
  PROVE  Explained(journal, Header(minted))
<1>1. SUFFICES ASSUME ~HeaderOK(journal, Header(minted)) PROVE RepeatsIdle(journal, Header(minted))
  BY DEF Explained, Admissible, Header
<1>2. PICK h \in At(journal, "run_header") : journal[h].id = minted
  BY <1>1 DEF HeaderOK, Header
<1>3. /\ minted = LastId(journal) + 1 /\ LastId(journal) \in Nat
      /\ \A b \in IdsIn(journal) : b <= LastId(journal)
  BY OpenHeaderIs, ReplayTyped DEF Numbered
<1>4. ASSUME NEW i \in At(journal, "node_started") PROVE i < h
  <2>1. journal[i].attempt < minted
    <3>1. journal[i].attempt \in IdsIn(journal)  BY DEF IdsIn
    <3> QED  BY <1>3, <3>1, IdsTyped
  <2>2. ~(h < i)
    <3>1. SUFFICES ASSUME h < i PROVE FALSE
      OBVIOUS
    <3>2. journal[h].id < journal[i].attempt  BY <3>1 DEF Numbered, IdsOrdered
    <3> QED  BY <1>2, <1>3, <2>1, <3>2, IdsTyped
  <2>3. h # i  BY DEF At
  <2> QED  BY <2>2, <2>3, IdsTyped
<1> QED  BY <1>2, <1>4 DEF RepeatsIdle, Header

LEMMA AppendsExplained ==
  ASSUME MaxExpansions = 0, History, Numbered, [NextRun]_vars
  PROVE  \/ journal' = journal
         \/ \E e \in Entry : journal' = Append(journal, e) /\ Explained(journal, e)
<1>1. Typed /\ Newest /\ NoGrowth  BY DEF History, Wave
<1>2. CASE OpenHeader
  <2>1. Header(minted) \in Entry  BY <1>1, <1>2, OpenHeaderIs DEF Entry
  <2> QED  BY <1>1, <1>2, <2>1, OpenHeaderIs, HeaderExplained
<1>3. CASE Claim  BY <1>3, AnyJoinOrNot DEF Explained
<1>4. CASE Settle  BY <1>4, SettlementAdmissible DEF History, Entry, Explained
<1> QED  BY <1>1, <1>2, <1>3, <1>4, Steps, JournalKept, NoPatchAdmitted

LEMMA JudgedStep ==
  ASSUME Typed, Judged,
         \/ journal' = journal
         \/ \E e \in Entry : journal' = Append(journal, e) /\ Explained(journal, e)
  PROVE  Judged'
BY PrefixesKept DEF Judged

(* With the ids and the budget of the daemon, any-joins and wide waves     *)
(* included, replay refuses a journal only if an activation that claimed   *)
(* nothing was followed by one of the same id, or an any-join was          *)
(* dispatched in the wave of one of its sources.                           *)
THEOREM RefusalsExplainedHolds ==
  ASSUME MaxExpansions = 0 PROVE SpecRun => []RefusalsExplained
<1> DEFINE Inv == History /\ Numbered /\ Rooted /\ Judged
<1>1. InitRun => Inv
  <2>1. InitRun => Judged  BY DEF InitRun, Init, Judged
  <2> QED  BY <2>1, HistoryFirst, NumberedFirst, BlankJournal
<1>2. Inv /\ [NextRun]_vars => Inv'
  <2>1. Inv /\ [NextRun]_vars => Judged'
    BY AppendsExplained, JudgedStep DEF History, Wave
  <2>2. Inv /\ [NextRun]_vars => Numbered'
    BY NumberedStep DEF History, Wave
  <2> QED  BY <2>1, <2>2, HistoryStep, RootedStep
<1>3. Inv => RefusalsExplained
  <2> SUFFICES ASSUME Inv, ~RefusalsExplained PROVE Recorded
    BY RecordedReplays DEF History, RefusalsExplained, ReplayAccepts
  <2> QED  BY DEF RefusalsExplained, Judged, Explained, Recorded
<1> QED  BY <1>1, <1>2, <1>3, PTL DEF SpecRun
-----------------------------------------------------------------------------
(* What is trusted, and what is observed, are the newest settlements.      *)

LEMMA GreatestIs ==
  ASSUME NEW S \in SUBSET Nat, NEW m \in S, \A k \in S : k <= m
  PROVE  (CHOOSE i \in S : \A k \in S : k <= i) = m
<1>1. \A i \in S : (\A k \in S : k <= i) => i = m
  <2>1. \A i \in S : i <= m /\ (m <= i => i = m)  OBVIOUS
  <2> QED  BY <2>1
<1> QED  BY <1>1

LEMMA NewestGrows ==
  ASSUME Typed, NEW e \in Entry, journal' = Append(journal, e), NEW n \in Node
  PROVE  TrustedIn(journal', n) = IF e.type = "node_settled" /\ e.node = n /\ Routes(e)
                                  THEN Len(journal) + 1 ELSE TrustedIn(journal, n)
<1> DEFINE L == Len(journal) + 1
           Top(S) == IF S = {} THEN 0 ELSE CHOOSE i \in S : \A k \in S : k <= i
<1>1. /\ \A i \in DOMAIN journal : journal'[i] = journal[i] /\ i \in Nat /\ i < L
      /\ journal'[L] = e /\ L \in Nat
      /\ \A t : At(journal', t) = IF e.type = t THEN At(journal, t) \cup {L} ELSE At(journal, t)
  BY JournalAppended
<1>2. At(journal, "node_settled") \subseteq DOMAIN journal  BY DEF At
<1>3. /\ TrustedIn(journal, n) = Top(Routed(journal, n))
      /\ TrustedIn(journal', n) = Top(Routed(journal', n))
  BY DEF TrustedIn, Routed
<1> HIDE DEF L
<1>4. CASE e.type = "node_settled" /\ e.node = n /\ Routes(e)
  <2>1. At(journal', "node_settled") = At(journal, "node_settled") \cup {L}  BY <1>1, <1>4
  <2>2. L \in Routed(journal', n)  BY <1>1, <1>4, <2>1 DEF Routed
  <2>3. Routed(journal', n) \subseteq DOMAIN journal \cup {L}  BY <1>2, <2>1 DEF Routed
  <2>4. Routed(journal', n) \subseteq Nat /\ \A k \in Routed(journal', n) : k <= L
    BY <1>1, <2>3
  <2>5. Top(Routed(journal', n)) = L  BY <2>2, <2>4, GreatestIs
  <2> HIDE DEF Top
  <2> QED  BY <1>3, <1>4, <2>5 DEF L
<1>5. CASE ~(e.type = "node_settled" /\ e.node = n /\ Routes(e))
  <2>1. Routed(journal', n) = Routed(journal, n)
    BY <1>1, <1>2, <1>5 DEF Routed
  <2> HIDE DEF Top
  <2> QED  BY <1>3, <1>5, <2>1
<1> QED  BY <1>4, <1>5

(* An entry that settles nothing leaves the newest settlements alone.      *)
LEMMA NewestKept ==
  ASSUME Typed, OpenHeader \/ Claim, NEW n \in Node
  PROVE  TrustedIn(journal', n) = TrustedIn(journal, n)
<1>1. CASE OpenHeader
  <2>1. Header(minted) \in Entry /\ Header(minted).type = "run_header"
    BY <1>1, OpenHeaderIs DEF Entry, Header
  <2> QED  BY <1>1, <2>1, OpenHeaderIs, NewestGrows
<1>2. CASE Claim
  <2> DEFINE e == Started(slice[pos].node, slice[pos].attempt, slice[pos].input, wave)
  <2>1. e \in Entry /\ e.type = "node_started" /\ journal' = Append(journal, e)
    BY <1>2, ClaimMoves DEF Entry, Started
  <2> HIDE DEF e
  <2> QED  BY <2>1, NewestGrows
<1> QED  BY <1>1, <1>2

(* A settlement that routes is the newest of its node.                     *)
LEMMA NewestSettled ==
  ASSUME Typed, NEW e \in SettledSet, journal' = Append(journal, e)
  PROVE  /\ \A n \in Node \ {e.node} : TrustedIn(journal', n) = TrustedIn(journal, n)
         /\ ~Routes(e) => TrustedIn(journal', e.node) = TrustedIn(journal, e.node)
         /\ Routes(e) => /\ TrustedIn(journal', e.node) # 0
                         /\ journal'[TrustedIn(journal', e.node)] = e
<1>1. e \in Entry /\ e.type = "node_settled" /\ e.node \in Node  BY DEF Entry, SettledSet
<1>2. Len(journal) + 1 # 0 /\ journal'[Len(journal) + 1] = e  BY <1>1, JournalAppended
<1> QED  BY <1>1, <1>2, NewestGrows

(* What is in the journal under a newest settlement stays there.           *)
LEMMA NewestEntry ==
  ASSUME Wave, NEW n \in Node, TrustedIn(journal, n) # 0, [NextRun]_vars
  PROVE  journal'[TrustedIn(journal, n)] = journal[TrustedIn(journal, n)]
BY ReplayTyped, EntriesKept DEF Wave, At

LEMMA TrustStep ==
  ASSUME Wave, Trust, MaxExpansions = 0, [NextRun]_vars
  PROVE  Trust'
<1>0. Typed /\ NoGrowth /\ TrustedShown /\ Scheduled /\ OwnEdges /\ Apart  BY DEF Wave
<1> SUFFICES ASSUME Live', NEW n \in Node
             PROVE  \/ trusted'[n] = TrustedIn(journal', n)
                    \/ status'[n] # "none"
                    \/ \E k \in DOMAIN settling' : settling'[k].node = n /\ Routes(settling'[k])
  BY DEF Trust, Settled
<1> DEFINE Due == \E k \in DOMAIN settling : settling[k].node = n /\ Routes(settling[k])
<1>1. Live => trusted[n] = TrustedIn(journal, n) \/ status[n] # "none" \/ Due
  BY DEF Trust, Settled
<1>2. CASE Same
  <2>1. Live /\ UNCHANGED <<trusted, journal, status, settling>>  BY <1>2 DEF Same, Live
  <2> QED  BY <1>1, <2>1
<1>3. CASE Restarts
  <2>1. Activate  BY <1>3 DEF Restarts, Live
  <2>2. journal' = journal /\ trusted' = [m \in Node |-> TrustedIn(journal, m)]
    BY <2>1 DEF Activate, Listings
  <2> QED  BY <2>2
<1>4. CASE Chosen \/ PlanWave \/ ReuseDecided \/ TakeSlice
  <2>1. /\ Live /\ UNCHANGED <<trusted, journal, status>>
        /\ settling' = settling \/ DOMAIN settling = {}
    BY <1>0, <1>4, PlanIs, ReuseDecidedIs, TakeSliceIs DEF Chosen, Live, Typed, Shape
  <2> QED  BY <1>1, <2>1
<1>5. CASE OpenHeader \/ Claim
  <2>1. /\ Live /\ UNCHANGED <<trusted, status, settling>>
        /\ TrustedIn(journal', n) = TrustedIn(journal, n)
    BY <1>0, <1>5, OpenHeaderIs, ClaimMoves, NewestKept DEF Live
  <2> QED  BY <1>1, <2>1
<1>6. CASE Reuse
  <2>1. Live /\ UNCHANGED <<trusted, journal, settling>>  BY <1>0, <1>6, ReuseIs DEF Live
  <2>2. Settled \subseteq Settled'  BY <1>0, <1>6, ObservedGrows
  <2> QED  BY <1>1, <2>1, <2>2 DEF Settled
<1>7. CASE Settle
  <2>1. PICK e \in SettledSet : journal' = Append(journal, e) /\ settling' = Append(settling, e)
    BY <1>0, <1>7, SettleIs
  <2>2. /\ DOMAIN settling' = DOMAIN settling \cup {Len(settling) + 1}
        /\ \A k \in DOMAIN settling : settling'[k] = settling[k]
        /\ settling'[Len(settling) + 1] = e
    BY <1>0, <2>1, SettlingGrows
  <2>3. Live /\ UNCHANGED <<trusted, status>>  BY <1>0, <1>7, SettleMoves DEF Live, Settling
  <2>4. CASE e.node = n /\ Routes(e)  BY <2>2, <2>4
  <2>5. CASE ~(e.node = n /\ Routes(e))
    <3>1. TrustedIn(journal', n) = TrustedIn(journal, n)  BY <1>0, <2>1, <2>5, NewestSettled
    <3> QED  BY <1>1, <2>2, <2>3, <3>1
  <2> QED  BY <2>4, <2>5
<1>8. CASE EndWave
  <2>1. Live /\ Mid /\ UNCHANGED <<trusted, journal>>  BY <1>0, <1>8, EndWaveIs DEF Live, Mid
  <2>2. ASSUME Due PROVE status'[n] # "none"
    <3>1. PICK k \in DOMAIN settling : settling[k].node = n /\ Routes(settling[k])  BY <2>2
    <3>2. status'[n] = settling[k].status  BY <1>0, <1>8, <2>1, <3>1, EndWaveIs DEF Apart
    <3> QED  BY <3>1, <3>2, RoutesSettle
  <2>3. Settled \subseteq Settled'  BY <1>0, <1>8, ObservedGrows
  <2> QED  BY <1>1, <2>1, <2>2, <2>3 DEF Settled
<1> QED  BY <1>0, <1>2, <1>3, <1>4, <1>5, <1>6, <1>7, <1>8, PlainSteps

(* The edges that fired, and the settlements of the wave that route.       *)
LEMMA CurrentStep ==
  ASSUME Wave, Trust, Current, MaxExpansions = 0, [NextRun]_vars
  PROVE  Current'
<1>0. Typed /\ NoGrowth /\ TrustedShown /\ Scheduled /\ OwnEdges /\ Apart /\ Sourced  BY DEF Wave
<1> DEFINE Of(j, e) == j[TrustedIn(j, e.source)]
           Shown(j, st, out, e) ==
             /\ TrustedIn(j, e.source) # 0 /\ e \in Of(j, e).fired
             /\ Of(j, e).status = st[e.source] /\ Of(j, e).output = out[e.source]
           Top(j, s) == Routes(s) => TrustedIn(j, s.node) # 0 /\ j[TrustedIn(j, s.node)] = s
<1>1. /\ \A e \in fired : Shown(journal, status, output, e)
      /\ Mid => \A k \in DOMAIN settling : Top(journal, settling[k])
  BY DEF Current
<1>2. SUFFICES /\ \A e \in fired' : Shown(journal', status', output', e)
               /\ Mid' => \A k \in DOMAIN settling' : Top(journal', settling'[k])
  BY DEF Current
<1>3. /\ \A e \in fired : e.source \in Node /\ e.source \in Settled
      /\ \A k \in DOMAIN settling : settling[k].node \in Node
  BY <1>0, EdgeParts, SettlingDurable DEF Sourced, Typed, TypeOK
<1>4. CASE Same \/ Chosen \/ PlanWave \/ ReuseDecided \/ TakeSlice
  <2>1. UNCHANGED <<journal, fired, status, output>>
    BY <1>0, <1>4, PlanIs, ReuseDecidedIs, TakeSliceIs DEF Same, Chosen
  <2>2. \/ Mid' => Mid /\ settling' = settling
        \/ DOMAIN settling' = {}
    BY <1>0, <1>4, PlanIs, ReuseDecidedIs, TakeSliceIs DEF Same, Chosen, Mid
  <2> QED  BY <1>1, <2>1, <2>2
<1>5. CASE Restarts
  <2>1. fired' = {} /\ ~Mid'  BY <1>5 DEF Restarts, Mid
  <2> QED  BY <2>1
<1>6. CASE OpenHeader \/ Claim
  <2>1. UNCHANGED <<fired, status, output, settling>> /\ (Mid' => Mid)
    BY <1>0, <1>6, OpenHeaderIs, ClaimMoves DEF Mid
  <2>2. \A n \in Node : TrustedIn(journal', n) = TrustedIn(journal, n)
    BY <1>0, <1>6, NewestKept
  <2>3. \A n \in Node : TrustedIn(journal, n) # 0 =>
          journal'[TrustedIn(journal, n)] = journal[TrustedIn(journal, n)]
    BY NewestEntry
  <2>4. \A e \in fired : Shown(journal', status', output', e)
    BY <1>1, <1>3, <2>1, <2>2, <2>3
  <2>5. ASSUME Mid, NEW k \in DOMAIN settling PROVE Top(journal', settling[k])
    BY <1>1, <1>3, <2>2, <2>3, <2>5
  <2> HIDE DEF Shown, Top
  <2> QED  BY <2>1, <2>4, <2>5
<1>7. CASE Reuse
  <2> DEFINE h == Head(todo)
             s == journal[trusted[h]]
  <2>1. /\ h \in Node /\ trusted[h] \in At(journal, "node_settled") /\ s.node = h /\ todo # <<>>
        /\ status'[h] = s.status /\ output'[h] = s.output /\ fired' = fired \cup s.fired
        /\ journal' = journal /\ settling' = settling /\ phase = "reuse"
    BY <1>0, <1>7, ReuseIs
  <2>2. trusted[h] # 0
    BY <1>7 DEF Reuse
  <2>3. settling = <<>> /\ Live /\ Mid  BY <1>0, <2>1 DEF Typed, Shape, Live, Mid
  <2>4. h \notin Settled  BY <1>0, <2>1, <2>3, HeadMoves DEF Scheduled, InWave
  <2>5. TrustedIn(journal, h) = trusted[h]  BY <2>1, <2>3, <2>4 DEF Trust
  <2>6. \A e \in s.fired : e.source = h  BY <1>0, <2>1 DEF OwnEdges
  <2>7. \A e \in s.fired : Shown(journal, status', output', e)
    BY <2>1, <2>2, <2>5, <2>6
  <2>8. \A n \in Settled : status'[n] = status[n] /\ output'[n] = output[n]
    BY <1>0, <1>7, ObservedGrows
  <2>9. \A e \in fired : Shown(journal, status', output', e)  BY <1>1, <1>3, <2>8
  <2> QED  BY <2>1, <2>3, <2>7, <2>9
<1>8. CASE Settle
  <2>1. PICK e \in SettledSet : /\ journal' = Append(journal, e) /\ settling' = Append(settling, e)
                                /\ e.node = slice[pos].node
    BY <1>0, <1>8, SettleIs
  <2>2. /\ DOMAIN settling' = DOMAIN settling \cup {Len(settling) + 1}
        /\ \A k \in DOMAIN settling : settling'[k] = settling[k]
        /\ settling'[Len(settling) + 1] = e
    BY <1>0, <2>1, SettlingGrows
  <2>3. /\ Mid /\ Settling /\ pos \in DOMAIN slice /\ pos \in Nat
        /\ UNCHANGED <<fired, status, output>>
    BY <1>0, <1>8, SettleMoves DEF Mid, Settling
  <2>4. e.node \in InWave  BY <2>1, <2>3, SliceIn DEF InWave
  <2>5. e.node \notin Settled  BY <1>0, <2>3, <2>4 DEF Scheduled
  <2>6. pos >= pos  BY <2>3
  <2>7. \A k \in DOMAIN settling : settling[k].node # e.node
    BY <1>0, <2>1, <2>3, <2>6 DEF Apart, SettlingNodes
  <2>8. \A n \in Node \ {e.node} : TrustedIn(journal', n) = TrustedIn(journal, n)
    BY <1>0, <2>1, NewestSettled
  <2>9. \A n \in Node : TrustedIn(journal, n) # 0 =>
          journal'[TrustedIn(journal, n)] = journal[TrustedIn(journal, n)]
    BY NewestEntry
  <2>10. \A f \in fired : Shown(journal', status', output', f)
    BY <1>1, <1>3, <2>3, <2>5, <2>8, <2>9
  <2>11. \A k \in DOMAIN settling : Top(journal', settling[k])
    BY <1>1, <1>3, <2>3, <2>7, <2>8, <2>9
  <2>12. Top(journal', e)  BY <1>0, <2>1, NewestSettled
  <2> HIDE DEF Shown, Top
  <2> QED  BY <2>2, <2>3, <2>10, <2>11, <2>12
<1>9. CASE EndWave
  <2>1. /\ Mid /\ journal' = journal /\ DOMAIN settling' = {}
        /\ fired' = fired \cup UNION {settling[k].fired : k \in DOMAIN settling}
        /\ OncePerNode(settling)
    BY <1>0, <1>9, EndWaveIs DEF Mid, Apart
  <2>2. ASSUME NEW k \in DOMAIN settling, NEW e \in settling[k].fired
        PROVE  Shown(journal, status', output', e)
    <3>1. e.source = settling[k].node /\ Routes(settling[k])  BY <1>0, SettlingDurable
    <3>2. status'[e.source] = settling[k].status /\ output'[e.source] = settling[k].output
      BY <1>0, <1>9, <2>1, <3>1, EndWaveIs
    <3>3. Of(journal, e) = settling[k] /\ TrustedIn(journal, e.source) # 0
      BY <1>1, <2>1, <3>1
    <3> QED  BY <3>2, <3>3
  <2>3. \A n \in Settled : status'[n] = status[n] /\ output'[n] = output[n]
    BY <1>0, <1>9, ObservedGrows
  <2>4. \A e \in fired : Shown(journal, status', output', e)  BY <1>1, <1>3, <2>3
  <2> HIDE DEF Shown, Top
  <2> QED  BY <2>1, <2>2, <2>4
<1> QED
  BY <1>0, <1>4, <1>5, <1>6, <1>7, <1>8, <1>9, PlainSteps

LEMMA RefusedStep ==
  ASSUME Wave, Refused, MaxExpansions = 0, [NextRun]_vars
  PROVE  Refused'
<1>0. Typed /\ NoGrowth /\ TrustedShown /\ Scheduled /\ Sourced  BY DEF Wave
<1> DEFINE Changed(n) == \/ trusted[n] = 0 \/ n \in ReadNode \cup AnyJoin
                         \/ journal[trusted[n]].input # InputAt(status, output, fired, n)
<1> SUFFICES ASSUME Mid', NEW n \in Elems(fresh') \cup SliceNodes'
             PROVE  \/ trusted'[n] = 0 \/ n \in ReadNode \cup AnyJoin
                    \/ journal'[trusted'[n]].input # InputAt(status', output', fired', n)
  BY DEF Refused
<1>1. CASE Same \/ ReuseDecided
  <2>1. /\ Mid /\ UNCHANGED <<trusted, journal, status, output, fired, fresh>>
        /\ SliceNodes' = SliceNodes
    BY <1>1, ReuseDecidedIs DEF Same, Mid, SliceNodes
  <2> QED  BY <2>1 DEF Refused
<1>2. CASE Restarts \/ OpenHeader \/ EndWave
  BY <1>0, <1>2, OpenHeaderIs, EndWaveIs DEF Restarts, Mid
<1>3. CASE PlanWave
  <2>1. Elems(fresh') = {} /\ SliceNodes' = {}  BY <1>0, <1>3, PlanIs, NoElems, WaveEmpty
  <2> QED  BY <2>1
<1>4. CASE Chosen
  <2>1. /\ phase = "reuse" /\ slice' = slice /\ todo # <<>> /\ fresh' = Append(fresh, Head(todo))
        /\ UNCHANGED <<trusted, journal, status, output, fired>>
        /\ trusted[Head(todo)] = 0 \/ Head(todo) \in ReadNode \/ ~SameInput(Head(todo))
    BY <1>4 DEF Chosen
  <2>2. SliceNodes' = {} /\ Mid  BY <1>0, <2>1, WaveEmpty DEF Typed, Shape, Mid
  <2>3. Changed(Head(todo))  BY <1>0, <2>1, InputIs DEF SameInput
  <2>4. n \in Elems(fresh) \/ n = Head(todo)  BY <1>0, <2>1, <2>2, HeadMoves
  <2> QED  BY <2>1, <2>2, <2>3, <2>4 DEF Refused
<1>5. CASE Reuse
  <2>1. /\ phase = "reuse" /\ UNCHANGED <<trusted, journal, fresh, slice>>
    BY <1>0, <1>5, ReuseIs
  <2>2. SliceNodes' = {} /\ Mid  BY <1>0, <2>1, WaveEmpty DEF Typed, Shape, Mid
  <2>3. n \in Elems(fresh)  BY <2>1, <2>2
  <2>4. Changed(n)  BY <2>2, <2>3 DEF Refused
  <2>5. CASE n \notin AnyJoin
    <3>1. Incoming(Graph, n) \subseteq fired
      BY <1>0, <2>2, <2>3, <2>5 DEF Scheduled, InWave, Ready, Joined
    <3>2. /\ fired \subseteq fired'
          /\ \A m \in Settled : status'[m] = status[m] /\ output'[m] = output[m]
      BY <1>0, <1>5, ObservedGrows
    <3>3. InputAt(status', output', fired', n) = InputAt(status, output, fired, n)
      BY <1>0, <3>1, <3>2, InputKept
    <3> QED  BY <2>1, <2>4, <3>3
  <2> QED  BY <2>5
<1>6. CASE TakeSlice
  <2>1. SliceNodes' \cup Elems(fresh') \subseteq Elems(fresh)  BY <1>0, <1>6, TakeSliceSplits
  <2>2. Mid /\ UNCHANGED <<trusted, journal, status, output, fired>>
    BY <1>0, <1>6, TakeSliceIs DEF Mid
  <2> QED  BY <2>1, <2>2 DEF Refused
<1>7. CASE Claim \/ Settle
  <2>1. /\ Mid /\ UNCHANGED <<trusted, status, output, fired, fresh>>
        /\ slice' = slice \/ slice' = <<>>
    BY <1>0, <1>7, ClaimMoves, SettleMoves DEF Mid, Settling
  <2>2. SliceNodes' \subseteq SliceNodes  BY <2>1, WaveEmpty DEF SliceNodes
  <2>3. Changed(n) /\ n \in Node
    <3>1. n \in Elems(fresh) \cup SliceNodes  BY <2>1, <2>2
    <3>2. n \in Graph.nodes  BY <1>0, <2>1, <3>1 DEF Scheduled, InWave
    <3> QED  BY <1>0, <2>1, <3>1, <3>2, TopologyTyped DEF Refused, Graph
  <2>4. trusted[n] # 0 => journal'[trusted[n]] = journal[trusted[n]]
    BY <1>0, <2>3, EntriesKept DEF TrustedShown, At
  <2> QED  BY <2>1, <2>3, <2>4
<1> QED
  BY <1>0, <1>1, <1>2, <1>3, <1>4, <1>5, <1>6, <1>7, PlainSteps

(* A complete join consumes what the newest settlements before it say.     *)
LEMMA EvidenceIs ==
  ASSUME NoGrowth, Current, NEW n, Incoming(Graph, n) \subseteq fired
  PROVE  EvidenceIn(journal, n) = InputAt(status, output, fired, n)
<1> DEFINE in == Incoming(Graph, n)
           newest(e) == journal[TrustedIn(journal, e.source)]
<1>1. \A e \in in : /\ TrustedIn(journal, e.source) # 0 /\ e \in newest(e).fired
                    /\ newest(e).status = status[e.source]
                    /\ newest(e).output = output[e.source]
  BY DEF Current
<1>2. EvidenceIn(journal, n) =
        {<<e.source, newest(e).output>> :
           e \in {i \in in : /\ TrustedIn(journal, i.source) # 0
                             /\ newest(i).status = "completed" /\ i \in newest(i).fired}}
  BY GraphsAgree DEF EvidenceIn
<1>3. in \cap fired = in  OBVIOUS
<1> HIDE DEF in, newest
<1>4. {i \in in : /\ TrustedIn(journal, i.source) # 0
                  /\ newest(i).status = "completed" /\ i \in newest(i).fired}
        = {i \in in : status[i.source] = "completed"}
  BY <1>1
<1>5. {<<e.source, newest(e).output>> : e \in {i \in in : status[i.source] = "completed"}}
        = {<<e.source, output[e.source]>> : e \in {i \in in : status[i.source] = "completed"}}
  BY <1>1
<1> QED  BY <1>2, <1>3, <1>4, <1>5 DEF InputAt, in

(* A claim of settled work is of changed input.                            *)
LEMMA ClaimsAnew ==
  ASSUME Wave, Trust, Current, Refused, Claim,
         slice[pos].node \notin ReadNode \cup AnyJoin, TrustedIn(journal, slice[pos].node) # 0
  PROVE  journal[TrustedIn(journal, slice[pos].node)].input # EvidenceIn(journal, slice[pos].node)
<1> DEFINE n == slice[pos].node
<1>1. phase = "claim" /\ pos \in DOMAIN slice /\ n \in SliceNodes /\ n \in InWave
  BY ClaimMoves, SliceIn DEF Wave, InWave
<1>2. Mid /\ Live /\ ~Settling  BY <1>1 DEF Mid, Live, Settling
<1>3. n \in Graph.nodes /\ n \notin Settled /\ Incoming(Graph, n) \subseteq fired
  BY <1>1, <1>2 DEF Wave, Scheduled, Ready, Joined
<1>4. n \in Node  BY <1>3, TopologyTyped DEF Graph
<1>5. n \notin SettlingNodes  BY <1>1, <1>2 DEF Wave, Apart
<1>6. trusted[n] = TrustedIn(journal, n)  BY <1>2, <1>3, <1>4, <1>5 DEF Trust, SettlingNodes
<1>7. journal[trusted[n]].input # InputAt(status, output, fired, n)
  BY <1>1, <1>2, <1>6 DEF Refused
<1> QED  BY <1>3, <1>6, <1>7, EvidenceIs DEF Wave

LEMMA SettledWorkStep ==
  ASSUME Wave, Trust, Current, Refused, MaxExpansions = 0, [NextRun]_vars,
         NEW i \in DOMAIN journal' \ DOMAIN journal, journal'[i].type = "node_started",
         TrustedIn(journal, journal'[i].node) # 0,
         journal'[i].node \notin ReadNode \cup AnyJoin
  PROVE  journal[TrustedIn(journal, journal'[i].node)].input # EvidenceIn(journal, journal'[i].node)
<1>0. Typed /\ NoGrowth  BY DEF Wave
<1>1. ASSUME NEW e \in Entry, journal' = Append(journal, e)
      PROVE  journal'[i] = e
  <2>1. /\ DOMAIN journal = 1 .. Len(journal) /\ DOMAIN journal' = 1 .. Len(journal) + 1
        /\ Len(journal) \in Nat /\ journal'[Len(journal) + 1] = e
    BY <1>0, <1>1, JournalAppended
  <2>2. i = Len(journal) + 1  BY <2>1
  <2> QED  BY <2>1, <2>2
<1>2. CASE OpenHeader
  <2>1. Header(minted) \in Entry /\ Header(minted).type = "run_header"
    BY <1>0, <1>2, OpenHeaderIs DEF Entry, Header
  <2> QED  BY <1>0, <1>1, <1>2, <2>1, OpenHeaderIs
<1>3. CASE Claim
  <2> DEFINE e == Started(slice[pos].node, slice[pos].attempt, slice[pos].input, wave)
  <2>1. e \in Entry /\ journal' = Append(journal, e) /\ e.node = slice[pos].node
    BY <1>0, <1>3, ClaimMoves DEF Entry, Started
  <2> HIDE DEF e
  <2>2. journal'[i].node = slice[pos].node  BY <1>1, <2>1
  <2> QED  BY <1>3, <2>2, ClaimsAnew
<1>4. CASE Settle
  <2>1. PICK e \in SettledSet : journal' = Append(journal, e) /\ e.type = "node_settled"
    BY <1>0, <1>4, SettleIs
  <2> QED  BY <1>1, <2>1 DEF Entry
<1>5. journal' # journal  OBVIOUS
<1> QED  BY <1>0, <1>2, <1>3, <1>4, <1>5, Steps, JournalKept, NoPatchAdmitted

LEMMA NothingTrusted == InitRun => Trust /\ Current /\ Refused
BY DEF InitRun, Trust, Live, Current, Refused, Mid

(* However a run is interrupted and resumed, a node whose settlement still *)
(* stands on the evidence there is now is not claimed again: only a read   *)
(* node is (its artifact may be gone), or an any-join.                     *)
THEOREM SettledWorkIsKeptHolds ==
  ASSUME MaxExpansions = 0 PROVE SpecRun => SettledWorkIsKept
<1> DEFINE Inv == Wave /\ Trust /\ Current /\ Refused
           Kept == \A i \in DOMAIN journal' \ DOMAIN journal :
                     LET n == journal'[i].node
                         k == TrustedIn(journal, n)
                     IN  journal'[i].type = "node_started" /\ k # 0 =>
                           \/ n \in ReadNode \cup AnyJoin
                           \/ journal[k].input # EvidenceIn(journal, n)
<1>1. InitRun => Inv  BY WaveFirst, NothingTrusted
<1>2. Inv /\ [NextRun]_vars => Inv'  BY WaveStep, TrustStep, CurrentStep, RefusedStep
<1>3. Inv /\ [NextRun]_vars => [Kept]_vars  BY SettledWorkStep
<1> QED  BY <1>1, <1>2, <1>3, PTL DEF SpecRun, SettledWorkIsKept

=============================================================================
