--------------------------- MODULE GraphRunProofs ---------------------------
(***************************************************************************)
(* Theorems about GraphRun, for any graphs, patches, runners, budgets and  *)
(* faults.  The inductive invariant says what the journal is made of,      *)
(* where the slice is in each phase, which attempt ids the journal may     *)
(* hold by then, that a claimed slice is claimed in the open segment, and  *)
(* how many claims that segment has.                                       *)
(***************************************************************************)
EXTENDS GraphRun, SequenceTheorems, FiniteSetTheorems, TLAPS

StatusKind == {"none", "completed", "failed", "blocked", "paused", "cancelled"}
Artifact == Output \cup {0}
Evidence == SUBSET (Node \X Artifact)
OutcomeSet == [status : StatusKind, class : SettlementClass,
               output : Artifact, patch : Patch \cup {NoPatch}]
WorkSet == [node : Node, attempt : Nat, input : Evidence, outcome : OutcomeSet]

HeaderSet == [type : {"run_header"}, id : Nat]
StartedSet == [type : {"node_started"}, node : Node, attempt : Nat,
               input : Evidence, wave : Nat]
SettledSet == [type : {"node_settled"}, node : Node, attempt : Nat, input : Evidence,
               wave : Nat, status : StatusKind, class : SettlementClass,
               output : Artifact, patch : Patch \cup {NoPatch}, fired : SUBSET Edge]
AdmittedSet == [type : {"patch_admitted"}, patch : Patch, attempt : Nat]
Entry == HeaderSet \cup StartedSet \cup SettledSet \cup AdmittedSet

(* Where the slice and the settlements of the wave are, phase by phase.    *)
Shape ==
  /\ phase \in {"open", "plan", "reuse", "slice"} => slice = <<>>
  /\ phase \in {"open", "plan", "reuse"} => settling = <<>>
  /\ phase \in {"claim", "settle", "verdict"} => pos \in 1 .. Len(slice)
  /\ phase = "run" => pos = 1 /\ slice # <<>>
  /\ phase \notin {"down", "ended"} => Len(slice) <= MaxConcurrency

Typed ==
  /\ TypeOK
  /\ journal \in Seq(Entry) /\ slice \in Seq(WorkSet) /\ settling \in Seq(SettledSet)
  /\ Shape

(* The settlements a resume may trust are settlements of their nodes.      *)
TrustedShown ==
  \A n \in Node : trusted[n] # 0 =>
    trusted[n] \in At(journal, "node_settled") /\ journal[trusted[n]].node = n

(* What LastId and TrustedIn choose is there.                              *)
Routed(j, n) == {i \in At(j, "node_settled") : j[i].node = n /\ Routes(j[i])}
Newest ==
  /\ \E a \in IdsIn(journal) : \A b \in IdsIn(journal) : b <= a
  /\ \A n \in Node : Routed(journal, n) # {} =>
       \E i \in Routed(journal, n) : \A k \in Routed(journal, n) : k <= i

-----------------------------------------------------------------------------
(* The parts of a journal.                                                 *)

LEMMA EntryKinds ==
  ASSUME NEW e \in Entry
  PROVE  /\ e.type = "run_header" => e \in HeaderSet
         /\ e.type = "node_started" => e \in StartedSet
         /\ e.type = "node_settled" => e \in SettledSet
         /\ e.type = "patch_admitted" => e \in AdmittedSet
BY DEF Entry, HeaderSet, StartedSet, SettledSet, AdmittedSet

LEMMA EntriesOf ==
  ASSUME NEW j \in Seq(Entry), NEW i \in DOMAIN j
  PROVE  /\ i \in 1 .. Len(j)
         /\ i \in At(j, "run_header") => j[i] \in HeaderSet
         /\ i \in At(j, "node_started") => j[i] \in StartedSet
         /\ i \in At(j, "node_settled") => j[i] \in SettledSet
         /\ i \in At(j, "patch_admitted") => j[i] \in AdmittedSet
<1>1. i \in 1 .. Len(j) /\ j[i] \in Entry  OBVIOUS
<1> QED  BY <1>1, EntryKinds DEF At

(* An append adds one position and leaves the others as they are.          *)
LEMMA JournalAppended ==
  ASSUME Typed, NEW e \in Entry, journal' = Append(journal, e)
  PROVE  /\ journal' \in Seq(Entry) /\ Len(journal') = Len(journal) + 1 /\ Len(journal) \in Nat
         /\ DOMAIN journal = 1 .. Len(journal) /\ DOMAIN journal' = 1 .. Len(journal) + 1
         /\ journal'[Len(journal) + 1] = e /\ Len(journal) + 1 \notin DOMAIN journal
         /\ \A i \in DOMAIN journal : journal'[i] = journal[i]
         /\ \A t : At(journal', t) = IF e.type = t THEN At(journal, t) \cup {Len(journal) + 1}
                                                 ELSE At(journal, t)
<1>1. /\ journal' \in Seq(Entry) /\ Len(journal') = Len(journal) + 1 /\ Len(journal) \in Nat
      /\ DOMAIN journal = 1 .. Len(journal) /\ DOMAIN journal' = 1 .. Len(journal) + 1
      /\ journal'[Len(journal) + 1] = e /\ Len(journal) + 1 \notin DOMAIN journal
      /\ \A i \in DOMAIN journal : journal'[i] = journal[i]
  BY AppendProperties, LenProperties DEF Typed
<1>2. DOMAIN journal' = DOMAIN journal \cup {Len(journal) + 1}  BY <1>1
<1> QED  BY <1>1, <1>2, Zenon DEF At

LEMMA HeaderTyped == ASSUME NEW id \in Nat PROVE Header(id) \in HeaderSet
BY DEF Header, HeaderSet

-----------------------------------------------------------------------------
(* The values the actions make.                                            *)

LEMMA EdgeParts ==
  ASSUME NEW e \in Edge PROVE e.source \in Node /\ e.target \in Node
BY DEF Edge

LEMMA PatchParts ==
  ASSUME NEW p \in Patch
  PROVE  Elems(Body[p].nodes) \subseteq Node /\ Body[p].edges \subseteq Edge /\ Body[p].by \in Node
BY TopologyAssumption DEF TopologyAssumption, Elems

LEMMA TopologyTyped ==
  ASSUME NEW P \in SUBSET Patch
  PROVE  Topology(P).nodes \subseteq Node /\ Topology(P).edges \subseteq Edge
<1>1. Elems(Base.nodes) \subseteq Node /\ Base.edges \subseteq Edge
  BY TopologyAssumption DEF TopologyAssumption, Elems
<1> QED  BY <1>1, PatchParts DEF Topology

LEMMA ElemsTyped == ASSUME NEW S, NEW s \in Seq(S) PROVE Elems(s) \subseteq S
BY DEF Elems

LEMMA TopoTyped ==
  ASSUME Typed PROVE Topo.nodes \subseteq Node /\ Topo.edges \subseteq Edge
BY TopologyTyped, ElemsTyped DEF Typed, TypeOK, Topo

LEMMA InputTyped == ASSUME Typed, NEW n PROVE InputOf(n) \in Evidence
<1>1. Incoming(Topo, n) \subseteq Edge  BY TopoTyped DEF Incoming
<1>2. \A e \in Edge : output[e.source] \in Artifact  BY EdgeParts DEF Typed, TypeOK, Artifact
<1> QED  BY <1>1, <1>2, EdgeParts DEF InputOf, Evidence

LEMMA OutcomesTyped ==
  /\ NoOutcome \in OutcomeSet
  /\ \A c \in OutcomeKind \cap SettlementClass : Failed(c) \in OutcomeSet
  /\ \A n \in Node : RunnerOutcome(n) \subseteq OutcomeSet
  /\ \A o \in OutcomeSet : OutcomeAfterAbort(o) \in OutcomeSet
<1> USE DEF OutcomeSet, StatusKind, SettlementClass, Artifact
<1>1. NoOutcome \in OutcomeSet  BY DEF NoOutcome, Stopped
<1>2. \A c \in OutcomeKind \cap SettlementClass : Failed(c) \in OutcomeSet
  BY DEF Failed
<1>3. ASSUME NEW n \in Node PROVE RunnerOutcome(n) \subseteq OutcomeSet
  <2>1. Emits[n] \subseteq Patch  BY RunAssumption DEF RunAssumption
  <2>2. {Done(out, p) : out \in Output, p \in Emits[n] \cup {NoPatch}} \subseteq OutcomeSet
    BY <2>1 DEF Done
  <2>3. \A c \in {"node", "infrastructure", "policy"} : Failed(c) \in OutcomeSet  BY DEF Failed
  <2>4. \A s \in {"blocked", "paused"} : Stopped(s, "none") \in OutcomeSet  BY DEF Stopped
  <2>5. Stopped("cancelled", "cancelled") \in OutcomeSet  BY DEF Stopped
  <2> QED  BY <2>2, <2>3, <2>4, <2>5 DEF RunnerOutcome
<1>4. ASSUME NEW o \in OutcomeSet PROVE OutcomeAfterAbort(o) \in OutcomeSet
  BY <1>4 DEF OutcomeAfterAbort, Stopped
<1> QED  BY <1>1, <1>2, <1>3, <1>4

LEMMA NodesReady == ASSUME Typed PROVE ReadyNow \subseteq Node
BY TopoTyped DEF ReadyNow, ReadyNodes

LEMMA ListingTyped ==
  ASSUME NEW S, IsFiniteSet(S), NEW T, S \subseteq T, NEW s \in [1 .. Cardinality(S) -> S]
  PROVE  s \in Seq(T)
<1>1. Cardinality(S) \in Nat  BY FS_CardinalityType
<1>2. s \in [1 .. Cardinality(S) -> T]  OBVIOUS
<1> QED  BY <1>1, <1>2, SeqDef

-----------------------------------------------------------------------------
(* Types, one group of actions after the other.                            *)

LEMMA NoElems == Elems(<<>>) = {} /\ Len(<<>>) = 0 /\ \A S : <<>> \in Seq(S)
BY EmptySeq DEF Elems

LEMMA BlankFunctions ==
  /\ [n \in Node |-> NoPatch] \in [Node -> Patch \cup {NoPatch}]
  /\ \A k \in Nat : [n \in Node |-> 0] \in [Node -> 0 .. k]
  /\ [n \in Node |-> "none"] \in [Node -> StatusKind]
  /\ [n \in Node |-> 0] \in [Node -> Artifact]
BY DEF StatusKind, Artifact

LEMMA TypedInit == InitRun => Typed
<1> SUFFICES ASSUME InitRun PROVE Typed
  OBVIOUS
<1>1. /\ orphan \in [Node -> Patch \cup {NoPatch}] /\ trusted \in [Node -> 0 .. Len(journal)]
      /\ status \in [Node -> StatusKind] /\ output \in [Node -> Artifact]
  BY BlankFunctions, NoElems DEF InitRun, Init
<1>2. /\ applied \in Seq(Patch) /\ todo \in Seq(Node) /\ fresh \in Seq(Node)
      /\ Elems(slice) = {} /\ Elems(settling) = {}
  BY NoElems DEF InitRun
<1>3. activations \in 0 .. MaxActivations  BY RunAssumption DEF RunAssumption, InitRun
<1>4. TypeOK
  BY <1>1, <1>2, <1>3 DEF InitRun, TypeOK, Phase, Ending, StatusKind, Artifact
<1> QED  BY <1>4, NoElems DEF InitRun, Init, Typed, Shape

(* The actions that leave the journal and the working sequences alone.     *)
LEMMA TypedQuiet ==
  ASSUME Typed,
         AppendFails \/ Stop \/ ArtifactForeign \/ AbortedBetweenSlices \/ Abort \/ Elapse
           \/ ReuseDecided \/ UNCHANGED vars
  PROVE  Typed'
<1> USE DEF Typed, TypeOK, Shape, vars, signals, resumed, observed, waveVars, sliceVars, counters,
            Phase, Ending
<1>1. CASE AppendFails  BY <1>1 DEF AppendFails, End
<1>2. CASE Stop  BY <1>2 DEF Stop, End
<1>3. CASE ArtifactForeign  BY <1>3 DEF ArtifactForeign, End
<1>4. CASE AbortedBetweenSlices  BY <1>4 DEF AbortedBetweenSlices, End
<1>5. CASE Abort  BY <1>5 DEF Abort
<1>6. CASE Elapse  BY <1>6 DEF Elapse
<1>7. CASE ReuseDecided  BY <1>7, LenProperties DEF ReuseDecided, End
<1>8. CASE UNCHANGED vars  BY <1>8
<1> QED  BY <1>1, <1>2, <1>3, <1>4, <1>5, <1>6, <1>7, <1>8

(* A journal that grows keeps what points into it.                         *)
LEMMA PointersKept ==
  ASSUME Typed, NEW e \in Entry, journal' = Append(journal, e)
  PROVE  /\ journal' \in Seq(Entry)
         /\ trusted \in [Node -> 0 .. Len(journal')]
         /\ Elems(journal') = Elems(journal) \cup {e}
<1>1. /\ journal' \in Seq(Entry) /\ Len(journal') = Len(journal) + 1 /\ Len(journal) \in Nat
      /\ DOMAIN journal = 1 .. Len(journal) /\ DOMAIN journal' = 1 .. Len(journal) + 1
      /\ journal'[Len(journal) + 1] = e
      /\ \A i \in DOMAIN journal : journal'[i] = journal[i]
  BY JournalAppended
<1>2. trusted \in [Node -> 0 .. Len(journal')]  BY <1>1 DEF Typed, TypeOK
<1> QED  BY <1>1, <1>2 DEF Elems

(* Between activations: memory is what replay rebuilds, or blank.          *)
LEMMA TypedRestart ==
  ASSUME Typed, Crash \/ ActivateRefused
  PROVE  Typed'
<1>1. Blank /\ journal' = journal /\ activations' \in 0 .. MaxActivations
      /\ phase' \in {"down", "ended"} /\ ended' \in Ending
  BY RunAssumption DEF Crash, ActivateRefused, End, Ending, Typed, TypeOK, RunAssumption
<1>2. Len(journal) \in Nat  BY LenProperties DEF Typed
<1>3. /\ orphan' \in [Node -> Patch \cup {NoPatch}] /\ trusted' \in [Node -> 0 .. Len(journal')]
      /\ status' \in [Node -> StatusKind] /\ output' \in [Node -> Artifact]
  BY <1>1, <1>2, BlankFunctions DEF Blank
<1>4. /\ applied' \in Seq(Patch) /\ todo' \in Seq(Node) /\ fresh' \in Seq(Node)
      /\ Elems(slice') = {} /\ Elems(settling') = {}
  BY <1>1, NoElems DEF Blank
<1>5. TypeOK'
  BY <1>1, <1>3, <1>4 DEF Blank, TypeOK, Phase, StatusKind, Artifact
<1> QED  BY <1>1, <1>5, NoElems DEF Blank, Typed, Shape

LEMMA TypedOpenHeader == ASSUME Typed, OpenHeader PROVE Typed'
<1>1. Header(minted) \in Entry  BY HeaderTyped DEF Typed, TypeOK, Entry
<1>2. journal' = Append(journal, Header(minted))  BY DEF OpenHeader
<1>3. TypeOK'
  BY <1>1, <1>2, PointersKept
     DEF OpenHeader, Typed, TypeOK, Phase, signals, resumed, observed, waveVars, sliceVars, counters
<1>4. Shape'
  BY <1>1, <1>2 DEF OpenHeader, Typed, Shape, signals, resumed, observed, waveVars, sliceVars, counters
<1> QED  BY <1>1, <1>2, <1>3, <1>4, PointersKept DEF OpenHeader, Typed, sliceVars

LEMMA TypedPlan ==
  ASSUME Typed, TrustedShown, PlanWave \/ RunFresh \/ RefuseReuse \/ Reuse \/ ArtifactMissing
  PROVE  Typed'
<1> USE DEF Typed, TypeOK, Shape, signals, resumed, observed, waveVars, sliceVars, counters, Phase
<1>1. CASE PlanWave
  <2>1. IsFiniteSet(ReadyNow)  BY NodesReady, FS_Subset, TopologyAssumption DEF TopologyAssumption
  <2>2. todo' \in Seq(Node)  BY <1>1, <2>1, NodesReady, ListingTyped DEF PlanWave, Listings
  <2> QED  BY <1>1, <2>2, NoElems DEF PlanWave
<1>2. todo # <<>> => Head(todo) \in Node /\ Tail(todo) \in Seq(Node)
                     /\ Append(fresh, Head(todo)) \in Seq(Node)
  BY HeadTailProperties, AppendProperties
<1>3. CASE RunFresh  BY <1>2, <1>3 DEF RunFresh
<1>4. CASE RefuseReuse
  <2> DEFINE gone == Generations(Head(todo))
  <2>1. Elems(applied) \subseteq Patch  BY ElemsTyped
  <2>2. IsFiniteSet(Elems(applied) \ gone)
    BY <2>1, FS_Subset, TopologyAssumption DEF TopologyAssumption
  <2>3. applied' \in Seq(Patch)
    BY <1>4, <2>1, <2>2, ListingTyped DEF RefuseReuse, Without, Listings
  <2>4. proven' \subseteq Patch /\ retired' \in BOOLEAN  BY <1>4 DEF RefuseReuse
  <2>5. trusted' \in [Node -> 0 .. Len(journal)]  BY <1>4, LenProperties DEF RefuseReuse
  <2>6. todo' \in Seq(Node) /\ fresh' \in Seq(Node) /\ journal' = journal  BY <1>2, <1>4 DEF RefuseReuse
  <2>7. TypeOK'  BY <1>4, <2>3, <2>4, <2>5, <2>6 DEF RefuseReuse
  <2> QED  BY <1>4, <2>7, <2>6 DEF RefuseReuse
<1>5. CASE Reuse
  <2> DEFINE n == Head(todo)
             s == journal[trusted[n]]
  <2>1. n \in Node /\ trusted[n] \in DOMAIN journal /\ trusted[n] \in At(journal, "node_settled")
    BY <1>2, <1>5 DEF Reuse, TrustedShown, At
  <2>2. s \in SettledSet  BY <2>1, EntriesOf
  <2>3. s.status \in StatusKind /\ s.output \in Artifact /\ s.fired \subseteq Edge
    BY <2>2 DEF SettledSet
  <2> HIDE DEF n, s
  <2>4. status' = [status EXCEPT ![n] = s.status] /\ output' = [output EXCEPT ![n] = s.output]
        /\ fired' = fired \cup s.fired
    BY <1>5 DEF Reuse, n, s
  <2>5. status' \in [Node -> StatusKind] /\ output' \in [Node -> Artifact] /\ fired' \subseteq Edge
    BY <2>3, <2>4 DEF StatusKind, Artifact
  <2>6. todo' \in Seq(Node)  BY <1>2, <1>5 DEF Reuse
  <2>7. TypeOK'  BY <1>5, <2>5, <2>6 DEF Reuse, StatusKind, Artifact
  <2> QED  BY <1>5, <2>7 DEF Reuse
<1>6. CASE ArtifactMissing  BY <1>2, <1>6 DEF ArtifactMissing, End, Ending
<1> QED  BY <1>1, <1>3, <1>4, <1>5, <1>6

(* The newest settlement that routes, and the newest id, exist.            *)
LEMMA ReplayTyped ==
  ASSUME Typed, Newest
  PROVE  /\ LastId(journal) \in IdsIn(journal)
         /\ \A b \in IdsIn(journal) : b <= LastId(journal)
         /\ LastId(journal) \in Nat
         /\ \A n \in Node : TrustedIn(journal, n) # 0 =>
              /\ TrustedIn(journal, n) \in At(journal, "node_settled")
              /\ journal[TrustedIn(journal, n)].node = n
         /\ \A n \in Node : TrustedIn(journal, n) \in 0 .. Len(journal)
         /\ AppliedIn(journal) \subseteq Patch /\ OrphansIn(journal) \subseteq Patch
<1>1. /\ LastId(journal) \in IdsIn(journal)
      /\ \A b \in IdsIn(journal) : b <= LastId(journal)
  BY DEF Newest, LastId
<1>2. IdsIn(journal) \subseteq Nat
  BY EntriesOf DEF IdsIn, Typed, At, StartedSet, HeaderSet
<1>3. ASSUME NEW n \in Node, TrustedIn(journal, n) # 0
      PROVE  TrustedIn(journal, n) \in Routed(journal, n)
  BY <1>3 DEF TrustedIn, Routed, Newest
<1>4. \A n : Routed(journal, n) \subseteq At(journal, "node_settled")
             /\ \A i \in Routed(journal, n) : journal[i].node = n
  BY DEF Routed
<1>5. At(journal, "node_settled") \subseteq 1 .. Len(journal)
  BY LenProperties DEF At, Typed
<1>6. PatchesOf(journal) \subseteq Patch
  BY EntriesOf DEF PatchesOf, At, Typed, AdmittedSet
<1>7. \A n \in Node : TrustedIn(journal, n) # 0 =>
        /\ TrustedIn(journal, n) \in At(journal, "node_settled")
        /\ journal[TrustedIn(journal, n)].node = n
  BY <1>3, <1>4
<1>8. \A n \in Node : TrustedIn(journal, n) \in 0 .. Len(journal)
  BY <1>5, <1>7, LenProperties DEF Typed
<1>9. AppliedIn(journal) \subseteq Patch /\ OrphansIn(journal) \subseteq Patch
  BY <1>6 DEF AppliedIn, OrphansIn
<1> QED  BY <1>1, <1>2, <1>7, <1>8, <1>9

LEMMA TypedActivate == ASSUME Typed, Newest, Activate PROVE Typed'
<1> USE DEF Typed, TypeOK
<1>1. activations' \in 0 .. MaxActivations  BY RunAssumption DEF Activate, Listings, RunAssumption
<1>2. minted' \in Nat  BY ReplayTyped DEF Activate, Listings
<1>3. applied' \in Seq(Patch)
  <2>1. IsFiniteSet(AppliedIn(journal))
    BY ReplayTyped, FS_Subset, TopologyAssumption DEF TopologyAssumption
  <2> QED  BY <2>1, ReplayTyped, ListingTyped DEF Activate, Listings
<1>4. proven' \subseteq Patch  BY ReplayTyped DEF Activate, Listings
<1>5. orphan' \in [Node -> Patch \cup {NoPatch}]
  <2>1. orphan' = [n \in Node |->
                  IF \E p \in OrphansIn(journal) : Body[p].by = n
                  THEN CHOOSE p \in OrphansIn(journal) : Body[p].by = n ELSE NoPatch]
    BY DEF Activate, Listings
  <2> QED  BY <2>1, ReplayTyped
<1>6. trusted' \in [Node -> 0 .. Len(journal')]  BY ReplayTyped DEF Activate, Listings
<1>7. status' \in [Node -> StatusKind] /\ output' \in [Node -> Artifact]
  BY BlankFunctions DEF Activate, Listings
<1>8. /\ todo' \in Seq(Node) /\ fresh' \in Seq(Node)
      /\ Elems(slice') = {} /\ Elems(settling') = {}
  BY NoElems DEF Activate, Listings
<1>9. TypeOK'
  BY <1>1, <1>2, <1>3, <1>4, <1>5, <1>6, <1>7, <1>8
     DEF Activate, Listings, Phase, Ending, StatusKind, Artifact
<1> QED
  <2> HIDE DEF TypeOK
  <2>1. slice' = <<>> /\ settling' = <<>> /\ phase' = "open" /\ journal' = journal  BY DEF Activate, Listings
  <2>2. MaxConcurrency \in Nat  BY RunAssumption DEF RunAssumption
  <2>3. Shape'  BY <2>1, <2>2, NoElems DEF Shape
  <2> QED  BY <1>9, <2>1, <2>3, NoElems

LEMMA TypedTakeSlice == ASSUME Typed, TakeSlice PROVE Typed'
<1> DEFINE size == IF Len(fresh) < MaxConcurrency THEN Len(fresh) ELSE MaxConcurrency
<1>1. /\ size \in Nat \ {0} /\ size <= Len(fresh) /\ size <= MaxConcurrency
      /\ fresh \in Seq(Node) /\ Len(fresh) \in Nat /\ minted \in Nat
  BY RunAssumption, LenProperties, EmptySeq DEF RunAssumption, TakeSlice, Typed, TypeOK
<1>2. /\ slice' = [i \in 1 .. size |-> Work(fresh[i], minted + i, InputOf(fresh[i]))]
      /\ minted' = minted + size /\ fresh' = SubSeq(fresh, size + 1, Len(fresh))
  BY DEF TakeSlice
<1> HIDE DEF size
<1>3. ASSUME NEW i \in 1 .. size
      PROVE  Work(fresh[i], minted + i, InputOf(fresh[i])) \in WorkSet
  <2>1. fresh[i] \in Node  BY <1>1, ElementOfSeq
  <2>2. InputOf(fresh[i]) \in Evidence  BY InputTyped
  <2> QED  BY <1>1, <2>1, <2>2, OutcomesTyped DEF Work, WorkSet
<1>4. slice' \in [1 .. size -> WorkSet]  BY <1>2, <1>3
<1>5. slice' \in Seq(WorkSet) /\ Len(slice') = size
  BY <1>1, <1>4, SeqDef, LenProperties
<1>6. fresh' \in Seq(Node)
  <2>1. \A i \in size + 1 .. Len(fresh) : fresh[i] \in Node  BY <1>1, ElementOfSeq
  <2> QED  BY <1>1, <1>2, <2>1, SubSeqProperties
<1>7. \A s \in Elems(slice') : s.node \in Node /\ s.attempt \in Nat
  BY <1>5, ElemsTyped DEF WorkSet
<1>8. minted' \in Nat /\ pos' = 1 /\ phase' = "claim"
  BY <1>1, <1>2 DEF TakeSlice
<1>9. UNCHANGED <<journal, activations, ended, aborted, late, applied, proven, orphan, trusted,
                   status, output, fired, wave, todo, retired, settling, dispatched, expansions>>
  BY DEF TakeSlice, signals, resumed, observed, counters
<1>10. TypeOK'  BY <1>6, <1>7, <1>8, <1>9 DEF Typed, TypeOK, Phase
<1>11. Shape'
  BY <1>1, <1>5, <1>8 DEF Shape
<1> QED  BY <1>5, <1>9, <1>10, <1>11 DEF Typed

LEMMA AtPos ==
  ASSUME Typed, phase \in {"claim", "settle", "verdict"}
  PROVE  /\ pos \in 1 .. Len(slice) /\ Len(slice) \in Nat /\ slice[pos] \in WorkSet
         /\ DOMAIN slice = 1 .. Len(slice)
BY ElementOfSeq, LenProperties DEF Typed, Shape

LEMMA ClaimTyped ==
  ASSUME Typed, phase = "claim"
  PROVE  Started(slice[pos].node, slice[pos].attempt, slice[pos].input, wave) \in StartedSet
BY AtPos DEF Started, StartedSet, WorkSet, Typed, TypeOK

LEMMA TypedClaim == ASSUME Typed, Claim PROVE Typed'
<1> DEFINE e == Started(slice[pos].node, slice[pos].attempt, slice[pos].input, wave)
<1>1. e \in Entry  BY ClaimTyped DEF Claim, Entry
<1>2. journal' = Append(journal, e)  BY DEF Claim
<1> HIDE DEF e
<1>3. TypeOK'
  BY <1>1, <1>2, PointersKept, AtPos
     DEF Claim, Typed, TypeOK, Phase, signals, resumed, observed, waveVars, counters
<1>4. Shape'  BY AtPos DEF Claim, Typed, Shape
<1> QED  BY <1>1, <1>2, <1>3, <1>4, PointersKept DEF Claim, Typed

LEMMA SameInterval ==
  ASSUME NEW m \in Nat, NEW n \in Nat, 1 .. m = 1 .. n PROVE m = n
<1>1. m # 0 => m \in 1 .. n  BY m \in 1 .. m \/ m = 0
<1>2. n # 0 => n \in 1 .. m  BY n \in 1 .. n \/ n = 0
<1> QED  BY <1>1, <1>2

LEMMA NewOutcome ==
  ASSUME Typed, NEW i \in DOMAIN slice, NEW o \in OutcomeSet,
         slice' = [slice EXCEPT ![i].outcome = o]
  PROVE  slice' \in Seq(WorkSet) /\ Len(slice') = Len(slice)
<1>1. i \in 1 .. Len(slice) /\ slice[i] \in WorkSet  BY LenProperties, ElementOfSeq DEF Typed
<1> DEFINE w == [slice[i] EXCEPT !.outcome = o]
<1>2. w \in WorkSet  BY <1>1 DEF WorkSet
<1>3. slice' = [slice EXCEPT ![i] = w]  OBVIOUS
<1>4. slice \in [1 .. Len(slice) -> WorkSet] /\ Len(slice) \in Nat
  BY LenProperties DEF Typed
<1> HIDE DEF w
<1>5. slice' \in [1 .. Len(slice) -> WorkSet]  BY <1>1, <1>2, <1>3, <1>4
<1>6. slice' \in Seq(WorkSet)  BY <1>4, <1>5, SeqDef
<1>7. Len(slice') \in Nat /\ 1 .. Len(slice') = 1 .. Len(slice)
  BY <1>5, <1>6, LenProperties
<1> QED  BY <1>4, <1>6, <1>7, SameInterval

LEMMA TypedRunnerReturns == ASSUME Typed, NEW i, RunnerReturns(i) PROVE Typed'
<1>0. i \in 1 .. Len(slice)  BY LenProperties DEF RunnerReturns, Typed
<1>1. i \in DOMAIN slice /\ slice[i].node \in Node
  <2>1. slice[i] \in WorkSet  BY <1>0, ElementOfSeq DEF Typed
  <2> QED  BY <2>1 DEF RunnerReturns, WorkSet
<1>2. PICK o \in OutcomeSet : slice' = [slice EXCEPT ![i].outcome = o]
  BY <1>1, OutcomesTyped DEF RunnerReturns
<1>3. slice' \in Seq(WorkSet) /\ Len(slice') = Len(slice)  BY <1>1, <1>2, NewOutcome
<1>4. Elems(slice') \subseteq WorkSet  BY <1>3, ElemsTyped
<1>5. TypeOK'
  BY <1>4 DEF RunnerReturns, Typed, TypeOK, Phase, WorkSet, signals, resumed, observed,
              waveVars, counters
<1>6. Len(slice) \in Nat \ {0}
  BY <1>1, LenProperties DEF Typed
<1>7. Shape'  BY <1>3, <1>6, NoElems DEF RunnerReturns, Typed, Shape
<1> QED  BY <1>3, <1>5, <1>7 DEF RunnerReturns, Typed

LEMMA TypedPatchRefused == ASSUME Typed, PatchRefused PROVE Typed'
<1>1. phase = "settle" /\ pos \in DOMAIN slice  BY AtPos DEF PatchRefused
<1>2. Failed("node") \in OutcomeSet  BY OutcomesTyped DEF OutcomeKind, SettlementClass
<1>3. slice' = [slice EXCEPT ![pos].outcome = Failed("node")]  BY DEF PatchRefused, Outcome
<1>4. slice' \in Seq(WorkSet) /\ Len(slice') = Len(slice)  BY <1>1, <1>2, <1>3, NewOutcome
<1>5. Elems(slice') \subseteq WorkSet  BY <1>4, ElemsTyped
<1>6. TypeOK'
  BY <1>5 DEF PatchRefused, Typed, TypeOK, Phase, WorkSet, signals, resumed, observed,
              waveVars, counters
<1>7. Shape'  BY <1>1, <1>4 DEF PatchRefused, Typed, Shape
<1> QED  BY <1>4, <1>6, <1>7 DEF PatchRefused, Typed

LEMMA PatchTyped ==
  ASSUME Typed, AdmitPatch
  PROVE  /\ Emitted \in Patch /\ phase = "settle"
         /\ PatchAdmitted(Emitted, slice[pos].attempt) \in AdmittedSet
<1>1. Emitted \in Patch  BY DEF AdmitPatch, Fitting
<1> QED  BY <1>1, AtPos DEF AdmitPatch, PatchAdmitted, AdmittedSet, WorkSet

LEMMA TypedAdmitPatch == ASSUME Typed, AdmitPatch PROVE Typed'
<1> DEFINE e == PatchAdmitted(Emitted, slice[pos].attempt)
<1>1. e \in Entry /\ Emitted \in Patch  BY PatchTyped DEF Entry
<1>2. journal' = journal \/ journal' = Append(journal, e)  BY DEF AdmitPatch
<1> HIDE DEF e
<1>3. applied' \in Seq(Patch)  BY <1>1, AppendProperties DEF AdmitPatch, Typed, TypeOK
<1>4. orphan' \in [Node -> Patch \cup {NoPatch}]  BY DEF AdmitPatch, Typed, TypeOK
<1>5. expansions' \in Nat  BY DEF AdmitPatch, Typed, TypeOK
<1>6. /\ journal' \in Seq(Entry) /\ trusted \in [Node -> 0 .. Len(journal')]
      /\ Elems(journal) \subseteq Elems(journal')
  BY <1>1, <1>2, PointersKept DEF Typed, TypeOK
<1>7. TypeOK'
  BY <1>3, <1>4, <1>5, <1>6
     DEF AdmitPatch, Typed, TypeOK, Phase, signals, observed, waveVars, sliceVars
<1>8. Shape'  BY DEF AdmitPatch, Typed, Shape, sliceVars
<1> QED  BY <1>6, <1>7, <1>8 DEF AdmitPatch, Typed, sliceVars

(* The entry a settlement appends is of the work at pos.                   *)
LEMMA SettledEntry ==
  ASSUME Typed, Settle
  PROVE  \E e \in SettledSet :
           /\ journal' = Append(journal, e) /\ settling' = Append(settling, e)
           /\ e.attempt = slice[pos].attempt
<1>1. phase \in {"settle", "verdict"}  BY DEF Settle
<1>2. slice[pos] \in WorkSet  BY <1>1, AtPos
<1>3. FinalOutcome \in OutcomeSet
  BY <1>2, OutcomesTyped DEF FinalOutcome, WorkSet, OutcomeKind, SettlementClass
<1>4. ASSUME NEW said PROVE EdgeVerdict(Topo, slice[pos].node, FinalOutcome, said) \subseteq Edge
  BY TopoTyped DEF EdgeVerdict
<1>5. ASSUME NEW edges \in SUBSET Edge
      PROVE  /\ SettledBy(slice[pos], wave, FinalOutcome, edges) \in SettledSet
             /\ SettledBy(slice[pos], wave, FinalOutcome, edges).attempt = slice[pos].attempt
  BY <1>2, <1>3 DEF SettledBy, SettledSet, WorkSet, OutcomeSet, Typed, TypeOK
<1>6. PICK said \in SUBSET Said :
        LET e == SettledBy(slice[pos], wave, FinalOutcome,
                           EdgeVerdict(Topo, slice[pos].node, FinalOutcome, said))
        IN  journal' = Append(journal, e) /\ settling' = Append(settling, e)
  BY DEF Settle
<1> QED  BY <1>4, <1>5, <1>6

LEMMA TypedSettle == ASSUME Typed, Settle PROVE Typed'
<1>1. PICK e \in SettledSet : journal' = Append(journal, e) /\ settling' = Append(settling, e)
  BY SettledEntry
<1>2. phase \in {"settle", "verdict"}  BY DEF Settle
<1>3. pos \in 1 .. Len(slice) /\ Len(slice) \in Nat  BY <1>2, AtPos
<1>4. e \in Entry  BY DEF Entry
<1>5. /\ journal' \in Seq(Entry) /\ trusted \in [Node -> 0 .. Len(journal')]
      /\ Elems(journal') = Elems(journal) \cup {e}
  BY <1>1, <1>4, PointersKept
<1>6. settling' \in Seq(SettledSet) /\ Elems(settling') = Elems(settling) \cup {e}
  <2>1. settling \in Seq(SettledSet)  BY DEF Typed
  <2>2. /\ settling' \in Seq(SettledSet) /\ Len(settling') = Len(settling) + 1
        /\ \A i \in 1 .. Len(settling) : settling'[i] = settling[i]
        /\ settling'[Len(settling) + 1] = e /\ Len(settling) \in Nat
    BY <1>1, <2>1, AppendProperties, LenProperties
  <2>3. DOMAIN settling = 1 .. Len(settling) /\ DOMAIN settling' = 1 .. Len(settling) + 1
    BY <2>1, <2>2, LenProperties
  <2> QED  BY <2>2, <2>3 DEF Elems
<1>7. /\ pos' \in Nat /\ phase' \in {"settle", "slice"} /\ slice' \in Seq(WorkSet)
      /\ phase' = "settle" => slice' = slice /\ pos' \in 1 .. Len(slice)
      /\ phase' = "slice" => slice' = <<>>
  <2>1. IF pos < Len(slice) THEN pos' = pos + 1 /\ phase' = "settle" /\ UNCHANGED slice
                            ELSE pos' = 1 /\ phase' = "slice" /\ slice' = <<>>
    BY DEF Settle
  <2>2. slice \in Seq(WorkSet) /\ <<>> \in Seq(WorkSet)  BY NoElems DEF Typed
  <2>3. CASE pos < Len(slice)  BY <1>3, <2>1, <2>2, <2>3
  <2>4. CASE ~(pos < Len(slice))  BY <2>1, <2>2, <2>4
  <2> QED  BY <2>3, <2>4
<1>8. UNCHANGED <<activations, ended, minted, aborted, late, applied, proven, orphan, trusted,
                   status, output, fired, wave, todo, fresh, retired, dispatched, expansions>>
  BY DEF Settle, signals, resumed, observed, waveVars, counters
<1>9. \A s \in Elems(slice') : s.node \in Node /\ s.attempt \in Nat
  BY <1>7, ElemsTyped DEF WorkSet
<1>10. TypeOK'
  BY <1>5, <1>6, <1>7, <1>8, <1>9 DEF Typed, TypeOK, Phase
<1>11. Len(slice) <= MaxConcurrency  BY <1>2 DEF Typed, Shape
<1>12. MaxConcurrency \in Nat  BY RunAssumption DEF RunAssumption
<1>13. Shape'  BY <1>7, <1>11, <1>12, NoElems DEF Shape
<1> QED  BY <1>5, <1>6, <1>7, <1>10, <1>13 DEF Typed

LEMMA TypedEndWave == ASSUME Typed, EndWave PROVE Typed'
<1> DEFINE of(n) == {s \in Elems(settling) : s.node = n}
<1>1. /\ status' = [n \in Node |-> IF of(n) = {} THEN status[n] ELSE (CHOOSE s \in of(n) : TRUE).status]
      /\ output' = [n \in Node |-> IF of(n) = {} THEN output[n] ELSE (CHOOSE s \in of(n) : TRUE).output]
      /\ fired' = fired \cup UNION {s.fired : s \in Elems(settling)}
  BY DEF EndWave
<1>2. \A s \in Elems(settling) :
        s.status \in StatusKind /\ s.output \in Artifact /\ s.fired \subseteq Edge
  <2>1. Elems(settling) \subseteq SettledSet  BY ElemsTyped DEF Typed
  <2> QED  BY <2>1 DEF SettledSet
<1>3. ASSUME NEW n \in Node, of(n) # {} PROVE (CHOOSE s \in of(n) : TRUE) \in Elems(settling)
  <2>1. (CHOOSE s \in of(n) : TRUE) \in of(n)  BY <1>3
  <2> QED  BY <2>1
<1> HIDE DEF of
<1>4. status' \in [Node -> StatusKind] /\ output' \in [Node -> Artifact] /\ fired' \subseteq Edge
  BY <1>1, <1>2, <1>3 DEF Typed, TypeOK, StatusKind, Artifact
<1>5. dispatched' \in Nat /\ settling' = <<>> /\ Elems(settling') = {}
  BY NoElems, LenProperties DEF EndWave, Typed, TypeOK
<1>6. phase' \in {"plan", "ended"} /\ ended' \in Ending /\ wave' \in Nat
  BY DEF EndWave, End, Ending, Typed, TypeOK
<1>7. UNCHANGED <<journal, activations, minted, aborted, late, applied, proven, orphan, trusted,
                   todo, fresh, retired, slice, pos, expansions>>
  BY DEF EndWave, signals, resumed
<1>8. TypeOK'
  BY <1>4, <1>5, <1>6, <1>7 DEF Typed, TypeOK, Phase, StatusKind, Artifact
<1>9. Shape'  BY <1>5, <1>6, <1>7 DEF EndWave, Typed, Shape
<1> QED  BY <1>5, <1>7, <1>8, <1>9, NoElems DEF Typed

Quiet == AppendFails \/ Stop \/ ArtifactForeign \/ AbortedBetweenSlices \/ Abort \/ Elapse
           \/ ReuseDecided \/ UNCHANGED vars
Plans == PlanWave \/ RunFresh \/ RefuseReuse \/ Reuse \/ ArtifactMissing

LEMMA Steps ==
  ASSUME [NextRun]_vars
  PROVE  \/ Quiet \/ Plans \/ Crash \/ ActivateRefused \/ Activate \/ OpenHeader
         \/ TakeSlice \/ Claim \/ (\E i \in 1 .. MaxConcurrency : RunnerReturns(i))
         \/ PatchRefused \/ AdmitPatch \/ Settle \/ EndWave
BY DEF NextRun, Step, Planning, Working, Quiet, Plans

LEMMA TypedStep == ASSUME Typed, TrustedShown, Newest, [NextRun]_vars PROVE Typed'
<1>1. CASE Quiet  BY <1>1, TypedQuiet DEF Quiet
<1>2. CASE Plans  BY <1>2, TypedPlan DEF Plans
<1>3. CASE \E i \in 1 .. MaxConcurrency : RunnerReturns(i)  BY <1>3, TypedRunnerReturns
<1> QED
  BY <1>1, <1>2, <1>3, Steps, TypedRestart, TypedActivate, TypedOpenHeader, TypedTakeSlice,
     TypedClaim, TypedPatchRefused, TypedAdmitPatch, TypedSettle, TypedEndWave

-----------------------------------------------------------------------------
(* What a step may do to the journal.                                      *)

LEMMA JournalKept ==
  ASSUME Quiet \/ Plans \/ Crash \/ ActivateRefused \/ Activate \/ TakeSlice
           \/ (\E i : RunnerReturns(i)) \/ PatchRefused \/ EndWave
  PROVE  journal' = journal
<1>1. CASE Quiet
  BY <1>1 DEF Quiet, AppendFails, Stop, ArtifactForeign, AbortedBetweenSlices, Abort, Elapse,
              ReuseDecided, vars
<1>2. CASE Plans
  BY <1>2 DEF Plans, PlanWave, Listings, RunFresh, RefuseReuse, Without, Reuse, ArtifactMissing
<1>3. CASE Crash \/ ActivateRefused  BY <1>3 DEF Crash, ActivateRefused
<1>4. CASE Activate  BY <1>4 DEF Activate, Listings
<1>5. CASE TakeSlice \/ PatchRefused \/ EndWave  BY <1>5 DEF TakeSlice, PatchRefused, EndWave
<1>6. CASE \E i : RunnerReturns(i)  BY <1>6 DEF RunnerReturns
<1> QED  BY <1>1, <1>2, <1>3, <1>4, <1>5, <1>6

LEMMA JournalGrows ==
  ASSUME Typed, [NextRun]_vars
  PROVE  \/ journal' = journal
         \/ \E e \in Entry : journal' = Append(journal, e)
<1>1. CASE OpenHeader
  <2>1. Header(minted) \in Entry  BY HeaderTyped DEF Typed, TypeOK, Entry
  <2> QED  BY <1>1, <2>1 DEF OpenHeader
<1>2. CASE Claim
  <2>1. Started(slice[pos].node, slice[pos].attempt, slice[pos].input, wave) \in Entry
    BY <1>2, ClaimTyped DEF Claim, Entry
  <2> QED  BY <1>2, <2>1 DEF Claim
<1>3. CASE AdmitPatch
  <2>1. PatchAdmitted(Emitted, slice[pos].attempt) \in Entry  BY <1>3, PatchTyped DEF Entry
  <2> QED  BY <1>3, <2>1 DEF AdmitPatch
<1>4. CASE Settle  BY <1>4, SettledEntry DEF Entry
<1> QED  BY <1>1, <1>2, <1>3, <1>4, Steps, JournalKept

LEMMA TrustedMoves ==
  ASSUME Typed, [NextRun]_vars, ~Activate
  PROVE  \A n \in Node : trusted'[n] = 0 \/ trusted'[n] = trusted[n]
<1>1. CASE Quiet
  BY <1>1 DEF Quiet, AppendFails, Stop, ArtifactForeign, AbortedBetweenSlices, Abort, Elapse,
              ReuseDecided, vars, resumed
<1>2. CASE RefuseReuse  BY <1>2 DEF RefuseReuse
<1>3. CASE PlanWave \/ RunFresh \/ Reuse \/ ArtifactMissing
  BY <1>3 DEF PlanWave, Listings, RunFresh, Reuse, ArtifactMissing, resumed
<1>4. CASE Crash \/ ActivateRefused  BY <1>4 DEF Crash, ActivateRefused, Blank
<1>5. CASE OpenHeader \/ TakeSlice \/ Claim \/ PatchRefused \/ Settle \/ EndWave
  BY <1>5 DEF OpenHeader, TakeSlice, Claim, PatchRefused, Settle, EndWave, resumed
<1>6. CASE AdmitPatch  BY <1>6 DEF AdmitPatch
<1>7. CASE \E i \in 1 .. MaxConcurrency : RunnerReturns(i)  BY <1>7 DEF RunnerReturns, resumed
<1> QED  BY <1>1, <1>2, <1>3, <1>4, <1>5, <1>6, <1>7, Steps DEF Plans

LEMMA TrustedStep ==
  ASSUME Typed, TrustedShown, Newest, [NextRun]_vars PROVE TrustedShown'
<1>1. CASE Activate
  <2>1. journal' = journal /\ trusted' = [n \in Node |-> TrustedIn(journal, n)]
    BY <1>1 DEF Activate, Listings
  <2> QED  BY <2>1, ReplayTyped DEF TrustedShown
<1>2. CASE ~Activate
  <2>1. \A n \in Node : trusted'[n] = 0 \/ trusted'[n] = trusted[n]  BY <1>2, TrustedMoves
  <2>2. \A i \in At(journal, "node_settled") :
          i \in At(journal', "node_settled") /\ journal'[i] = journal[i]
    <3>1. CASE journal' = journal  BY <3>1
    <3>2. ASSUME NEW e \in Entry, journal' = Append(journal, e)
          PROVE  \A i \in At(journal, "node_settled") :
                   i \in At(journal', "node_settled") /\ journal'[i] = journal[i]
      BY <3>2, JournalAppended DEF At
    <3> QED  BY <3>1, <3>2, JournalGrows
  <2> QED  BY <2>1, <2>2 DEF TrustedShown
<1> QED  BY <1>1, <1>2

LEMMA NewestStep ==
  ASSUME Typed, Newest, [NextRun]_vars PROVE Newest'
<1>1. CASE journal' = journal  BY <1>1 DEF Newest
<1>2. ASSUME NEW e \in Entry, journal' = Append(journal, e) PROVE Newest'
  <2> DEFINE L == Len(journal) + 1
  <2>1. /\ L \notin DOMAIN journal /\ Len(journal) \in Nat /\ journal'[L] = e
        /\ DOMAIN journal = 1 .. Len(journal)
        /\ \A i \in DOMAIN journal : journal'[i] = journal[i]
        /\ \A t : At(journal', t) = IF e.type = t THEN At(journal, t) \cup {L} ELSE At(journal, t)
    BY <1>2, JournalAppended
  <2>2. \A t : At(journal, t) \subseteq DOMAIN journal  BY DEF At
  <2> HIDE DEF L
  <2>3. IdsIn(journal) \subseteq Nat
    BY EntriesOf DEF IdsIn, Typed, At, StartedSet, HeaderSet
  <2>4. IdsIn(journal') = IdsIn(journal)
        \/ \E x \in Nat : IdsIn(journal') = IdsIn(journal) \cup {x}
    <3>1. CASE e.type = "node_started"
      <4>1. e.attempt \in Nat  BY <3>1, EntryKinds DEF StartedSet
      <4>2. /\ At(journal', "node_started") = At(journal, "node_started") \cup {L}
            /\ At(journal', "run_header") = At(journal, "run_header")
        BY <2>1, <3>1
      <4>3. IdsIn(journal') = IdsIn(journal) \cup {e.attempt}
        BY <2>1, <2>2, <4>2 DEF IdsIn
      <4> QED  BY <4>1, <4>3
    <3>2. CASE e.type = "run_header"
      <4>1. e.id \in Nat  BY <3>2, EntryKinds DEF HeaderSet
      <4>2. /\ At(journal', "run_header") = At(journal, "run_header") \cup {L}
            /\ At(journal', "node_started") = At(journal, "node_started")
        BY <2>1, <3>2
      <4>3. IdsIn(journal') = IF FreshIds THEN IdsIn(journal) \cup {e.id} ELSE IdsIn(journal)
        BY <2>1, <2>2, <4>2 DEF IdsIn
      <4> QED  BY <4>1, <4>3
    <3>3. CASE e.type \notin {"node_started", "run_header"}
      <4>1. /\ At(journal', "run_header") = At(journal, "run_header")
            /\ At(journal', "node_started") = At(journal, "node_started")
        BY <2>1, <3>3
      <4> QED  BY <2>1, <2>2, <4>1 DEF IdsIn
    <3> QED  BY <3>1, <3>2, <3>3
  <2>5. \E a \in IdsIn(journal') : \A b \in IdsIn(journal') : b <= a
    <3>1. PICK a \in IdsIn(journal) : \A b \in IdsIn(journal) : b <= a  BY DEF Newest
    <3>2. CASE IdsIn(journal') = IdsIn(journal)  BY <3>1, <3>2
    <3>3. ASSUME NEW x \in Nat, IdsIn(journal') = IdsIn(journal) \cup {x}
          PROVE  \E m \in IdsIn(journal') : \A b \in IdsIn(journal') : b <= m
      <4>1. CASE x <= a  BY <2>3, <3>1, <3>3, <4>1
      <4>2. CASE ~(x <= a)  BY <2>3, <3>1, <3>3, <4>2
      <4> QED  BY <4>1, <4>2
    <3> QED  BY <2>4, <3>2, <3>3
  <2>6. ASSUME NEW n \in Node, Routed(journal', n) # {}
        PROVE  \E i \in Routed(journal', n) : \A k \in Routed(journal', n) : k <= i
    <3>1. Routed(journal, n) \subseteq 1 .. Len(journal)  BY <2>1, <2>2 DEF Routed
    <3>2. /\ Routed(journal', n) \subseteq Routed(journal, n) \cup {L}
          /\ Routed(journal, n) \subseteq Routed(journal', n)
      BY <2>1, <2>2 DEF Routed
    <3>3. CASE L \in Routed(journal', n)
      BY <2>1, <3>1, <3>2, <3>3 DEF L
    <3>4. CASE L \notin Routed(journal', n)
      <4>1. Routed(journal', n) = Routed(journal, n)  BY <3>2, <3>4
      <4> QED  BY <2>6, <4>1 DEF Newest
    <3> QED  BY <3>3, <3>4
  <2> QED  BY <2>5, <2>6 DEF Newest
<1> QED  BY <1>1, <1>2, JournalGrows

LEMMA FirstReplay == InitRun => TrustedShown /\ Newest
<1> SUFFICES ASSUME InitRun PROVE TrustedShown /\ Newest
  OBVIOUS
<1>1. journal = <<>> /\ \A n \in Node : trusted[n] = 0  BY DEF InitRun, Init
<1>2. \A t : At(journal, t) = {}  BY <1>1 DEF At
<1>3. IdsIn(journal) = {0}  BY <1>2, Zenon DEF IdsIn
<1>4. \A n \in Node : Routed(journal, n) = {}  BY <1>2 DEF Routed
<1> QED  BY <1>1, <1>3, <1>4 DEF TrustedShown, Newest

(* Every variable of an activation stays in its domain, its pointers into  *)
(* the journal stay inside it, and the settlements of the wave are durable.*)
THEOREM TypeCorrect == SpecRun => []TypeOK
<1> DEFINE Inv == Typed /\ TrustedShown /\ Newest
<1>1. InitRun => Inv  BY TypedInit, FirstReplay
<1>2. Inv /\ [NextRun]_vars => Inv'  BY TypedStep, TrustedStep, NewestStep
<1>3. Inv => TypeOK  BY DEF Typed
<1> QED  BY <1>1, <1>2, <1>3, PTL DEF SpecRun

-----------------------------------------------------------------------------
(* What is durable stays durable, and what is observed is durable.         *)

LEMMA EntriesKept ==
  ASSUME Typed, [NextRun]_vars
  PROVE  /\ \A i \in DOMAIN journal : i \in DOMAIN journal' /\ journal'[i] = journal[i]
         /\ \A t : \A i \in At(journal, t) : i \in At(journal', t)
<1>1. CASE journal' = journal  BY <1>1
<1>2. ASSUME NEW e \in Entry, journal' = Append(journal, e)
      PROVE  \A i \in DOMAIN journal : i \in DOMAIN journal' /\ journal'[i] = journal[i]
  BY <1>2, JournalAppended
<1>3. \A i \in DOMAIN journal : i \in DOMAIN journal' /\ journal'[i] = journal[i]
  BY <1>1, <1>2, JournalGrows
<1> QED  BY <1>3 DEF At

LEMMA SettlementFires ==
  ASSUME NEW i \in At(journal, "node_settled") PROVE journal[i].fired \subseteq FiredIn(journal)
BY DEF FiredIn

LEMMA ObservedMoves ==
  ASSUME [NextRun]_vars
  PROVE  \/ UNCHANGED observed
         \/ Reuse \/ EndWave
         \/ fired' = {} /\ status' = [n \in Node |-> "none"]
<1>1. CASE Quiet
  BY <1>1 DEF Quiet, AppendFails, Stop, ArtifactForeign, AbortedBetweenSlices, Abort, Elapse,
              ReuseDecided, vars
<1>2. CASE PlanWave \/ RunFresh \/ RefuseReuse \/ ArtifactMissing
  BY <1>2 DEF PlanWave, Listings, RunFresh, RefuseReuse, Without, ArtifactMissing
<1>3. CASE Crash \/ ActivateRefused  BY <1>3 DEF Crash, ActivateRefused, Blank
<1>4. CASE Activate  BY <1>4 DEF Activate, Listings
<1>5. CASE OpenHeader \/ TakeSlice \/ Claim \/ PatchRefused \/ AdmitPatch
  BY <1>5 DEF OpenHeader, TakeSlice, Claim, PatchRefused, AdmitPatch
<1>6. CASE Settle  BY <1>6 DEF Settle
<1>7. CASE \E i \in 1 .. MaxConcurrency : RunnerReturns(i)  BY <1>7 DEF RunnerReturns
<1> QED  BY <1>1, <1>2, <1>3, <1>4, <1>5, <1>6, <1>7, Steps DEF Plans

LEMMA DurableStep ==
  ASSUME Typed, TrustedShown, DurableBeforeObserved, [NextRun]_vars
  PROVE  DurableBeforeObserved'
<1>1. FiredIn(journal) \subseteq FiredIn(journal')
  BY EntriesKept, At(journal, "node_settled") \subseteq DOMAIN journal DEF FiredIn, At
<1>2. CASE fired' = {} /\ status' = [n \in Node |-> "none"]
  BY <1>2 DEF DurableBeforeObserved, Settled
<1>3. \A i \in At(journal, "node_settled") :
        /\ i \in At(journal', "node_settled") /\ journal'[i] = journal[i]
        /\ journal[i].fired \subseteq FiredIn(journal)
  BY EntriesKept, SettlementFires DEF At
<1>4. CASE UNCHANGED observed
  BY <1>1, <1>3, <1>4 DEF DurableBeforeObserved, Settled, observed
<1>5. CASE Reuse
  <2> DEFINE n == Head(todo)
             s == journal[trusted[n]]
  <2>1. n \in Node /\ trusted[n] \in At(journal, "node_settled") /\ s.node = n
    BY <1>5, HeadTailProperties DEF Reuse, TrustedShown, Typed, TypeOK
  <2>2. /\ status' = [status EXCEPT ![n] = s.status]
        /\ output' = [output EXCEPT ![n] = s.output]
        /\ fired' = fired \cup s.fired /\ journal' = journal
    BY <1>5 DEF Reuse
  <2>3. s.fired \subseteq FiredIn(journal)  BY <2>1, SettlementFires
  <2>4. fired' \subseteq FiredIn(journal')  BY <2>2, <2>3 DEF DurableBeforeObserved
  <2>5. ASSUME NEW m \in Node, status'[m] # "none"
        PROVE  \E i \in At(journal, "node_settled") :
                 /\ journal[i].node = m /\ journal[i].status = status'[m]
                 /\ journal[i].output = output'[m] /\ journal[i].fired \subseteq fired'
    <3>1. CASE m = n
      <4>1. status'[n] = s.status /\ output'[n] = s.output
        BY <2>1, <2>2 DEF Typed, TypeOK
      <4> QED  BY <2>1, <2>2, <3>1, <4>1
    <3>2. CASE m # n
      <4>1. status'[m] = status[m] /\ output'[m] = output[m]
        BY <2>2, <3>2 DEF Typed, TypeOK
      <4> QED  BY <2>2, <2>5, <4>1 DEF DurableBeforeObserved, Settled
    <3> QED  BY <3>1, <3>2
  <2> QED  BY <2>2, <2>4, <2>5 DEF DurableBeforeObserved, Settled
<1>6. CASE EndWave
  <2> DEFINE of(n) == {s \in Elems(settling) : s.node = n}
  <2>1. /\ status' = [n \in Node |-> IF of(n) = {} THEN status[n]
                                     ELSE (CHOOSE s \in of(n) : TRUE).status]
        /\ output' = [n \in Node |-> IF of(n) = {} THEN output[n]
                                     ELSE (CHOOSE s \in of(n) : TRUE).output]
        /\ fired' = fired \cup UNION {s.fired : s \in Elems(settling)}
        /\ journal' = journal
    BY <1>6 DEF EndWave
  <2>2. ASSUME NEW s \in Elems(settling)
        PROVE  \E i \in At(journal, "node_settled") : journal[i] = s
    <3>1. s \in SettledSet /\ s \in Elems(journal)  BY ElemsTyped DEF Typed, TypeOK
    <3>2. PICK i \in DOMAIN journal : journal[i] = s  BY <3>1 DEF Elems
    <3> QED  BY <3>1, <3>2 DEF At, SettledSet
  <2>3. \A s \in Elems(settling) : s.fired \subseteq FiredIn(journal)  BY <2>2, SettlementFires
  <2>4. fired' \subseteq FiredIn(journal')  BY <2>1, <2>3 DEF DurableBeforeObserved
  <2>5. ASSUME NEW m \in Node, status'[m] # "none"
        PROVE  \E i \in At(journal, "node_settled") :
                 /\ journal[i].node = m /\ journal[i].status = status'[m]
                 /\ journal[i].output = output'[m] /\ journal[i].fired \subseteq fired'
    <3>1. CASE of(m) = {}
      <4>1. status'[m] = status[m] /\ output'[m] = output[m]  BY <2>1, <3>1
      <4> QED  BY <2>1, <2>5, <4>1 DEF DurableBeforeObserved, Settled
    <3>2. CASE of(m) # {}
      <4> DEFINE s == CHOOSE x \in of(m) : TRUE
      <4>1. s \in of(m)  BY <3>2
      <4>2. s \in Elems(settling) /\ s.node = m  BY <4>1
      <4>3. status'[m] = s.status /\ output'[m] = s.output  BY <2>1, <3>2
      <4> HIDE DEF s, of
      <4>4. s.fired \subseteq fired'  BY <2>1, <4>2
      <4> QED  BY <2>2, <4>2, <4>3, <4>4
    <3> QED  BY <3>1, <3>2
  <2> QED  BY <2>1, <2>4, <2>5 DEF DurableBeforeObserved, Settled
<1> QED  BY <1>2, <1>4, <1>5, <1>6, ObservedMoves

LEMMA DurableFirst == InitRun => DurableBeforeObserved
BY DEF InitRun, DurableBeforeObserved, Settled

(* Whatever crashes, aborts and refused appends do, no node and no edge is *)
(* observed before the settlement that says so is in the journal.          *)
THEOREM DurableBeforeObservedHolds == SpecRun => []DurableBeforeObserved
<1> DEFINE Inv == Typed /\ TrustedShown /\ Newest /\ DurableBeforeObserved
<1>1. InitRun => Inv  BY TypedInit, FirstReplay, DurableFirst
<1>2. Inv /\ [NextRun]_vars => Inv'  BY TypedStep, TrustedStep, NewestStep, DurableStep
<1>3. Inv => DurableBeforeObserved  OBVIOUS
<1> QED  BY <1>1, <1>2, <1>3, PTL DEF SpecRun

-----------------------------------------------------------------------------
(* Attempts and claims.                                                    *)

Live == phase \notin {"down", "ended"}
Settling == phase \in {"settle", "verdict"}

(* The claims of the open segment, and those without a settlement.         *)
Claims(j) == Segment(j) \cap At(j, "node_started")
Unsettled(j) == {i \in Claims(j) : j[i].attempt \notin SettledAttempts(j)}

StartedAttempts(j) == {j[i].attempt : i \in At(j, "node_started")}

(* Ids are handed out in order: the slice holds the newest ones, and the   *)
(* journal none that the slice has yet to use.                             *)
Attempts ==
  /\ SettledAttempts(journal) \subseteq StartedAttempts(journal)
  /\ Live =>
       /\ \A k \in DOMAIN slice : slice[k].attempt = minted - Len(slice) + k
       /\ \A a \in StartedAttempts(journal) :
            a <= IF phase = "claim" THEN minted - Len(slice) + pos - 1 ELSE minted
       /\ \A a \in SettledAttempts(journal) :
            a <= IF Settling THEN minted - Len(slice) + pos - 1 ELSE minted - Len(slice)

ClaimOf(i, s) ==
  /\ journal[i].attempt = s.attempt /\ journal[i].node = s.node /\ journal[i].input = s.input

(* What has been claimed of the slice is claimed in the open segment.      *)
Claimed ==
  phase \in {"claim", "run", "settle", "verdict"} =>
    \A k \in DOMAIN slice : (phase = "claim" => k < pos) =>
      \E i \in Claims(journal) : ClaimOf(i, slice[k])


(* What an append does to the attempts and to the claims of the segment.   *)
LEMMA ClaimsGrow ==
  ASSUME Typed, NEW e \in Entry, journal' = Append(journal, e)
  PROVE  /\ e.type = "run_header" => Claims(journal') = {}
         /\ e.type = "node_started" => Claims(journal') = Claims(journal) \cup {Len(journal) + 1}
         /\ e.type \notin {"run_header", "node_started"} => Claims(journal') = Claims(journal)
<1> DEFINE L == Len(journal) + 1
<1>1. /\ DOMAIN journal' = DOMAIN journal \cup {L} /\ L \notin DOMAIN journal
      /\ \A i \in DOMAIN journal : i < L
      /\ \A t : At(journal', t) = IF e.type = t THEN At(journal, t) \cup {L} ELSE At(journal, t)
  <2>1. /\ Len(journal) \in Nat /\ DOMAIN journal = 1 .. Len(journal)
        /\ DOMAIN journal' = 1 .. Len(journal) + 1
    BY JournalAppended
  <2> QED  BY <2>1, JournalAppended
<1>2. \A t : At(journal, t) \subseteq DOMAIN journal  BY DEF At
<1>3. DOMAIN journal \subseteq Int /\ L \in Int  BY JournalAppended
<1> HIDE DEF L
<1>4. CASE e.type = "run_header"
  <2>1. /\ At(journal', "run_header") = At(journal, "run_header") \cup {L}
        /\ At(journal', "node_started") = At(journal, "node_started")
    BY <1>1, <1>4
  <2>2. Segment(journal') \subseteq {L}  BY <1>1, <1>3, <2>1 DEF Segment
  <2> QED  BY <1>1, <1>2, <1>4, <2>1, <2>2 DEF Claims
<1>5. CASE e.type # "run_header"
  <2>1. At(journal', "run_header") = At(journal, "run_header")  BY <1>1, <1>5
  <2>2. Segment(journal') = Segment(journal) \cup {L}
    BY <1>1, <1>2, <1>3, <2>1 DEF Segment
  <2>3. CASE e.type = "node_started"
    <3>1. At(journal', "node_started") = At(journal, "node_started") \cup {L}  BY <1>1, <2>3
    <3> QED  BY <1>1, <1>2, <2>2, <2>3, <3>1 DEF Claims, Segment, L
  <2>4. CASE e.type # "node_started"
    <3>1. At(journal', "node_started") = At(journal, "node_started")  BY <1>1, <2>4
    <3> QED  BY <1>1, <1>2, <1>5, <2>2, <2>4, <3>1 DEF Claims, Segment
  <2> QED  BY <1>5, <2>3, <2>4
<1> QED  BY <1>4, <1>5

(* The steps after which the slice and the journal are as they were.       *)
Idle == Quiet \/ Plans

LEMMA IdleStep ==
  ASSUME Typed, Idle
  PROVE  /\ UNCHANGED <<journal, slice, pos, minted, dispatched, settling>>
         /\ \/ phase' = phase
            \/ phase' = "ended"
            \/ phase \in {"plan", "reuse"} /\ phase' \in {"plan", "reuse", "slice"}
<1>1. CASE Quiet
  BY <1>1 DEF Quiet, AppendFails, Stop, ArtifactForeign, AbortedBetweenSlices, Abort, Elapse,
              ReuseDecided, End, vars, sliceVars, counters
<1>2. CASE Plans
  BY <1>2 DEF Plans, PlanWave, Listings, RunFresh, RefuseReuse, Without, Reuse, ArtifactMissing,
              End, sliceVars, counters
<1> QED  BY <1>1, <1>2 DEF Idle

LEMMA FirstAttempts == InitRun => Attempts /\ Claimed
<1> SUFFICES ASSUME InitRun PROVE Attempts /\ Claimed
  OBVIOUS
<1>1. \A t : At(journal, t) = {}  BY DEF InitRun, Init, At
<1>2. SettledAttempts(journal) = {}  BY <1>1, Zenon DEF SettledAttempts
<1> QED  BY <1>2 DEF InitRun, Attempts, Claimed, Live

LEMMA AttemptsGrow ==
  ASSUME Typed, NEW e \in Entry, journal' = Append(journal, e)
  PROVE  /\ StartedAttempts(journal') = IF e.type = "node_started"
              THEN StartedAttempts(journal) \cup {e.attempt} ELSE StartedAttempts(journal)
         /\ SettledAttempts(journal') = IF e.type = "node_settled"
              THEN SettledAttempts(journal) \cup {e.attempt} ELSE SettledAttempts(journal)
<1> DEFINE L == Len(journal) + 1
<1>0. /\ journal'[L] = e
      /\ \A i \in DOMAIN journal : journal'[i] = journal[i]
      /\ \A t : At(journal', t) = IF e.type = t THEN At(journal, t) \cup {L} ELSE At(journal, t)
  BY JournalAppended
<1> HIDE DEF L
<1>1. \A t : At(journal, t) \subseteq DOMAIN journal  BY DEF At
<1>2. CASE e.type = "node_started"
  <2>1. /\ At(journal', "node_started") = At(journal, "node_started") \cup {L}
        /\ At(journal', "node_settled") = At(journal, "node_settled")
    BY <1>0, <1>2
  <2>2. StartedAttempts(journal') = StartedAttempts(journal) \cup {e.attempt}
    <3>1. L \in At(journal', "node_started") /\ journal'[L].attempt = e.attempt
      BY <1>0, <2>1
    <3>2. \A i \in At(journal, "node_started") :
            i \in At(journal', "node_started") /\ journal'[i].attempt = journal[i].attempt
      BY <1>0, <1>1, <2>1
    <3>3. e.attempt \in StartedAttempts(journal')  BY <3>1 DEF StartedAttempts
    <3>4. StartedAttempts(journal) \subseteq StartedAttempts(journal')  BY <3>2 DEF StartedAttempts
    <3>5. StartedAttempts(journal') \subseteq StartedAttempts(journal) \cup {e.attempt}
      BY <2>1, <3>1, <3>2 DEF StartedAttempts
    <3> QED  BY <3>3, <3>4, <3>5
  <2>3. SettledAttempts(journal') = SettledAttempts(journal)  BY <1>0, <1>1, <2>1 DEF SettledAttempts
  <2> QED  BY <1>2, <2>2, <2>3
<1>3. CASE e.type = "node_settled"
  <2>1. /\ At(journal', "node_settled") = At(journal, "node_settled") \cup {L}
        /\ At(journal', "node_started") = At(journal, "node_started")
    BY <1>0, <1>3
  <2>2. SettledAttempts(journal') = SettledAttempts(journal) \cup {e.attempt}
    <3>1. L \in At(journal', "node_settled") /\ journal'[L].attempt = e.attempt
      BY <1>0, <2>1
    <3>2. \A i \in At(journal, "node_settled") :
            i \in At(journal', "node_settled") /\ journal'[i].attempt = journal[i].attempt
      BY <1>0, <1>1, <2>1
    <3>3. e.attempt \in SettledAttempts(journal')  BY <3>1 DEF SettledAttempts
    <3>4. SettledAttempts(journal) \subseteq SettledAttempts(journal')  BY <3>2 DEF SettledAttempts
    <3>5. SettledAttempts(journal') \subseteq SettledAttempts(journal) \cup {e.attempt}
      BY <2>1, <3>1, <3>2 DEF SettledAttempts
    <3> QED  BY <3>3, <3>4, <3>5
  <2>3. StartedAttempts(journal') = StartedAttempts(journal)  BY <1>0, <1>1, <2>1 DEF StartedAttempts
  <2> QED  BY <1>3, <2>2, <2>3
<1>4. CASE e.type \notin {"node_started", "node_settled"}
  <2>1. /\ At(journal', "node_settled") = At(journal, "node_settled")
        /\ At(journal', "node_started") = At(journal, "node_started")
    BY <1>0, <1>4
  <2>2. SettledAttempts(journal') = SettledAttempts(journal)  BY <1>0, <1>1, <2>1 DEF SettledAttempts
  <2>3. StartedAttempts(journal') = StartedAttempts(journal)  BY <1>0, <1>1, <2>1 DEF StartedAttempts
  <2> QED  BY <1>4, <2>2, <2>3
<1> QED  BY <1>2, <1>3, <1>4

LEMMA AttemptsTyped ==
  ASSUME Typed
  PROVE  /\ StartedAttempts(journal) \subseteq Nat /\ SettledAttempts(journal) \subseteq Nat
         /\ StartedAttempts(journal) \subseteq IdsIn(journal)
<1>1. \A i \in At(journal, "node_started") : journal[i].attempt \in Nat
  BY EntriesOf DEF At, Typed, StartedSet
<1>2. \A i \in At(journal, "node_settled") : journal[i].attempt \in Nat
  BY EntriesOf DEF At, Typed, SettledSet
<1> QED  BY <1>1, <1>2 DEF StartedAttempts, SettledAttempts, IdsIn

LEMMA SliceTaken ==
  ASSUME Typed, TakeSlice
  PROVE  /\ Len(slice') \in Nat \ {0} /\ DOMAIN slice' = 1 .. Len(slice')
         /\ Len(fresh) \in Nat /\ Len(fresh') = Len(fresh) - Len(slice')
         /\ minted' = minted + Len(slice')
         /\ \A k \in DOMAIN slice' : slice'[k].attempt = minted + k
<1> DEFINE size == IF Len(fresh) < MaxConcurrency THEN Len(fresh) ELSE MaxConcurrency
<1>1. /\ size \in Nat \ {0} /\ size <= Len(fresh) /\ fresh \in Seq(Node) /\ Len(fresh) \in Nat
  BY RunAssumption, LenProperties, EmptySeq DEF RunAssumption, TakeSlice, Typed, TypeOK
<1>2. /\ slice' = [i \in 1 .. size |-> Work(fresh[i], minted + i, InputOf(fresh[i]))]
      /\ minted' = minted + size /\ fresh' = SubSeq(fresh, size + 1, Len(fresh))
  BY DEF TakeSlice
<1> HIDE DEF size
<1>3. slice' \in Seq(WorkSet)  BY TypedTakeSlice DEF Typed
<1>4. DOMAIN slice' = 1 .. size /\ \A k \in 1 .. size : slice'[k].attempt = minted + k
  BY <1>2 DEF Work
<1>5. Len(slice') = size  BY <1>1, <1>3, <1>4, LenProperties, SameInterval
<1>6. Len(fresh') = Len(fresh) - size
  <2>1. \A i \in size + 1 .. Len(fresh) : fresh[i] \in Node  BY <1>1, ElementOfSeq
  <2> QED  BY <1>1, <1>2, <2>1, SubSeqProperties
<1> QED  BY <1>1, <1>2, <1>4, <1>5, <1>6

(* A new outcome leaves the rest of the slice as it is.                    *)
LEMMA SameWork ==
  ASSUME Typed, (\E i \in 1 .. MaxConcurrency : RunnerReturns(i)) \/ PatchRefused
  PROVE  /\ Len(slice') = Len(slice) /\ DOMAIN slice' = DOMAIN slice
         /\ \A k \in DOMAIN slice : /\ slice'[k].attempt = slice[k].attempt
                                    /\ slice'[k].node = slice[k].node
                                    /\ slice'[k].input = slice[k].input
<1>1. \E i \in DOMAIN slice : \E o \in OutcomeSet : slice' = [slice EXCEPT ![i].outcome = o]
  <2>1. CASE PatchRefused
    BY <2>1, AtPos, OutcomesTyped DEF PatchRefused, Outcome, OutcomeKind, SettlementClass
  <2>2. ASSUME NEW i \in 1 .. MaxConcurrency, RunnerReturns(i)
        PROVE  \E o \in OutcomeSet : slice' = [slice EXCEPT ![i].outcome = o]
    <3>1. i \in 1 .. Len(slice)  BY <2>2, LenProperties DEF RunnerReturns, Typed
    <3>2. slice[i] \in WorkSet  BY <3>1, ElementOfSeq DEF Typed
    <3> QED  BY <2>2, <3>2, OutcomesTyped DEF RunnerReturns, WorkSet
  <2> QED  BY <2>1, <2>2 DEF RunnerReturns
<1>2. PICK i \in DOMAIN slice, o \in OutcomeSet : slice' = [slice EXCEPT ![i].outcome = o]
  BY <1>1
<1>3. Len(slice') = Len(slice)  BY <1>2, NewOutcome
<1>4. \A k \in DOMAIN slice : slice[k] \in WorkSet  BY DEF Typed
<1> QED  BY <1>2, <1>3, <1>4 DEF WorkSet

LEMMA AttemptsStep ==
  ASSUME Typed, Newest, Attempts, Claimed, [NextRun]_vars
  PROVE  Attempts'
<1> USE AttemptsTyped
<1>0. /\ minted \in Nat /\ pos \in Nat /\ Len(slice) \in Nat /\ DOMAIN slice = 1 .. Len(slice)
  BY LenProperties DEF Typed, TypeOK
<1>1. CASE Idle
  <2>1. Live' => Live  BY <1>1, IdleStep DEF Live
  <2>2. Settling' <=> Settling /\ Live'  BY <1>1, IdleStep DEF Live, Settling
  <2>3. phase' = "claim" => phase = "claim"  BY <1>1, IdleStep
  <2>4. Live' /\ phase = "claim" => phase' = "claim"  BY <1>1, IdleStep DEF Live
  <2> QED  BY <1>1, <2>1, <2>2, <2>3, <2>4, IdleStep DEF Attempts
<1>2. CASE Crash \/ ActivateRefused
  <2>1. journal' = journal /\ phase' \in {"down", "ended"}
    BY <1>2 DEF Crash, ActivateRefused, End
  <2> QED  BY <2>1 DEF Attempts, Live
<1>3. CASE Activate
  <2>1. /\ journal' = journal /\ phase' = "open" /\ slice' = <<>> /\ minted' = LastId(journal) + 1
    BY <1>3 DEF Activate, Listings
  <2>2. LastId(journal) \in Nat /\ \A b \in IdsIn(journal) : b <= LastId(journal)
    BY ReplayTyped
  <2>3. \A a \in StartedAttempts(journal) : a <= minted'  BY <2>1, <2>2
  <2>4. Len(slice') = 0 /\ DOMAIN slice' = {} /\ minted' - 0 = minted'  BY <2>1, <2>2, NoElems
  <2> QED  BY <2>1, <2>3, <2>4 DEF Attempts, Settling
<1>4. CASE OpenHeader
  <2>1. Header(minted) \in Entry /\ Header(minted).type = "run_header"
    BY HeaderTyped DEF Typed, TypeOK, Entry, Header
  <2>2. /\ journal' = Append(journal, Header(minted)) /\ phase = "open" /\ phase' = "plan"
        /\ UNCHANGED <<slice, minted>>
    BY <1>4 DEF OpenHeader, sliceVars
  <2>3. /\ StartedAttempts(journal') = StartedAttempts(journal)
        /\ SettledAttempts(journal') = SettledAttempts(journal)
    BY <2>1, <2>2, AttemptsGrow
  <2> QED  BY <2>2, <2>3 DEF Attempts, Live, Settling
<1>5. CASE TakeSlice
  <2>1. /\ journal' = journal /\ phase = "slice" /\ phase' = "claim" /\ pos' = 1 /\ slice = <<>>
    BY <1>5 DEF TakeSlice, Typed, Shape
  <2>2. minted' - Len(slice') = minted  BY <1>0, <1>5, SliceTaken
  <2> QED  BY <1>0, <1>5, <2>1, <2>2, SliceTaken, NoElems DEF Attempts, Live, Settling
<1>6. CASE Claim
  <2> DEFINE e == Started(slice[pos].node, slice[pos].attempt, slice[pos].input, wave)
  <2>1. e \in Entry /\ e.type = "node_started" /\ e.attempt = slice[pos].attempt
    BY <1>6, ClaimTyped DEF Claim, Entry, Started
  <2>2. /\ journal' = Append(journal, e) /\ phase = "claim" /\ UNCHANGED <<slice, minted>>
        /\ IF pos < Len(slice) THEN pos' = pos + 1 /\ phase' = phase
                               ELSE pos' = 1 /\ phase' = "run"
    BY <1>6 DEF Claim
  <2> HIDE DEF e
  <2>3. /\ StartedAttempts(journal') = StartedAttempts(journal) \cup {slice[pos].attempt}
        /\ SettledAttempts(journal') = SettledAttempts(journal)
    BY <2>1, <2>2, AttemptsGrow
  <2>4. pos \in 1 .. Len(slice)  BY <2>2, AtPos
  <2>5. slice[pos].attempt = minted - Len(slice) + pos
    BY <1>0, <2>2, <2>4 DEF Attempts, Live
  <2>6. \A a \in StartedAttempts(journal) : a <= minted - Len(slice) + pos - 1
    BY <2>2 DEF Attempts, Live
  <2>7. CASE pos < Len(slice)
    <3>1. \A a \in StartedAttempts(journal') : a <= minted - Len(slice) + (pos + 1) - 1
      BY <1>0, <2>3, <2>5, <2>6
    <3> QED  BY <2>2, <2>3, <2>7, <3>1 DEF Attempts, Live, Settling
  <2>8. CASE ~(pos < Len(slice))
    <3>1. \A a \in StartedAttempts(journal') : a <= minted
      BY <1>0, <2>3, <2>4, <2>5, <2>6
    <3> QED  BY <2>2, <2>3, <2>8, <3>1 DEF Attempts, Live, Settling
  <2> QED  BY <2>7, <2>8
<1>7. CASE \E i \in 1 .. MaxConcurrency : RunnerReturns(i)
  <2>1. /\ journal' = journal /\ phase = "run" /\ phase' \in {"run", "settle"}
        /\ UNCHANGED <<minted, pos>>
    BY <1>7 DEF RunnerReturns
  <2>2. pos = 1  BY <2>1 DEF Typed, Shape
  <2> QED  BY <1>0, <1>7, <2>1, <2>2, SameWork DEF Attempts, Live, Settling
<1>8. CASE PatchRefused
  <2>1. /\ journal' = journal /\ phase = "settle" /\ phase' = "verdict" /\ UNCHANGED <<minted, pos>>
    BY <1>8 DEF PatchRefused
  <2> QED  BY <1>8, <2>1, SameWork DEF Attempts, Live, Settling
<1>9. CASE AdmitPatch
  <2> DEFINE e == PatchAdmitted(Emitted, slice[pos].attempt)
  <2>1. e \in Entry /\ e.type = "patch_admitted"
    BY <1>9, PatchTyped DEF Entry, PatchAdmitted
  <2>2. /\ journal' = journal \/ journal' = Append(journal, e)
        /\ phase = "settle" /\ phase' = "verdict" /\ UNCHANGED <<slice, minted, pos>>
    BY <1>9 DEF AdmitPatch, sliceVars
  <2> HIDE DEF e
  <2>3. /\ StartedAttempts(journal') = StartedAttempts(journal)
        /\ SettledAttempts(journal') = SettledAttempts(journal)
    BY <2>1, <2>2, AttemptsGrow
  <2> QED  BY <2>2, <2>3 DEF Attempts, Live, Settling
<1>10. CASE Settle
  <2>1. PICK e \in SettledSet : journal' = Append(journal, e) /\ e.attempt = slice[pos].attempt
    BY <1>10, SettledEntry
  <2>2. e \in Entry /\ e.type = "node_settled"  BY DEF Entry, SettledSet
  <2>3. /\ StartedAttempts(journal') = StartedAttempts(journal)
        /\ SettledAttempts(journal') = SettledAttempts(journal) \cup {slice[pos].attempt}
    BY <2>1, <2>2, AttemptsGrow
  <2>4. phase \in {"settle", "verdict"}  BY <1>10 DEF Settle
  <2>5. pos \in 1 .. Len(slice)  BY <2>4, AtPos
  <2>6. /\ slice[pos].attempt = minted - Len(slice) + pos
        /\ \A a \in StartedAttempts(journal) : a <= minted
        /\ \A a \in SettledAttempts(journal) : a <= minted - Len(slice) + pos - 1
    BY <1>0, <2>4, <2>5 DEF Attempts, Live, Settling
  <2>7. slice[pos].attempt \in StartedAttempts(journal)
    <3>1. PICK i \in Claims(journal) : journal[i].attempt = slice[pos].attempt
      BY <1>0, <2>4, <2>5 DEF Claimed, ClaimOf
    <3> QED  BY <3>1 DEF Claims, StartedAttempts
  <2>8. SettledAttempts(journal') \subseteq StartedAttempts(journal')
    BY <2>3, <2>7 DEF Attempts
  <2>9. IF pos < Len(slice) THEN pos' = pos + 1 /\ phase' = "settle" /\ UNCHANGED slice
                            ELSE pos' = 1 /\ phase' = "slice" /\ slice' = <<>>
    BY <1>10 DEF Settle
  <2>10. minted' = minted  BY <1>10 DEF Settle
  <2>11. CASE pos < Len(slice)
    <3>1. \A a \in SettledAttempts(journal') : a <= minted - Len(slice) + (pos + 1) - 1
      BY <1>0, <2>3, <2>6
    <3> QED
      BY <2>3, <2>4, <2>6, <2>8, <2>9, <2>10, <2>11, <3>1 DEF Attempts, Live, Settling
  <2>12. CASE ~(pos < Len(slice))
    <3>1. \A a \in SettledAttempts(journal') : a <= minted  BY <1>0, <2>3, <2>5, <2>6
    <3>2. Len(slice') = 0 /\ DOMAIN slice' = {} /\ minted - 0 = minted
      BY <1>0, <2>9, <2>12, NoElems
    <3> QED
      BY <2>3, <2>6, <2>8, <2>9, <2>10, <2>12, <3>1, <3>2 DEF Attempts, Settling
  <2> QED  BY <2>11, <2>12
<1>11. CASE EndWave
  <2>1. /\ phase = "slice" /\ phase' \in {"plan", "ended"} /\ UNCHANGED <<journal, slice, minted>>
    BY <1>11 DEF EndWave, End
  <2> QED  BY <2>1 DEF Attempts, Live, Settling
<1> QED
  BY <1>1, <1>2, <1>3, <1>4, <1>5, <1>6, <1>7, <1>8, <1>9, <1>10, <1>11, Steps DEF Idle

LEMMA ClaimsKept ==
  ASSUME Typed, [NextRun]_vars, ~OpenHeader
  PROVE  \A i \in Claims(journal) : i \in Claims(journal') /\ journal'[i] = journal[i]
<1>1. \A i \in Claims(journal) : journal'[i] = journal[i]
  BY EntriesKept DEF Claims, Segment
<1>2. CASE journal' = journal  BY <1>2
<1>3. ASSUME NEW e \in Entry, journal' = Append(journal, e), e.type # "run_header"
      PROVE  Claims(journal) \subseteq Claims(journal')
  BY <1>3, ClaimsGrow
<1>4. CASE Claim \/ AdmitPatch \/ Settle
  <2>1. \E e \in Entry : (journal' = journal \/ journal' = Append(journal, e)) /\ e.type # "run_header"
    <3>1. CASE Claim
      BY <3>1, ClaimTyped DEF Claim, Entry, StartedSet
    <3>2. CASE AdmitPatch  BY <3>2, PatchTyped DEF AdmitPatch, Entry, AdmittedSet
    <3>3. CASE Settle  BY <3>3, SettledEntry DEF Entry, SettledSet
    <3> QED  BY <1>4, <3>1, <3>2, <3>3
  <2> QED  BY <1>1, <1>3, <2>1
<1> QED  BY <1>1, <1>2, <1>4, Steps, JournalKept

LEMMA ClaimedStep ==
  ASSUME Typed, Claimed, [NextRun]_vars
  PROVE  Claimed'
<1>0. /\ pos \in Nat /\ Len(slice) \in Nat /\ DOMAIN slice = 1 .. Len(slice)
  BY LenProperties DEF Typed, TypeOK
<1>1. CASE Idle
  <2>1. phase' \in {"claim", "run", "settle", "verdict"} => phase' = phase  BY <1>1, IdleStep
  <2> QED  BY <1>1, <2>1, IdleStep DEF Claimed, ClaimOf, Claims
<1>2. CASE phase' \notin {"claim", "run", "settle", "verdict"}  BY <1>2 DEF Claimed
<1>3. CASE Crash \/ ActivateRefused \/ Activate \/ OpenHeader \/ EndWave
  BY <1>2, <1>3 DEF Crash, ActivateRefused, Activate, Listings, OpenHeader, EndWave, End
<1>4. CASE TakeSlice
  <2>1. pos' = 1 /\ phase' = "claim"  BY <1>4 DEF TakeSlice
  <2> QED  BY <1>4, <2>1, SliceTaken DEF Claimed
<1>5. CASE Claim
  <2> DEFINE e == Started(slice[pos].node, slice[pos].attempt, slice[pos].input, wave)
             L == Len(journal) + 1
  <2>1. /\ e \in Entry /\ e.type = "node_started" /\ e.attempt = slice[pos].attempt
        /\ e.node = slice[pos].node /\ e.input = slice[pos].input
    BY <1>5, ClaimTyped DEF Claim, Entry, Started
  <2>2. /\ journal' = Append(journal, e) /\ phase = "claim" /\ UNCHANGED slice
        /\ IF pos < Len(slice) THEN pos' = pos + 1 /\ phase' = phase
                               ELSE pos' = 1 /\ phase' = "run"
    BY <1>5 DEF Claim
  <2> HIDE DEF e
  <2>3. /\ L \in Claims(journal') /\ journal'[L] = e
    BY <2>1, <2>2, ClaimsGrow, JournalAppended
  <2>4. ~OpenHeader  BY <2>2 DEF OpenHeader
  <2>5. \A i \in Claims(journal) : i \in Claims(journal') /\ journal'[i] = journal[i]
    BY <2>4, ClaimsKept
  <2> HIDE DEF L
  <2>6. ASSUME NEW k \in DOMAIN slice, k <= pos
        PROVE  \E i \in Claims(journal') :
                 /\ journal'[i].attempt = slice[k].attempt /\ journal'[i].node = slice[k].node
                 /\ journal'[i].input = slice[k].input
    <3>1. CASE k = pos  BY <2>1, <2>3, <3>1
    <3>2. CASE k # pos
      <4>1. k < pos  BY <1>0, <2>6, <3>2
      <4>2. PICK i \in Claims(journal) : ClaimOf(i, slice[k])
        BY <2>2, <4>1 DEF Claimed
      <4> QED  BY <2>5, <4>2 DEF ClaimOf
    <3> QED  BY <3>1, <3>2
  <2>7. \A k \in DOMAIN slice : (phase' = "claim" => k < pos') => k <= pos
    <3>1. pos \in 1 .. Len(slice)  BY <2>2, AtPos
    <3> QED  BY <1>0, <2>2, <3>1
  <2> QED  BY <2>2, <2>6, <2>7 DEF Claimed, ClaimOf
<1>6. CASE (\E i \in 1 .. MaxConcurrency : RunnerReturns(i)) \/ PatchRefused
  <2>1. /\ phase \in {"run", "settle"} /\ phase' \in {"run", "settle", "verdict"}
        /\ journal' = journal
    BY <1>6 DEF RunnerReturns, PatchRefused
  <2>2. \A k \in DOMAIN slice : \E i \in Claims(journal) : ClaimOf(i, slice[k])
    BY <2>1 DEF Claimed
  <2> QED  BY <1>6, <2>1, <2>2, SameWork DEF Claimed, ClaimOf
<1>7. CASE AdmitPatch \/ Settle
  <2>1. /\ phase \in {"settle", "verdict"} /\ phase' \in {"settle", "verdict", "slice"}
        /\ phase' # "slice" => slice' = slice
    BY <1>7 DEF AdmitPatch, Settle, sliceVars
  <2>2. \A i \in Claims(journal) : i \in Claims(journal') /\ journal'[i] = journal[i]
    BY <2>1, ClaimsKept DEF OpenHeader
  <2>3. \A k \in DOMAIN slice : \E i \in Claims(journal) : ClaimOf(i, slice[k])
    BY <2>1 DEF Claimed
  <2>4. \A k \in DOMAIN slice : \E i \in Claims(journal') :
          /\ journal'[i].attempt = slice[k].attempt /\ journal'[i].node = slice[k].node
          /\ journal'[i].input = slice[k].input
    BY <2>2, <2>3 DEF ClaimOf
  <2> QED  BY <2>1, <2>4 DEF Claimed, ClaimOf
<1> QED  BY <1>1, <1>3, <1>4, <1>5, <1>6, <1>7, Steps DEF Idle

LEMMA ClaimsHold ==
  ASSUME Typed, Attempts, Claimed PROVE ClaimBeforeDispatch
<1> SUFFICES ASSUME phase \in {"run", "settle", "verdict"}, NEW k \in DOMAIN slice
             PROVE  /\ \E i \in StartsOf(journal, slice[k].attempt) :
                         journal[i].node = slice[k].node /\ journal[i].input = slice[k].input
                    /\ k >= pos => slice[k].attempt \notin SettledAttempts(journal)
  BY DEF ClaimBeforeDispatch
<1>1. /\ pos \in Nat /\ Len(slice) \in Nat /\ DOMAIN slice = 1 .. Len(slice) /\ minted \in Nat
  BY LenProperties DEF Typed, TypeOK
<1>2. PICK i \in Claims(journal) : ClaimOf(i, slice[k])  BY DEF Claimed
<1>3. i \in StartsOf(journal, slice[k].attempt)  BY <1>2 DEF ClaimOf, Claims, StartsOf
<1>4. slice[k].attempt = minted - Len(slice) + k  BY DEF Attempts, Live
<1>5. \A a \in SettledAttempts(journal) : a <= minted - Len(slice) + pos - 1
  <2>1. phase = "run" => pos = 1  BY DEF Typed, Shape
  <2> QED  BY <1>1, <2>1, AttemptsTyped DEF Attempts, Live, Settling
<1>6. k >= pos => slice[k].attempt \notin SettledAttempts(journal)
  BY <1>1, <1>4, <1>5
<1> QED  BY <1>2, <1>3, <1>6 DEF ClaimOf

(* No runner works without a durable claim of its node, input and attempt, *)
(* and none works under an attempt that has already settled.               *)
THEOREM ClaimBeforeDispatchHolds == SpecRun => []ClaimBeforeDispatch
<1> DEFINE Inv == Typed /\ TrustedShown /\ Newest /\ Attempts /\ Claimed
<1>1. InitRun => Inv  BY TypedInit, FirstReplay, FirstAttempts
<1>2. Inv /\ [NextRun]_vars => Inv'
  BY TypedStep, TrustedStep, NewestStep, AttemptsStep, ClaimedStep
<1>3. Inv => ClaimBeforeDispatch  BY ClaimsHold
<1> QED  BY <1>1, <1>2, <1>3, PTL DEF SpecRun

-----------------------------------------------------------------------------
(* The budget.                                                             *)

(* Work of the slice that has not settled; that which is claimed as well.  *)
Unfinished == IF Settling THEN Len(slice) - pos + 1 ELSE Len(slice)
Held == IF phase = "claim" THEN pos - 1 ELSE Unfinished

(* The claims of the open segment are within the budget of the activation. *)
Counted ==
  /\ phase = "open" => dispatched = 0
  /\ phase \in {"plan", "reuse"} => dispatched <= MaxNodes
  /\ phase \in {"slice", "claim", "run", "settle", "verdict"} =>
       dispatched + Len(settling) + Unfinished + Len(fresh) <= MaxNodes
  /\ Live /\ phase # "open" =>
       /\ Cardinality(Claims(journal)) <= dispatched + Len(settling) + Held
       /\ Cardinality(Unsettled(journal)) <= Held

Bounded ==
  /\ Cardinality(Claims(journal)) <= MaxNodes
  /\ Cardinality(Unsettled(journal)) <= MaxConcurrency

LEMMA ClaimsFinite ==
  ASSUME Typed
  PROVE  /\ IsFiniteSet(Claims(journal)) /\ Cardinality(Claims(journal)) \in Nat
         /\ IsFiniteSet(Unsettled(journal)) /\ Cardinality(Unsettled(journal)) \in Nat
<1>1. /\ Claims(journal) \subseteq 1 .. Len(journal) /\ Unsettled(journal) \subseteq Claims(journal)
      /\ Len(journal) \in Nat
  BY LenProperties DEF Typed, Claims, Segment, Unsettled
<1>2. IsFiniteSet(1 .. Len(journal))  BY <1>1, FS_Interval, 1 \in Int
<1> QED  BY <1>1, <1>2, FS_Subset, FS_CardinalityType

LEMMA OneMore ==
  ASSUME NEW S, IsFiniteSet(S), NEW x
  PROVE  /\ IsFiniteSet(S \cup {x}) /\ Cardinality(S \cup {x}) \in Nat
         /\ Cardinality(S \cup {x}) <= Cardinality(S) + 1
<1>1. Cardinality(S) \in Nat  BY FS_CardinalityType
<1> QED  BY <1>1, FS_AddElement, FS_CardinalityType

LEMMA ClaimCounted ==
  ASSUME Typed, NEW e \in Entry, journal' = Append(journal, e), e.type = "node_started"
  PROVE  /\ Cardinality(Claims(journal')) \in Nat /\ Cardinality(Unsettled(journal')) \in Nat
         /\ Cardinality(Claims(journal')) <= Cardinality(Claims(journal)) + 1
         /\ Cardinality(Unsettled(journal')) <= Cardinality(Unsettled(journal)) + 1
<1> DEFINE L == Len(journal) + 1
<1>1. Claims(journal') = Claims(journal) \cup {L}  BY ClaimsGrow
<1>2. SettledAttempts(journal') = SettledAttempts(journal)  BY AttemptsGrow
<1>3. \A i \in Claims(journal) : journal'[i] = journal[i]
  BY JournalAppended DEF Claims, Segment
<1> HIDE DEF L
<1>4. Unsettled(journal') \subseteq Unsettled(journal) \cup {L}
  BY <1>1, <1>2, <1>3 DEF Unsettled
<1>5. /\ IsFiniteSet(Claims(journal) \cup {L}) /\ IsFiniteSet(Unsettled(journal) \cup {L})
      /\ Cardinality(Claims(journal) \cup {L}) <= Cardinality(Claims(journal)) + 1
      /\ Cardinality(Unsettled(journal) \cup {L}) <= Cardinality(Unsettled(journal)) + 1
  BY ClaimsFinite, OneMore
<1>6. Cardinality(Unsettled(journal')) <= Cardinality(Unsettled(journal) \cup {L})
      /\ Cardinality(Unsettled(journal')) \in Nat /\ Cardinality(Unsettled(journal) \cup {L}) \in Nat
  BY <1>4, <1>5, FS_Subset, FS_CardinalityType
<1> QED  BY <1>1, <1>5, <1>6, ClaimsFinite, FS_CardinalityType

LEMMA SettlementCounted ==
  ASSUME Typed, NEW e \in Entry, journal' = Append(journal, e), e.type = "node_settled",
         NEW i \in Unsettled(journal), journal[i].attempt = e.attempt
  PROVE  /\ Claims(journal') = Claims(journal)
         /\ Cardinality(Unsettled(journal')) \in Nat
         /\ Cardinality(Unsettled(journal')) <= Cardinality(Unsettled(journal)) - 1
<1>1. Claims(journal') = Claims(journal)  BY ClaimsGrow
<1>2. SettledAttempts(journal') = SettledAttempts(journal) \cup {e.attempt}  BY AttemptsGrow
<1>3. \A k \in Claims(journal) : journal'[k] = journal[k]
  BY JournalAppended DEF Claims, Segment
<1>4. Unsettled(journal') \subseteq Unsettled(journal) \ {i}
  BY <1>1, <1>2, <1>3 DEF Unsettled
<1>5. /\ IsFiniteSet(Unsettled(journal) \ {i})
      /\ Cardinality(Unsettled(journal) \ {i}) = Cardinality(Unsettled(journal)) - 1
  BY ClaimsFinite, FS_RemoveElement
<1>6. /\ Cardinality(Unsettled(journal')) <= Cardinality(Unsettled(journal) \ {i})
      /\ Cardinality(Unsettled(journal')) \in Nat
  BY <1>4, <1>5, FS_Subset, FS_CardinalityType
<1> QED  BY <1>1, <1>5, <1>6

(* Entries that are neither claims nor settlements leave the counts alone. *)
LEMMA CountsKept ==
  ASSUME Typed, NEW e \in Entry, journal' = Append(journal, e), e.type = "patch_admitted"
  PROVE  Claims(journal') = Claims(journal) /\ Unsettled(journal') = Unsettled(journal)
<1>1. Claims(journal') = Claims(journal)  BY ClaimsGrow
<1>2. SettledAttempts(journal') = SettledAttempts(journal)  BY AttemptsGrow
<1>3. \A k \in Claims(journal) : journal'[k] = journal[k]
  BY JournalAppended DEF Claims, Segment
<1> QED  BY <1>1, <1>2, <1>3 DEF Unsettled

LEMMA IdleBudget ==
  ASSUME Typed, Idle, phase' \in {"slice", "claim", "run", "settle", "verdict"}
  PROVE  /\ fresh' = fresh
         /\ \/ phase' = phase
            \/ phase = "reuse" /\ phase' = "slice" /\ dispatched + Len(fresh) <= MaxNodes
<1>1. /\ Len(fresh) \in Nat /\ dispatched \in Nat /\ MaxNodes \in Nat
  BY LenProperties, RunAssumption DEF Typed, TypeOK, RunAssumption
<1>2. CASE ReuseDecided
  BY <1>1, <1>2 DEF ReuseDecided, End
<1>3. CASE AppendFails \/ Stop \/ ArtifactForeign \/ AbortedBetweenSlices
  BY <1>3 DEF AppendFails, Stop, ArtifactForeign, AbortedBetweenSlices, End
<1>4. CASE Abort \/ Elapse \/ UNCHANGED vars
  BY <1>4 DEF Abort, Elapse, waveVars, vars
<1>5. CASE PlanWave  BY <1>5 DEF PlanWave, Listings
<1>6. CASE RunFresh \/ RefuseReuse \/ Reuse \/ ArtifactMissing
  BY <1>6 DEF RunFresh, RefuseReuse, Without, Reuse, ArtifactMissing, End
<1> QED  BY <1>2, <1>3, <1>4, <1>5, <1>6 DEF Idle, Quiet, Plans

LEMMA FirstCounted == InitRun => Counted /\ Bounded
<1> SUFFICES ASSUME InitRun PROVE Counted /\ Bounded
  OBVIOUS
<1>1. \A t : At(journal, t) = {}  BY DEF InitRun, Init, At
<1>2. Claims(journal) = {} /\ Unsettled(journal) = {}  BY <1>1 DEF Claims, Unsettled
<1>3. phase = "down"  BY DEF InitRun
<1> QED  BY <1>2, <1>3, FS_EmptySet, RunAssumption DEF Counted, Bounded, Live, RunAssumption

LEMMA CountedStep ==
  ASSUME Typed, Attempts, Claimed, Counted, [NextRun]_vars
  PROVE  Counted'
<1>0. /\ pos \in Nat /\ Len(slice) \in Nat /\ DOMAIN slice = 1 .. Len(slice)
      /\ Len(settling) \in Nat /\ Len(fresh) \in Nat /\ dispatched \in Nat
      /\ MaxNodes \in Nat
  BY LenProperties, RunAssumption DEF Typed, TypeOK, RunAssumption
<1>1. CASE Idle
  <2>1. UNCHANGED <<journal, slice, pos, dispatched, settling>>  BY <1>1, IdleStep
  <2>2. CASE phase' = phase
    <3>1. phase \in {"slice", "claim", "run", "settle", "verdict"} => fresh' = fresh
      BY <1>1, <2>2, IdleBudget
    <3> QED  BY <2>1, <2>2, <3>1 DEF Counted, Live, Settling, Unfinished, Held
  <2>3. CASE phase' = "ended"
    BY <2>3 DEF Counted, Live
  <2>4. CASE phase \in {"plan", "reuse"} /\ phase' \in {"plan", "reuse"}
    BY <2>1, <2>4 DEF Counted, Live, Settling, Unfinished, Held
  <2>5. CASE phase \in {"plan", "reuse"} /\ phase' = "slice"
    <3>1. fresh' = fresh /\ dispatched + Len(fresh) <= MaxNodes  BY <1>1, <2>5, IdleBudget
    <3>2. Len(slice) = 0 /\ Len(settling) = 0  BY <2>5, NoElems DEF Typed, Shape
    <3> QED  BY <1>0, <2>1, <2>5, <3>1, <3>2 DEF Counted, Live, Settling, Unfinished, Held
  <2> QED  BY <1>1, <2>2, <2>3, <2>4, <2>5, IdleStep
<1>2. CASE Crash \/ ActivateRefused
  BY <1>2 DEF Crash, ActivateRefused, End, Counted, Live
<1>3. CASE Activate
  <2>1. phase' = "open" /\ dispatched' = 0  BY <1>3 DEF Activate, Listings
  <2> QED  BY <2>1 DEF Counted
<1>4. CASE OpenHeader
  <2>1. Header(minted) \in Entry /\ Header(minted).type = "run_header"
    BY HeaderTyped DEF Typed, TypeOK, Entry, Header
  <2>2. /\ journal' = Append(journal, Header(minted)) /\ phase = "open" /\ phase' = "plan"
        /\ UNCHANGED <<slice, settling, dispatched>>
    BY <1>4 DEF OpenHeader, sliceVars, counters
  <2>3. Claims(journal') = {}  BY <2>1, <2>2, ClaimsGrow
  <2>4. Unsettled(journal') = {}  BY <2>3 DEF Unsettled
  <2>5. Cardinality(Claims(journal')) = 0 /\ Cardinality(Unsettled(journal')) = 0
    BY <2>3, <2>4, FS_EmptySet
  <2>6. dispatched = 0  BY <2>2 DEF Counted
  <2> QED  BY <1>0, <2>2, <2>5, <2>6 DEF Counted, Live, Settling, Unfinished, Held
<1>5. CASE TakeSlice
  <2>1. /\ UNCHANGED <<journal, settling, dispatched>> /\ phase = "slice" /\ phase' = "claim"
        /\ pos' = 1 /\ Len(slice) = 0
    BY <1>5, NoElems DEF TakeSlice, Typed, Shape, counters
  <2>2. Len(slice') \in Nat /\ Len(fresh') = Len(fresh) - Len(slice')  BY <1>5, SliceTaken
  <2> QED  BY <1>0, <2>1, <2>2 DEF Counted, Live, Settling, Unfinished, Held
<1>6. CASE Claim
  <2> DEFINE e == Started(slice[pos].node, slice[pos].attempt, slice[pos].input, wave)
  <2>1. e \in Entry /\ e.type = "node_started"  BY <1>6, ClaimTyped DEF Claim, Entry, Started
  <2>2. /\ journal' = Append(journal, e) /\ phase = "claim"
        /\ UNCHANGED <<slice, settling, dispatched, fresh>>
        /\ IF pos < Len(slice) THEN pos' = pos + 1 /\ phase' = phase
                               ELSE pos' = 1 /\ phase' = "run"
    BY <1>6 DEF Claim, waveVars, counters
  <2> HIDE DEF e
  <2>3. /\ Cardinality(Claims(journal')) <= Cardinality(Claims(journal)) + 1
        /\ Cardinality(Unsettled(journal')) <= Cardinality(Unsettled(journal)) + 1
    BY <2>1, <2>2, ClaimCounted
  <2>4. pos \in 1 .. Len(slice)  BY <2>2, AtPos
  <2>5. Cardinality(Claims(journal')) \in Nat /\ Cardinality(Unsettled(journal')) \in Nat
    BY <2>1, <2>2, ClaimCounted
  <2>6. /\ Cardinality(Claims(journal)) <= dispatched + Len(settling) + (pos - 1)
        /\ Cardinality(Unsettled(journal)) <= pos - 1
        /\ dispatched + Len(settling) + Len(slice) + Len(fresh) <= MaxNodes
    BY <2>2 DEF Counted, Live, Settling, Unfinished, Held
  <2>7. /\ Cardinality(Claims(journal')) <= dispatched + Len(settling) + pos
        /\ Cardinality(Unsettled(journal')) <= pos
    BY <1>0, <2>3, <2>5, <2>6, ClaimsFinite
  <2>10. pos <= Len(slice) /\ pos \in Nat /\ Len(slice) \in Nat  BY <1>0, <2>4
  <2>8. CASE pos < Len(slice)
    <3>1. phase' = "claim" /\ pos' = pos + 1 /\ slice' = slice  BY <2>2, <2>8
    <3>2. Unfinished' = Len(slice)  BY <3>1 DEF Settling, Unfinished
    <3>3. Held' = pos  BY <1>0, <3>1 DEF Held
    <3>4. dispatched' = dispatched /\ settling' = settling /\ fresh' = fresh  BY <2>2
    <3>5. dispatched' + Len(settling') + Unfinished' + Len(fresh') <= MaxNodes
      BY <2>6, <3>2, <3>4
    <3>6. /\ Cardinality(Claims(journal')) <= dispatched' + Len(settling') + Held'
          /\ Cardinality(Unsettled(journal')) <= Held'
      BY <2>7, <3>3, <3>4
    <3> QED  BY <3>1, <3>5, <3>6 DEF Counted
  <2>9. CASE ~(pos < Len(slice))
    <3>1. pos = Len(slice)  BY <2>9, <2>10
    <3>2. phase' = "run" /\ Unfinished' = Len(slice) /\ Held' = Len(slice)
      BY <2>2, <2>9 DEF Settling, Unfinished, Held
    <3> QED  BY <2>2, <2>6, <2>7, <3>1, <3>2 DEF Counted
  <2> QED  BY <2>8, <2>9
<1>7. CASE (\E i \in 1 .. MaxConcurrency : RunnerReturns(i)) \/ PatchRefused
  <2>1. /\ UNCHANGED <<journal, settling, dispatched, fresh, pos>>
        /\ \/ phase = "run" /\ phase' \in {"run", "settle"}
           \/ phase = "settle" /\ phase' = "verdict"
    BY <1>7 DEF RunnerReturns, PatchRefused, waveVars, counters
  <2>2. phase = "run" => pos = 1  BY DEF Typed, Shape
  <2>3. Len(slice') = Len(slice)  BY <1>7, SameWork
  <2>4. Unfinished' = Unfinished /\ Held' = Held
    BY <1>0, <2>1, <2>2, <2>3 DEF Settling, Unfinished, Held
  <2> QED  BY <2>1, <2>4 DEF Counted, Live
<1>8. CASE AdmitPatch
  <2> DEFINE e == PatchAdmitted(Emitted, slice[pos].attempt)
  <2>1. e \in Entry /\ e.type = "patch_admitted"
    BY <1>8, PatchTyped DEF Entry, PatchAdmitted
  <2>2. /\ journal' = journal \/ journal' = Append(journal, e)
        /\ phase = "settle" /\ phase' = "verdict"
        /\ UNCHANGED <<slice, pos, settling, dispatched, fresh>>
    BY <1>8 DEF AdmitPatch, sliceVars, waveVars
  <2> HIDE DEF e
  <2>3. Claims(journal') = Claims(journal) /\ Unsettled(journal') = Unsettled(journal)
    BY <2>1, <2>2, CountsKept
  <2> QED  BY <2>2, <2>3 DEF Counted, Live, Settling, Unfinished, Held
<1>9. CASE Settle
  <2>1. PICK e \in SettledSet :
          /\ journal' = Append(journal, e) /\ settling' = Append(settling, e)
          /\ e.attempt = slice[pos].attempt
    BY <1>9, SettledEntry
  <2>2. e \in Entry /\ e.type = "node_settled"  BY DEF Entry, SettledSet
  <2>3. Len(settling') = Len(settling) + 1  BY <2>1, AppendProperties DEF Typed
  <2>4. phase \in {"settle", "verdict"}  BY <1>9 DEF Settle
  <2>5. pos \in 1 .. Len(slice)  BY <2>4, AtPos
  <2>6. PICK i \in Claims(journal) : journal[i].attempt = slice[pos].attempt
    BY <1>0, <2>4, <2>5 DEF Claimed, ClaimOf
  <2>7. i \in Unsettled(journal)
    <3>1. /\ slice[pos].attempt = minted - Len(slice) + pos
          /\ \A a \in SettledAttempts(journal) : a <= minted - Len(slice) + pos - 1
      BY <1>0, <2>4, <2>5 DEF Attempts, Live, Settling
    <3>2. minted \in Nat  BY DEF Typed, TypeOK
    <3>3. slice[pos].attempt \notin SettledAttempts(journal)  BY <1>0, <3>1, <3>2
    <3> QED  BY <2>6, <3>3 DEF Unsettled
  <2>8. /\ Claims(journal') = Claims(journal)
        /\ Cardinality(Unsettled(journal')) <= Cardinality(Unsettled(journal)) - 1
    BY <2>1, <2>2, <2>6, <2>7, SettlementCounted
  <2>9. /\ UNCHANGED <<dispatched, fresh>>
        /\ IF pos < Len(slice) THEN pos' = pos + 1 /\ phase' = "settle" /\ UNCHANGED slice
                               ELSE pos' = 1 /\ phase' = "slice" /\ slice' = <<>>
    BY <1>9 DEF Settle, waveVars, counters
  <2>10. /\ Cardinality(Claims(journal)) <= dispatched + Len(settling) + (Len(slice) - pos + 1)
         /\ Cardinality(Unsettled(journal)) <= Len(slice) - pos + 1
         /\ dispatched + Len(settling) + (Len(slice) - pos + 1) + Len(fresh) <= MaxNodes
    BY <2>4 DEF Counted, Live, Settling, Unfinished, Held
  <2>11. Cardinality(Unsettled(journal')) \in Nat
    BY <2>1, <2>2, <2>6, <2>7, SettlementCounted
  <2>12. CASE pos < Len(slice)
    <3>1. /\ Cardinality(Claims(journal'))
               <= dispatched + Len(settling') + (Len(slice) - (pos + 1) + 1)
          /\ Cardinality(Unsettled(journal')) <= Len(slice) - (pos + 1) + 1
          /\ dispatched + Len(settling') + (Len(slice) - (pos + 1) + 1) + Len(fresh) <= MaxNodes
      BY <1>0, <2>3, <2>8, <2>10, <2>11, ClaimsFinite
    <3>2. /\ phase' = "settle" /\ Unfinished' = Len(slice) - (pos + 1) + 1 /\ Held' = Unfinished'
      BY <2>9, <2>12 DEF Settling, Unfinished, Held
    <3>3. dispatched' = dispatched /\ fresh' = fresh  BY <2>9
    <3>4. dispatched' + Len(settling') + Unfinished' + Len(fresh') <= MaxNodes
      BY <3>1, <3>2, <3>3
    <3>5. /\ Cardinality(Claims(journal')) <= dispatched' + Len(settling') + Held'
          /\ Cardinality(Unsettled(journal')) <= Held'
      BY <3>1, <3>2, <3>3
    <3> QED  BY <3>2, <3>4, <3>5 DEF Counted
  <2>13. CASE ~(pos < Len(slice))
    <3>1. pos = Len(slice)
      <4>1. pos <= Len(slice) /\ pos \in Nat /\ Len(slice) \in Nat  BY <1>0, <2>5
      <4> QED  BY <2>13, <4>1
    <3>4. Len(slice') = 0  BY <2>9, <2>13, NoElems
    <3>2. /\ Cardinality(Claims(journal')) <= dispatched + Len(settling') + 0
          /\ Cardinality(Unsettled(journal')) <= 0
          /\ dispatched + Len(settling') + 0 + Len(fresh) <= MaxNodes
      BY <1>0, <2>3, <2>8, <2>10, <2>11, <3>1, ClaimsFinite
    <3>3. phase' = "slice" /\ Unfinished' = 0 /\ Held' = 0
      BY <2>9, <2>13, <3>4 DEF Settling, Unfinished, Held
    <3> QED  BY <2>9, <3>2, <3>3 DEF Counted
  <2> QED  BY <2>12, <2>13
<1>10. CASE EndWave
  <2>1. /\ phase = "slice" /\ phase' \in {"plan", "ended"} /\ UNCHANGED <<journal, slice>>
        /\ dispatched' = dispatched + Len(settling) /\ Len(settling') = 0
    BY <1>10, NoElems DEF EndWave, End
  <2>2. Len(slice) = 0  BY <2>1, NoElems DEF Typed, Shape
  <2>3. /\ Cardinality(Claims(journal)) <= dispatched + Len(settling) + 0
        /\ Cardinality(Unsettled(journal)) <= 0
        /\ dispatched + Len(settling) + 0 + Len(fresh) <= MaxNodes
    BY <2>1, <2>2 DEF Counted, Live, Settling, Unfinished, Held
  <2> QED  BY <1>0, <2>1, <2>2, <2>3 DEF Counted, Live, Settling, Unfinished, Held
<1> QED
  BY <1>1, <1>2, <1>3, <1>4, <1>5, <1>6, <1>7, <1>8, <1>9, <1>10, Steps DEF Idle

(* Past its header, the activation's own counts bound its claims.          *)
LEMMA BoundedWhenCounted ==
  ASSUME Typed, Counted, Live, phase # "open"
  PROVE  Bounded
<1>0. /\ pos \in Nat /\ Len(slice) \in Nat /\ Len(settling) \in Nat /\ Len(fresh) \in Nat
      /\ dispatched \in Nat /\ MaxNodes \in Nat /\ MaxConcurrency \in Nat
  BY LenProperties, RunAssumption DEF Typed, TypeOK, RunAssumption
<1>1. phase \in {"plan", "reuse"} \/ phase \in {"slice", "claim", "run", "settle", "verdict"}
  BY DEF Typed, TypeOK, Phase, Live
<1>2. Held <= Unfinished /\ Unfinished <= Len(slice) /\ Held \in Int /\ Unfinished \in Int
  <2>1. phase \in {"claim", "settle", "verdict"} => pos \in 1 .. Len(slice)  BY AtPos
  <2> QED  BY <1>0, <2>1 DEF Held, Unfinished, Settling
<1>3. Len(slice) <= MaxConcurrency  BY DEF Typed, Shape, Live
<1>4. /\ Cardinality(Claims(journal)) <= dispatched + Len(settling) + Held
      /\ Cardinality(Unsettled(journal)) <= Held
  BY DEF Counted
<1>5. dispatched + Len(settling) + Held <= MaxNodes
  <2>1. CASE phase \in {"plan", "reuse"}
    <3>1. Len(settling) = 0 /\ Len(slice) = 0  BY <2>1, NoElems DEF Typed, Shape
    <3> QED  BY <1>0, <1>2, <2>1, <3>1 DEF Counted
  <2>2. CASE phase \in {"slice", "claim", "run", "settle", "verdict"}
    <3>1. dispatched + Len(settling) + Unfinished + Len(fresh) <= MaxNodes
      BY <2>2 DEF Counted
    <3> QED  BY <1>0, <1>2, <3>1
  <2> QED  BY <1>1, <2>1, <2>2
<1> QED  BY <1>0, <1>2, <1>3, <1>4, <1>5, ClaimsFinite DEF Bounded

(* Before that, the claims are those of the activation before.             *)
Carried == ~Live \/ phase = "open" => Bounded

LEMMA CarriedStep ==
  ASSUME Typed, Counted, Carried, [NextRun]_vars
  PROVE  Carried'
<1>1. Bounded  BY BoundedWhenCounted DEF Carried
<1>2. CASE journal' = journal
  BY <1>1, <1>2 DEF Carried, Bounded, Claims, Unsettled
<1>3. CASE OpenHeader \/ Claim \/ AdmitPatch \/ Settle
  <2>1. phase' \in {"plan", "claim", "run", "settle", "verdict", "slice"}
    BY <1>3 DEF OpenHeader, Claim, AdmitPatch, Settle
  <2> QED  BY <2>1 DEF Carried, Live
<1> QED  BY <1>2, <1>3, Steps, JournalKept

(* However an activation is interrupted and resumed, it never claims more  *)
(* nodes than its budget, nor holds more unsettled claims than may run.    *)
THEOREM BudgetRespectedHolds == SpecRun => []BudgetRespected
<1> DEFINE Inv == /\ Typed /\ TrustedShown /\ Newest /\ Attempts /\ Claimed
                  /\ Counted /\ Carried
<1>1. InitRun => Inv
  BY TypedInit, FirstReplay, FirstAttempts, FirstCounted DEF Carried
<1>2. Inv /\ [NextRun]_vars => Inv'
  BY TypedStep, TrustedStep, NewestStep, AttemptsStep, ClaimedStep, CountedStep, CarriedStep
<1>3. Inv => BudgetRespected
  <2>1. Inv => Bounded  BY BoundedWhenCounted DEF Carried
  <2> QED  BY <2>1 DEF Bounded, BudgetRespected, Claims, Unsettled
<1> QED  BY <1>1, <1>2, <1>3, PTL DEF SpecRun
=============================================================================
