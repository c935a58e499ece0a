---------------------------- MODULE GraphHistory ----------------------------
(***************************************************************************)
(* The durable journal of an admitted run, and what a resume may trust of  *)
(* it (graph-journal.ts, graph-resume.ts).  Replay judges every entry      *)
(* against the prefix before it; here the judgement is a predicate of the  *)
(* prefix and the entry.  Spec is the journal replay believes in: one      *)
(* admissible entry after the other.                                       *)
(***************************************************************************)
EXTENDS GraphTopology

CONSTANT MaxExpansions    \* patches one activation may admit

VARIABLE journal

Header(id) == [type |-> "run_header", id |-> id]

Started(n, a, input, w) ==
  [type |-> "node_started", node |-> n, attempt |-> a, input |-> input, wave |-> w]

SettledBy(s, w, o, fired) ==
  [type |-> "node_settled", node |-> s.node, attempt |-> s.attempt,
   input |-> s.input, wave |-> w, status |-> o.status, class |-> o.class,
   output |-> o.output, patch |-> o.patch, fired |-> fired]

PatchAdmitted(p, a) == [type |-> "patch_admitted", patch |-> p, attempt |-> a]

At(j, type) == {i \in DOMAIN j : j[i].type = type}

StartsOf(j, a) == {i \in At(j, "node_started") : j[i].attempt = a}
SettledAttempts(j) == {j[i].attempt : i \in At(j, "node_settled")}
SettledNodes(j) == {j[i].node : i \in At(j, "node_settled")}

(* Every edge any settlement ever fired: the durable routing history.      *)
FiredIn(j) == UNION {j[i].fired : i \in At(j, "node_settled")}

PatchesOf(j) == {j[i].patch : i \in At(j, "patch_admitted")}

(* The topology as of the end of j, orphans included.                      *)
TopologyAt(j) == Topology(PatchesOf(j))

(* Positions of the activation that is open at the end of j.               *)
Segment(j) == {i \in DOMAIN j : \A h \in At(j, "run_header") : h <= i}

-----------------------------------------------------------------------------
(* Entry by entry.                                                         *)

HeaderOK(j, e) == \A h \in At(j, "run_header") : j[h].id # e.id

(* Within an activation a node starts in a later wave than the settlement  *)
(* that fired each of its routes.                                          *)
LaterWave(j, e) ==
  \A i \in Segment(j) \cap At(j, "node_settled") :
    (\E edge \in Incoming(TopologyAt(j), e.node) :
        /\ edge \in j[i].fired
        /\ \A k \in At(j, "node_settled") : k > i => edge \notin j[k].fired)
      => j[i].wave < e.wave

StartOK(j, e) ==
  /\ e.node \in TopologyAt(j).nodes
  /\ StartsOf(j, e.attempt) = {}
  /\ (\E edge \in TopologyAt(j).edges : edge.target = e.node)
       => /\ Ready(TopologyAt(j), FiredIn(j), e.node)
          /\ LaterWave(j, e)

(* Fired edges exist, are the node's own, and agree with its status; no    *)
(* built-in route is left out.                                             *)
RoutingOK(g, e) ==
  /\ e.fired # {} => Routes(e)
  /\ e.fired \subseteq {edge \in g.edges : edge.source = e.node /\ ~edge.disabled}
  /\ Routes(e) =>
       /\ \A edge \in e.fired : edge.when \in {RouteOf(e), "label"}
       /\ EdgeVerdict(g, e.node, e, {}) \subseteq e.fired

SettlementOK(j, e) ==
  /\ \E i \in StartsOf(j, e.attempt) :
       j[i].node = e.node /\ j[i].input = e.input /\ j[i].wave = e.wave
  /\ e.attempt \notin SettledAttempts(j)
  /\ RoutingOK(TopologyAt(j), e)
  /\ e.patch # NoPatch => /\ e.status = "completed"
                          /\ e.patch \in PatchesOf(j)
                          /\ Body[e.patch].by = e.node

PatchOK(j, e) ==
  /\ \E i \in StartsOf(j, e.attempt) : j[i].node = Body[e.patch].by
  /\ e.attempt \notin SettledAttempts(j)
  /\ \A i \in At(j, "patch_admitted") : j[i].patch # e.patch /\ j[i].attempt # e.attempt
  /\ ValidPatch(TopologyAt(j), e.patch)
  /\ \A n \in JoinTargets(e.patch) :
       JoinOpen(TopologyAt(j), FiredIn(j), SettledNodes(j), n)
  /\ Cardinality(Segment(j) \cap At(j, "patch_admitted")) < MaxExpansions

Admissible(j, e) ==
  \/ e.type = "run_header" /\ HeaderOK(j, e)
  \/ /\ At(j, "run_header") # {}
     /\ \/ e.type = "node_started" /\ StartOK(j, e)
        \/ e.type = "node_settled" /\ SettlementOK(j, e)
        \/ e.type = "patch_admitted" /\ PatchOK(j, e)

-----------------------------------------------------------------------------
(* The whole journal.                                                      *)

(* A patch is real when a completed settlement of its emitter carries it.  *)
ProvenIn(j) == {j[i].patch : i \in At(j, "node_settled")} \ {NoPatch}

OrphansIn(j) == PatchesOf(j) \ ProvenIn(j)

(* The patches of the resumed topology.                                    *)
AppliedIn(j) == PatchesOf(j) \cap ProvenIn(j)

AdmittedBefore(j, p, q) ==
  \E i, k \in At(j, "patch_admitted") : i < k /\ j[i].patch = p /\ j[k].patch = q

(* No completion ignored its orphan, nothing ran in an orphan's topology,  *)
(* and an emitter has at most one.                                         *)
OrphansOK(j) ==
  \A p \in OrphansIn(j) :
    /\ \A i \in At(j, "patch_admitted"), k \in At(j, "node_settled") :
         j[i].patch = p /\ k > i
           => ~(j[k].node = Body[p].by /\ j[k].status = "completed")
    /\ \A i \in At(j, "node_started") : j[i].node \notin Elems(Body[p].nodes)
    /\ FiredIn(j) \cap Body[p].edges = {}
    /\ \A q \in OrphansIn(j) : Body[q].by = Body[p].by => q = p

(* The newest settlement of n that routes, 0 when there is none.           *)
TrustedIn(j, n) ==
  LET routed == {i \in At(j, "node_settled") : j[i].node = n /\ Routes(j[i])}
  IN  IF routed = {} THEN 0 ELSE CHOOSE i \in routed : \A k \in routed : k <= i

(* Every trusted settlement is reachable through fired routes.             *)
ClosureOK(j) ==
  LET g == Topology(AppliedIn(j))
  IN  \A n \in Node : TrustedIn(j, n) # 0 =>
        /\ n \in g.nodes
        /\ (\E e \in g.edges : e.target = n) => Ready(g, FiredIn(j), n)

Replayable(j) ==
  /\ \A i \in DOMAIN j : Admissible(SubSeq(j, 1, i - 1), j[i])
  /\ OrphansOK(j)
  /\ ClosureOK(j)

(* What replay answers: the journal is this run's history or it is not.    *)
Replay(j) == [ok |-> Replayable(j)]

Init == journal = <<>>

Next == /\ Len(journal') = Len(journal) + 1
        /\ SubSeq(journal', 1, Len(journal)) = journal
        /\ Admissible(journal, journal'[Len(journal')])

Spec == Init /\ [][Next]_journal
=============================================================================
