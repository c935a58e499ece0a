--------------------------- MODULE GraphTopology ---------------------------
(***************************************************************************)
(* Executable graphs and the patches that grow them: which nodes are ready *)
(* (graph-executor.ts), which edges a settling node fires                  *)
(* (graph-activation.ts), and which patches are structurally valid         *)
(* (graph-admission.ts).  Pure operators over constants.                   *)
(***************************************************************************)
EXTENDS Naturals, Sequences, FiniteSets

CONSTANTS
  Node,      \* node ids, of the admitted graph and of every patch
  Base,      \* the admitted graph: [nodes : Seq(Node), edges : SUBSET Edge]
  AnyJoin,   \* the nodes whose joinMode is 'any'
  Patch,     \* the patches runners may emit, named by their digest
  NoPatch,   \* no patch
  Body       \* Body[p]: [by : Node, nodes : Seq(Node), edges : SUBSET Edge]

(* `when` is success, failure, or a label only the runner understands.     *)
Edge == [source : Node, target : Node,
         when : {"success", "failure", "label"}, disabled : BOOLEAN]

ASSUME TopologyAssumption ==
  /\ Base \in [nodes : Seq(Node), edges : SUBSET Edge]
  /\ \A i, k \in DOMAIN Base.nodes : Base.nodes[i] = Base.nodes[k] => i = k
  /\ AnyJoin \subseteq Node
  /\ NoPatch \notin Patch /\ IsFiniteSet(Node) /\ IsFiniteSet(Patch)
  /\ Body \in [Patch -> [by : Node, nodes : Seq(Node), edges : SUBSET Edge]]

Elems(s) == {s[i] : i \in DOMAIN s}

(* The sequences of the elements of S, each once, in the order Before.     *)
Listings(S, Before(_, _)) ==
  {s \in [1 .. Cardinality(S) -> S] : \A i, j \in DOMAIN s : i < j => Before(s[i], s[j])}

(* The admitted graph grown by the patches P.                              *)
Topology(P) ==
  [nodes |-> Elems(Base.nodes) \cup UNION {Elems(Body[p].nodes) : p \in P},
   edges |-> Base.edges \cup UNION {Body[p].edges : p \in P}]

(* Declaration order, after the patches ps were applied one by one.        *)
DeclaredBefore(ps, m, n) ==
  LET nodes(k) == IF k = 0 THEN Base.nodes ELSE Body[ps[k]].nodes
  IN  \E k \in 0 .. Len(ps) : \E l \in k .. Len(ps) :
        \E i \in DOMAIN nodes(k), j \in DOMAIN nodes(l) :
          nodes(k)[i] = m /\ nodes(l)[j] = n /\ (k = l => i < j)

Incoming(g, n) == {e \in g.edges : e.target = n /\ ~e.disabled}

(* Every enabled incoming edge has fired, or one of them at an any-join; a *)
(* node whose incoming edges are all disabled is never ready.              *)
Joined(g, fired, n) ==
  IF n \in AnyJoin THEN Incoming(g, n) \cap fired # {}
                   ELSE Incoming(g, n) \subseteq fired

Ready(g, fired, n) ==
  /\ (\E e \in g.edges : e.target = n) => Incoming(g, n) # {}
  /\ Joined(g, fired, n)

ReadyNodes(g, fired, settled) == {n \in g.nodes \ settled : Ready(g, fired, n)}

-----------------------------------------------------------------------------
(* What a node's runner settles with.                                      *)

SettlementClass == {"node", "infrastructure", "policy", "cancelled",
                    "completed_after_cancel", "uncertain_after_cancel", "none"}

Failed(class) == [status |-> "failed", class |-> class, output |-> 0, patch |-> NoPatch]

Stopped(status, class) ==
  [status |-> status, class |-> class, output |-> 0, patch |-> NoPatch]

Done(output, p) ==
  [status |-> "completed", class |-> "none", output |-> output, patch |-> p]

(* A completion, or the node's own failure: only these route topology.     *)
Routes(o) == o.status = "completed" \/ (o.status = "failed" /\ o.class = "node")

(* Mutant of OutcomeAfterAbort: the result is passed off as an abort.      *)
AbortedAsSuch(o) == Stopped("aborted", "cancelled")

(* A result that arrives after the abort settles as a cancellation.        *)
OutcomeAfterAbort(o) ==
  Stopped("cancelled",
    CASE o.status = "completed" -> "completed_after_cancel"
      [] o.status = "failed" /\ o.class = "infrastructure" -> "uncertain_after_cancel"
      [] OTHER -> "cancelled")

(* The `when` an outcome satisfies of itself.                              *)
RouteOf(o) == IF o.status = "completed" THEN "success" ELSE "failure"

(* The edges that n fires by settling with o; `said` are the labelled      *)
(* edges the runner calls satisfied.                                       *)
EdgeVerdict(g, n, o, said) ==
  {e \in g.edges : /\ Routes(o) /\ e.source = n /\ ~e.disabled
                   /\ e.when = RouteOf(o) \/ (e.when = "label" /\ e \in said)}

-----------------------------------------------------------------------------
(* Patches.                                                                *)

(* Enabled edges close no cycle: every set of nodes has one that leads out *)
(* of it.                                                                  *)
Acyclic(nodes, edges) ==
  \A S \in SUBSET nodes \ {{}} :
    \E n \in S : \A e \in edges : ~e.disabled /\ e.source = n => e.target \notin S

(* A patch only adds: new nodes, and edges with a new end.                 *)
ValidPatch(g, p) ==
  LET old == g.nodes
      new == Elems(Body[p].nodes)
  IN  /\ Body[p].by \in old
      /\ new # {} /\ new \cap old = {} /\ Cardinality(new) = Len(Body[p].nodes)
      /\ Body[p].edges \cap g.edges = {}
      /\ \A e \in Body[p].edges : /\ {e.source, e.target} \subseteq old \cup new
                                  /\ {e.source, e.target} \cap new # {}
      /\ Acyclic(old \cup new, g.edges \cup Body[p].edges)

(* The existing nodes a patch joins.                                       *)
JoinTargets(p) == {e.target : e \in Body[p].edges} \ Elems(Body[p].nodes)

(* The scheduling future of n is open: not in `closed`, no route fired.    *)
JoinOpen(g, fired, closed, n) == n \notin closed /\ Incoming(g, n) \cap fired = {}
=============================================================================
