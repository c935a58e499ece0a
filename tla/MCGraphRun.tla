----------------------------- MODULE MCGraphRun -----------------------------
(* The graphs on which GraphRun is checked.                                *)
EXTENDS GraphRun, TLC

CONSTANTS a, b, c, d, r, w, p, q

E(s, t) == [source |-> s, target |-> t, when |-> "success", disabled |-> FALSE]
OnFailure(s, t) == [E(s, t) EXCEPT !.when = "failure"]
OnLabel(s, t) == [E(s, t) EXCEPT !.when = "label"]

NoBody == [x \in {} |-> {}]
EmitsNone == [n \in Node |-> {}]

(* a forks to b and c, d joins them.  r is an any-join of a's route and of *)
(* the recovery of c: in a wide wave it starts after c of the same wave    *)
(* has settled.                                                            *)
Diamond == [nodes |-> <<a, b, c, d, r>>,
            edges |-> {E(a, b), E(a, c), E(b, d), E(c, d), E(a, r), OnFailure(c, r)}]

(* d recovers whichever of a and b fails, or reduces the worker b may      *)
(* emit: an any-join of routes that exclude each other.  r runs when the   *)
(* runner of a calls its label satisfied; its edge to d is disabled.       *)
Merge == [nodes |-> <<a, b, d, r>>,
          edges |-> {E(a, b), OnFailure(a, d), OnFailure(b, d), OnLabel(a, r),
                     [E(r, d) EXCEPT !.disabled = TRUE]}]

Labels == {OnLabel(a, r)}

Line == [nodes |-> <<a, b, c>>, edges |-> {E(a, b), E(b, c)}]

(* b may emit a worker that joins d.                                       *)
FanOut == [nodes |-> <<a, b, d>>, edges |-> {E(a, b), E(b, d)}]

Workers == (p :> [by |-> b, nodes |-> <<w>>, edges |-> {E(b, w), E(w, d)}])
           @@ (q :> [by |-> b, nodes |-> <<c>>, edges |-> {E(b, c)}])
Worker == p :> Workers[p]

EmitsWorkers == [n \in Node |-> IF n = b THEN Patch ELSE {}]
=============================================================================
