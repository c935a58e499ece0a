----------------------------- MODULE FencedLog -----------------------------
(***************************************************************************)
(* What node leases promise the journal, with no clock, no revisions and   *)
(* no races: terms are granted one after the other, each to one owner, and *)
(* only the owner of the newest term writes claims and settlements.  The   *)
(* synchronous lease path of GraphLease implements it.                     *)
(***************************************************************************)
EXTENDS Naturals, Sequences

CONSTANT Owner

VARIABLES grants,   \* grants[f] is the owner of term f
          log       \* the claims and settlements written, in order

fvars == <<grants, log>>

Entry(t, o, f) == [type |-> t, owner |-> o, fence |-> f]

Init == grants = <<>> /\ log = <<>>

(* A new term starts with its owner's claim.                               *)
GrantAndClaim(o) ==
  /\ grants' = Append(grants, o)
  /\ log' = Append(log, Entry("node_started", o, Len(grants) + 1))

(* The owner of the newest term writes again under it.                     *)
WriteUnder(o, t) ==
  /\ grants # <<>>
  /\ grants[Len(grants)] = o
  /\ log' = Append(log, Entry(t, o, Len(grants)))
  /\ UNCHANGED grants

Next == \E o \in Owner :
          \/ GrantAndClaim(o)
          \/ WriteUnder(o, "node_started")
          \/ WriteUnder(o, "node_settled")

Spec == Init /\ [][Next]_fvars
=============================================================================
