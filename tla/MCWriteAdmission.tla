-------------------------- MODULE MCWriteAdmission --------------------------
(* Instances of WriteAdmission for TLC.                                    *)
EXTENDS WriteAdmission, TLC

CONSTANTS c1, c2, c3, a1

(* One address, mailed three times: by a native call and by two others.    *)
OneTarget == [c \in Call |-> {"a"}]
NamesA    == [a \in Approval |-> {"a"}]

(* Two calls outside the native lane; where nothing crashes it is all one  *)
(* which process they run in.                                              *)
Peers == Permutations({c2, c3})
=============================================================================
