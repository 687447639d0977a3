------------------------- MODULE MCApprovalDelivery -------------------------
(* A small instance of ApprovalDelivery: one VM, and one approval of a     *)
(* grant request that carries an operation to replay.                      *)
EXTENDS ApprovalDelivery, TLC

CONSTANTS e1, r1, c1, c2

OneVm == {<<"a1", "v1">>}
VmOfMC == (e1 :> <<"a1", "v1">>)
KindMC == (e1 :> "chained")
ElevOfMC == (r1 :> e1)
BodyGrantMC == (r1 :> FALSE)

ConnSymmetry == Permutations(Conns)
=============================================================================
