-------------------------- MODULE MCReplayDelivery --------------------------
(* A small instance of ReplayDelivery: two VMs of one agent, or one VM.    *)
EXTENDS ReplayDelivery, TLC

CONSTANTS c1, c2, m1, m2

\* Two VMs of the same agent a1.
TwoVms == {<<"a1", "v1">>, <<"a1", "v2">>}
OneVm  == {<<"a1", "v1">>}

\* One message for each VM, or all of them for the one VM.
DestTwo == (m1 :> <<"a1", "v1">>) @@ (m2 :> <<"a1", "v2">>)
DestPair == [m \in {m1, m2} |-> <<"a1", "v1">>]
DestSolo == [m \in {m1} |-> <<"a1", "v1">>]

ConnSymmetry == Permutations(Conns)

\* With one VM the messages are interchangeable too.
ConnMsgSymmetry == Permutations(Conns) \cup Permutations(Msgs)
=============================================================================
