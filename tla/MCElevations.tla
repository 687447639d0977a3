---------------------------- MODULE MCElevations ----------------------------
(* A small instance of Elevations: two concurrent approve requests for a   *)
(* memory operation, one for a grant request.                              *)
EXTENDS Elevations, TLC

CONSTANTS e1, e2, r1, r2, r3

ElevOfMC == (r1 :> e1) @@ (r2 :> e1) @@ (r3 :> e2)

\* r1 brings a grant for the memory operation of e1, r2 does not; the grant
\* of e2 comes from the stored grant request.
BodyGrantMC == (r1 :> TRUE) @@ (r2 :> FALSE) @@ (r3 :> FALSE)
KindMC == (e1 :> "memory") @@ (e2 :> "request")

\* The memory operation of e1 alone, with its two requests.
ElevOfOne == [r \in {r1, r2} |-> e1]
BodyGrantOne == (r1 :> TRUE) @@ (r2 :> FALSE)
KindOne == (e1 :> "memory")
=============================================================================
